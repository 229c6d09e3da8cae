-------------------------- MODULE TransportProofs ---------------------------
(***************************************************************************)
(* The RPC interface, for any number of retries and calls: what a handler  *)
(* or a caller gets is what was sent, whatever part of it one recv         *)
(* returns, and the loop over retries_ repeats neither too much nor too    *)
(* little.                                                                 *)
(***************************************************************************)
EXTENDS Transport, DataProofs
-----------------------------------------------------------------------------
(* What arrives of a text *)

\* What one recv returns of a text: a beginning of it, whose last token may be
\* the beginning of a number of two digits.
LEMMA Beginnings ==
    ASSUME NEW S, NEW x \in Seq(S), NEW t \in Received(x), \A k \in 1..Header(x) : x[k] \in Int
    PROVE  /\ Len(t) \in 0..Len(x)
           /\ \A k \in 1..Len(t) - 1 : t[k] = x[k]
           /\ Len(t) > 0 => \/ t[Len(t)] = x[Len(t)]
                            \/ Len(t) <= 6 /\ x[Len(t)] >= 10 /\ t[Len(t)] = x[Len(t)] \div 10
           /\ Len(t) = Len(x) /\ (Len(t) > 0 => t[Len(t)] = x[Len(t)]) => t = x
<1>1. Len(x) \in Nat /\ DOMAIN x = 1..Len(x) /\ \A k \in 1..Len(x) : x[k] \in S
  OBVIOUS
<1>2. ASSUME NEW i \in 0..Len(x), t = SubSeq(x, 1, i)
      PROVE  /\ t \in Seq(S) /\ Len(t) = i /\ \A k \in 1..i : t[k] = x[k]
             /\ i = Len(x) => t = x
  <2>1. \A k \in 1..i : x[k] \in S
    BY <1>1, <1>2
  <2>2. t \in Seq(S) /\ Len(t) = i /\ \A k \in 1..i : t[k] = x[1 + k - 1]
    BY <1>1, <1>2, <2>1, SubSeqProperties
  <2>3. \A k \in 1..i : 1 + k - 1 = k
    BY <1>1
  <2>4. i = Len(x) => t = x
    BY <1>1, <2>2, <2>3
  <2> QED
    BY <2>2, <2>3, <2>4
<1>3. ASSUME NEW j \in 1..Header(x), x[j] >= 10, t = SubSeq(x, 1, j - 1) \o <<x[j] \div 10>>
      PROVE  /\ j \in 1..Len(x) /\ j <= 6 /\ Len(t) = j /\ \A k \in 1..j - 1 : t[k] = x[k]
             /\ t[j] = x[j] \div 10
  <2>1. j \in 1..Len(x) /\ j <= 6
    BY <1>1, <1>3 DEF Header
  <2> DEFINE u == SubSeq(x, 1, j - 1)
             d == x[j] \div 10
             R == S \cup {d}
  <2>2. \A k \in 1..j - 1 : x[k] \in S
    BY <1>1, <2>1
  <2>3. u \in Seq(S) /\ Len(u) = j - 1 /\ \A k \in 1..j - 1 : u[k] = x[1 + k - 1]
    BY <1>1, <2>1, <2>2, SubSeqProperties
  <2>4. u \in Seq(R) /\ <<d>> \in Seq(R) /\ Len(<<d>>) = 1 /\ <<d>>[1] = d
    BY <2>3
  <2> HIDE DEF u, d, R
  <2>5. /\ Len(u \o <<d>>) = Len(u) + 1
        /\ \A i \in 1..Len(u) + 1 : (u \o <<d>>)[i] = IF i <= Len(u) THEN u[i] ELSE <<d>>[i - Len(u)]
    BY <2>4, ConcatProperties
  <2>6. t = u \o <<d>>
    BY <1>3 DEF u, d
  <2>7. \A k \in 1..j - 1 : 1 + k - 1 = k
    BY <2>1
  <2>8. Len(t) = j /\ t[j] = d /\ \A k \in 1..j - 1 : t[k] = x[k]
    BY <2>1, <2>3, <2>4, <2>5, <2>6, <2>7
  <2> QED
    BY <2>1, <2>8 DEF d
<1>4. CASE \E i \in 0..Len(x) : t = SubSeq(x, 1, i)
  <2>1. PICK i \in 0..Len(x) : t = SubSeq(x, 1, i)
    BY <1>4
  <2>2. /\ t \in Seq(S) /\ Len(t) = i /\ \A k \in 1..i : t[k] = x[k]
        /\ i = Len(x) => t = x
    BY <1>2, <2>1
  <2>3. (i > 0 => i \in 1..i) /\ \A k \in 1..i - 1 : k \in 1..i
    BY <1>1
  <2> QED
    BY <1>1, <2>2, <2>3
<1>5. CASE \E j \in 1..Header(x) : x[j] >= 10 /\ t = SubSeq(x, 1, j - 1) \o <<x[j] \div 10>>
  <2>1. PICK j \in 1..Header(x) : x[j] >= 10 /\ t = SubSeq(x, 1, j - 1) \o <<x[j] \div 10>>
    BY <1>5
  <2>2. /\ j \in 1..Len(x) /\ j <= 6 /\ Len(t) = j /\ \A k \in 1..j - 1 : t[k] = x[k]
        /\ t[j] = x[j] \div 10
    BY <1>3, <2>1
  <2>3. Len(t) = Len(x) /\ t[Len(t)] = x[Len(t)] => t = x
    <3>1. ASSUME x[j] \div 10 = x[j]
          PROVE  FALSE
      <4>1. \A v \in Int : v >= 10 => v \div 10 # v
        OBVIOUS
      <4> QED
        BY <2>1, <3>1, <4>1
    <3> QED
      BY <2>2, <3>1
  <2>4. /\ Len(t) \in 0..Len(x) /\ Len(t) > 0 /\ Len(t) <= 6
        /\ \A k \in 1..Len(t) - 1 : t[k] = x[k]
        /\ x[Len(t)] >= 10 /\ t[Len(t)] = x[Len(t)] \div 10
    BY <1>1, <2>1, <2>2
  <2> QED
    BY <2>3, <2>4
<1> QED
  BY <1>4, <1>5 DEF Received

\* The text of the vote request of the model.
LEMMA VoteText ==
    ASSUME NEW x, x = serializeRequestVoteArgs(VoteArgs)
    PROVE  x \in Seq(Int) /\ Len(x) = 4 /\ x[1] = 3 /\ x[2] = 1 /\ x[3] = 2 /\ x[4] = 12
<1>1. x = <<3, 1, 2, 12>>
  BY DEF serializeRequestVoteArgs, VoteArgs
<1> QED
  BY <1>1

\* The text of a vote reply.
LEMMA VoteReplyText ==
    ASSUME NEW v \in BOOLEAN
    PROVE  \E n \in {0, 1} :
             LET x == serializeRequestVoteReply([term |-> 3, voteGranted |-> v])
             IN  x \in Seq(Int) /\ Len(x) = 2 /\ x[1] = 3 /\ x[2] = n /\ (n = 1) = v
<1> DEFINE n == IF v THEN 1 ELSE 0
<1>1. serializeRequestVoteReply([term |-> 3, voteGranted |-> v]) = <<3, n>>
  BY DEF serializeRequestVoteReply
<1>2. n \in {0, 1} /\ (n = 1) = v
  OBVIOUS
<1> HIDE DEF n
<1>3. ASSUME NEW x, x = <<3, n>>
      PROVE  x \in Seq(Int) /\ Len(x) = 2 /\ x[1] = 3 /\ x[2] = n
  BY <1>2, <1>3
<1> QED
  BY <1>1, <1>2, <1>3, Zenon

\* The text of an AppendEntries reply.
LEMMA AppendReplyText ==
    ASSUME NEW v \in BOOLEAN, NEW c \in Int, NEW d \in Int
    PROVE  \E n \in {0, 1} :
             LET x == serializeAppendEntriesReply(
                        [term |-> 3, success |-> v, conflictIndex |-> c, conflictTerm |-> d])
             IN  /\ x \in Seq(Int) /\ Len(x) = 4 /\ x[1] = 3 /\ x[2] = n /\ x[3] = c /\ x[4] = d
                 /\ (n = 1) = v
<1> DEFINE n == IF v THEN 1 ELSE 0
<1>1. serializeAppendEntriesReply([term |-> 3, success |-> v, conflictIndex |-> c, conflictTerm |-> d]) =
        <<3, n, c, d>>
  BY DEF serializeAppendEntriesReply
<1>2. n \in {0, 1} /\ (n = 1) = v
  OBVIOUS
<1> HIDE DEF n
<1>3. ASSUME NEW x, x = <<3, n, c, d>>
      PROVE  x \in Seq(Int) /\ Len(x) = 4 /\ x[1] = 3 /\ x[2] = n /\ x[3] = c /\ x[4] = d
  BY <1>2, <1>3
<1> QED
  BY <1>1, <1>2, <1>3, Zenon

\* The text of the AppendEntries request, whose last token is the entry.
LEMMA AppendText ==
    LET x == serializeAppendEntriesArgs(AppendArgs)
        e == [term |-> 3, index |-> 1, command |-> <<"GET", "k">>]
    IN  /\ x \in Seq(Int \cup {e}) /\ Len(x) = 7
        /\ x[1] = 3 /\ x[2] = 1 /\ x[3] = 0 /\ x[4] = 0 /\ x[5] = 0 /\ x[6] = 1 /\ x[7] = e
        /\ AppendArgs.entries = <<e>>
<1> DEFINE e == [term |-> 3, index |-> 1, command |-> <<"GET", "k">>]
           S == Int \cup {e}
           h == <<AppendArgs.term, AppendArgs.leaderId, AppendArgs.prevLogIndex, AppendArgs.prevLogTerm,
                  AppendArgs.leaderCommit, Len(AppendArgs.entries)>>
           one == <<e>>
           x == h \o one
<1>1. /\ AppendArgs.entries = <<e>> /\ AppendArgs.term = 3 /\ AppendArgs.leaderId = 1 /\ AppendArgs.prevLogIndex = 0
      /\ AppendArgs.prevLogTerm = 0 /\ AppendArgs.leaderCommit = 0
  BY DEF AppendArgs
<1> HIDE DEF e
<1>2. Len(one) = 1 /\ one[1] = e
  BY ShortSequencesRead
<1>3. h = <<3, 1, 0, 0, 0, 1>>
  BY <1>1, <1>2
<1>4. ASSUME NEW y, y = <<3, 1, 0, 0, 0, 1>>
      PROVE  y \in Seq(Int) /\ Len(y) = 6 /\ y[1] = 3 /\ y[2] = 1 /\ y[3] = 0 /\ y[4] = 0 /\ y[5] = 0 /\ y[6] = 1
  BY <1>4
<1>5. h \in Seq(Int) /\ Len(h) = 6 /\ h[1] = 3 /\ h[2] = 1 /\ h[3] = 0 /\ h[4] = 0 /\ h[5] = 0 /\ h[6] = 1
  BY <1>3, <1>4, Zenon
<1>6. serializeAppendEntriesArgs(AppendArgs) = x
  BY <1>1 DEF serializeAppendEntriesArgs
<1> HIDE DEF h
<1>7. h \in Seq(S) /\ one \in Seq(S)
  BY <1>5
<1> HIDE DEF S, one
<1>8. /\ x \in Seq(S) /\ Len(x) = Len(h) + Len(one)
      /\ \A i \in 1..Len(h) + Len(one) : x[i] = IF i <= Len(h) THEN h[i] ELSE one[i - Len(h)]
  BY <1>7, ConcatProperties
<1> HIDE DEF x
<1>9. Len(x) = 7 /\ \A i \in 1..7 : x[i] = IF i <= 6 THEN h[i] ELSE one[i - 6]
  BY <1>2, <1>5, <1>8
<1>10. x[1] = 3 /\ x[2] = 1 /\ x[3] = 0 /\ x[4] = 0 /\ x[5] = 0 /\ x[6] = 1 /\ x[7] = e
  BY <1>2, <1>5, <1>9
<1> QED
  BY <1>1, <1>6, <1>8, <1>9, <1>10 DEF e, S

\* What RaftNode gets is what was sent, but for the last number of a vote request.
GotRight(k, method, args, got) ==
    \/ got = args
    \/ /\ k = "simple" /\ method = "RequestVote"
       /\ got.lastLogTerm <= args.lastLogTerm
       /\ [got EXCEPT !.lastLogTerm = args.lastLogTerm] = args

\* The calls of the model.
IsCall(method, args) ==
    \/ method = "RequestVote" /\ args = VoteArgs
    \/ method = "AppendEntries" /\ args = AppendArgs

\* Whatever part of the text of a vote request one recv returns, the arguments
\* that are read of it are those sent, with the last number perhaps cut.
LEMMA VoteTextArrives ==
    ASSUME NEW t \in Received(serializeRequestVoteArgs(VoteArgs)),
           NEW got, got = deserializeRequestVoteArgs(t), got # Thrown
    PROVE  \/ got = VoteArgs
           \/ /\ got.lastLogTerm <= VoteArgs.lastLogTerm
              /\ [got EXCEPT !.lastLogTerm = VoteArgs.lastLogTerm] = VoteArgs
<1> DEFINE x == serializeRequestVoteArgs(VoteArgs)
<1>1. x \in Seq(Int) /\ Len(x) = 4 /\ x[1] = 3 /\ x[2] = 1 /\ x[3] = 2 /\ x[4] = 12
  BY VoteText
<1> HIDE DEF x
<1>2. \A k \in 1..Header(x) : x[k] \in Int
  BY <1>1 DEF Header
<1>3. /\ Len(t) \in 0..Len(x)
      /\ \A k \in 1..Len(t) - 1 : t[k] = x[k]
      /\ Len(t) > 0 => \/ t[Len(t)] = x[Len(t)]
                       \/ Len(t) <= 6 /\ x[Len(t)] >= 10 /\ t[Len(t)] = x[Len(t)] \div 10
  <2>1. t \in Received(x)
    BY DEF x
  <2> QED
    BY <1>1, <1>2, <2>1, Beginnings
<1>4. Len(t) >= 4
  BY <1>1, <1>3 DEF deserializeRequestVoteArgs
<1>5. t[1] = 3 /\ t[2] = 1 /\ t[3] = 2 /\ t[4] \in Int /\ t[4] <= 12
  <2>1. Len(t) = 4
    BY <1>1, <1>3, <1>4
  <2>2. 12 \div 10 = 1
    OBVIOUS
  <2> QED
    BY <1>1, <1>3, <2>1, <2>2
<1>6. got = [term |-> 3, candidateId |-> 1, lastLogIndex |-> 2, lastLogTerm |-> t[4]]
  BY <1>4, <1>5 DEF deserializeRequestVoteArgs
<1> QED
  BY <1>5, <1>6 DEF VoteArgs

\* An AppendEntries request of which a recv returned a part does not parse.
LEMMA AppendTextArrives ==
    ASSUME NEW t \in Received(serializeAppendEntriesArgs(AppendArgs)),
           NEW got, got = deserializeAppendEntriesArgs(t), got # Thrown
    PROVE  got = AppendArgs
<1> DEFINE x == serializeAppendEntriesArgs(AppendArgs)
           e == [term |-> 3, index |-> 1, command |-> <<"GET", "k">>]
           S == Int \cup {e}
<1>1. /\ x \in Seq(S) /\ Len(x) = 7
      /\ x[1] = 3 /\ x[2] = 1 /\ x[3] = 0 /\ x[4] = 0 /\ x[5] = 0 /\ x[6] = 1 /\ x[7] = e
      /\ AppendArgs.entries = <<e>>
  BY AppendText
<1> HIDE DEF x, e
<1>2. \A k \in 1..Header(x) : x[k] \in Int
  <2>1. \A k \in 1..6 : x[k] \in {0, 1, 3}
    BY <1>1
  <2> QED
    BY <1>1, <2>1 DEF Header
<1>3. /\ Len(t) \in 0..Len(x)
      /\ \A k \in 1..Len(t) - 1 : t[k] = x[k]
      /\ Len(t) > 0 => \/ t[Len(t)] = x[Len(t)]
                       \/ Len(t) <= 6 /\ x[Len(t)] >= 10 /\ t[Len(t)] = x[Len(t)] \div 10
      /\ Len(t) = Len(x) /\ (Len(t) > 0 => t[Len(t)] = x[Len(t)]) => t = x
  <2>1. t \in Received(x)
    BY DEF x
  <2> HIDE DEF S
  <2> QED
    BY <1>1, <1>2, <2>1, Beginnings
<1> HIDE DEF S
<1>4. Len(t) >= 6 /\ Len(t) >= 6 + t[6]
  BY <1>1, <1>3 DEF deserializeAppendEntriesArgs
<1>5. t[6] = 1
  BY <1>1, <1>3, <1>4
<1>6. Len(t) = 7 /\ t[7] = x[7]
  <2>1. Len(x) = 7 /\ Len(t) \in 0..Len(x)
    BY <1>1, <1>3
  <2>2. Len(t) = 7
    <3>1. 6 + t[6] = 7
      BY <1>5
    <3>2. Len(t) >= 7
      BY <1>4, <3>1
    <3> QED
      BY <2>1, <3>2
  <2>3. Len(t) > 0 /\ ~(Len(t) <= 6)
    BY <2>2
  <2> QED
    BY <1>3, <2>2, <2>3
<1>7. t = x
  BY <1>1, <1>3, <1>6
<1>8. SubSeq(x, 7, 7) = <<e>>
  <2>1. /\ SubSeq(x, 7, 7) \in Seq({e}) /\ Len(SubSeq(x, 7, 7)) = 1
        /\ SubSeq(x, 7, 7)[1] = e
    <3>1. \A i \in 7..7 : x[i] \in {e}
      BY <1>1
    <3> QED
      BY <1>1, <3>1, SubSeqProperties
  <2> QED
    BY <2>1, ShortSequences
<1>9. got = [term |-> 3, leaderId |-> 1, prevLogIndex |-> 0, prevLogTerm |-> 0,
             leaderCommit |-> 0, entries |-> <<e>>]
  BY <1>1, <1>4, <1>6, <1>7, <1>8 DEF deserializeAppendEntriesArgs
<1> QED
  BY <1>9 DEF AppendArgs, e

\* The arguments of the model lose nothing in the messages of gRPC.
LEMMA MessagesArrive ==
    /\ protoToRequestVoteArgs(ParseRequestVoteRequest(
         SerializeRequestVoteRequest(requestVoteArgsToProto(VoteArgs)))) = VoteArgs
    /\ protoToAppendEntriesArgs(ParseAppendEntriesRequest(
         SerializeAppendEntriesRequest(appendEntriesArgsToProto(AppendArgs)))) = AppendArgs
<1>1. \A v \in {0, 1, 2, 3, 12} : v \in Int32
  BY DEF Int32
<1>2. protoToRequestVoteArgs(ParseRequestVoteRequest(
        SerializeRequestVoteRequest(requestVoteArgsToProto(VoteArgs)))) = VoteArgs
  <2> DEFINE m == [term |-> 3, candidate_id |-> 1, last_log_index |-> 2, last_log_term |-> 12]
  <2>1. requestVoteArgsToProto(VoteArgs) = m
    <3>1. /\ VoteArgs.term = 3 /\ VoteArgs.candidateId = 1
          /\ VoteArgs.lastLogIndex = 2 /\ VoteArgs.lastLogTerm = 12
      BY DEF VoteArgs
    <3> DEFINE x == [RequestVoteRequest EXCEPT !.term = 3, !.candidate_id = 1,
                                               !.last_log_index = 2, !.last_log_term = 12]
    <3>2. requestVoteArgsToProto(VoteArgs) = x
      BY <3>1 DEF requestVoteArgsToProto
    <3>3. /\ DOMAIN x = DOMAIN m /\ x = [f \in DOMAIN x |-> x[f]]
          /\ x.term = 3 /\ x.candidate_id = 1 /\ x.last_log_index = 2 /\ x.last_log_term = 12
      BY DEF RequestVoteRequest
    <3> HIDE DEF x
    <3> QED
      BY <3>2, <3>3
  <2>2. ParseRequestVoteRequest(SerializeRequestVoteRequest(m)) = m
    BY <1>1, VotesArrive
  <2> QED
    BY <2>1, <2>2 DEF protoToRequestVoteArgs, VoteArgs
<1>3. protoToAppendEntriesArgs(ParseAppendEntriesRequest(
        SerializeAppendEntriesRequest(appendEntriesArgsToProto(AppendArgs)))) = AppendArgs
  <2> DEFINE s == <<"GET", "k">>
             e == [term |-> 3, index |-> 1, command |-> s]
             T == {e}
             entries == <<e>>
             m == [term |-> 3, leader_id |-> 1, prev_log_index |-> 0, prev_log_term |-> 0,
                   entries |-> entries, leader_commit |-> 0]
  <2>1. Utf8(s)
    <3>1. "GET" # NotUtf8 /\ "k" # NotUtf8
      BY Zenon DEF NotUtf8
    <3> HIDE DEF NotUtf8
    <3>2. DOMAIN s = 1..2 /\ s[1] = "GET" /\ s[2] = "k"
      OBVIOUS
    <3> HIDE DEF s
    <3> QED
      BY <3>1, <3>2 DEF Utf8
  <2>2. /\ AppendArgs.entries = entries /\ AppendArgs.term = 3 /\ AppendArgs.leaderId = 1
        /\ AppendArgs.prevLogIndex = 0 /\ AppendArgs.prevLogTerm = 0 /\ AppendArgs.leaderCommit = 0
        /\ AppendArgs = [term |-> 3, leaderId |-> 1, prevLogIndex |-> 0, prevLogTerm |-> 0,
                         entries |-> entries, leaderCommit |-> 0]
    BY DEF AppendArgs
  <2> HIDE DEF s
  <2>3. [LogEntryProto EXCEPT !.term = e.term, !.index = e.index, !.command = e.command] = e
    BY DEF LogEntryProto
  <2>4. e.term = 3 /\ e.index = 1 /\ e.command = s
    OBVIOUS
  <2>5. e = [term |-> 3, index |-> 1, command |-> s]
    OBVIOUS
  <2> HIDE DEF e
  <2>6. entries \in Seq(T) /\ Len(entries) = 1 /\ entries[1] = e /\ DOMAIN entries = {1}
    OBVIOUS
  <2>7. [i \in {1} |-> e] = entries
    OBVIOUS
  <2> HIDE DEF entries, T
  <2>8. appendEntriesArgsToProto(AppendArgs) = m
    <3> DEFINE f == [i \in DOMAIN AppendArgs.entries |->
                       [LogEntryProto EXCEPT !.term = AppendArgs.entries[i].term,
                                             !.index = AppendArgs.entries[i].index,
                                             !.command = AppendArgs.entries[i].command]]
    <3>1. f = entries
      <4>1. \A i \in {1} : [LogEntryProto EXCEPT !.term = entries[i].term, !.index = entries[i].index,
                                                 !.command = entries[i].command] = e
        BY <2>3, <2>6
      <4> QED
        BY <2>2, <2>6, <2>7, <4>1
    <3> DEFINE y == [AppendEntriesRequest EXCEPT !.term = 3, !.leader_id = 1, !.prev_log_index = 0,
                                                 !.prev_log_term = 0, !.leader_commit = 0, !.entries = f]
    <3>2. appendEntriesArgsToProto(AppendArgs) = y
      BY <2>2 DEF appendEntriesArgsToProto
    <3> HIDE DEF f
    <3>3. /\ DOMAIN y = DOMAIN m /\ y = [z \in DOMAIN y |-> y[z]]
          /\ y.term = 3 /\ y.leader_id = 1 /\ y.prev_log_index = 0 /\ y.prev_log_term = 0
          /\ y.leader_commit = 0 /\ y.entries = f
      BY DEF AppendEntriesRequest
    <3> HIDE DEF y
    <3> QED
      BY <3>1, <3>2, <3>3
  <2>9. AreEntries(entries)
    BY <1>1, <2>1, <2>5, <2>6 DEF AreEntries
  <2>10. ParseAppendEntriesRequest(SerializeAppendEntriesRequest(m)) = m
    <3>1. 0 \in Int32 /\ 1 \in Int32 /\ 3 \in Int32
      BY <1>1
    <3> HIDE DEF m
    <3>2. ParseAppendEntriesRequest(SerializeAppendEntriesRequest(
            [term |-> 3, leader_id |-> 1, prev_log_index |-> 0, prev_log_term |-> 0,
             entries |-> entries, leader_commit |-> 0])) =
          [term |-> 3, leader_id |-> 1, prev_log_index |-> 0, prev_log_term |-> 0,
           entries |-> entries, leader_commit |-> 0]
      BY <2>6, <2>9, <3>1, AppendRequestArrives
    <3> QED
      BY <3>2 DEF m
  <2> QED
    BY <2>2, <2>8, <2>10 DEF protoToAppendEntriesArgs
<1> QED
  BY <1>2, <1>3

\* What a handler of RaftNode gets, with either transport.
LEMMA RequestsArrive ==
    ASSUME kind \in {"grpc", "simple"}, NEW method, NEW args, IsCall(method, args),
           NEW t \in Arrived(EncodeRequest(method, args)), DecodeRequest(method, t) # Thrown
    PROVE  GotRight(kind, method, args, DecodeRequest(method, t))
<1>1. CASE kind = "grpc"
  <2>1. t = EncodeRequest(method, args)
    BY <1>1 DEF Arrived
  <2>2. DecodeRequest(method, t) = args
    BY <1>1, <2>1, MessagesArrive DEF IsCall, EncodeRequest, DecodeRequest
  <2> QED
    BY <2>2 DEF GotRight
<1>2. CASE kind = "simple"
  <2>1. t \in Received(EncodeRequest(method, args))
    BY <1>2 DEF Arrived
  <2>2. CASE method = "RequestVote" /\ args = VoteArgs
    BY <1>2, <2>1, <2>2, VoteTextArrives DEF EncodeRequest, DecodeRequest, GotRight
  <2>3. CASE method = "AppendEntries" /\ args = AppendArgs
    BY <1>2, <2>1, <2>3, AppendTextArrives DEF EncodeRequest, DecodeRequest, GotRight
  <2> QED
    BY <2>2, <2>3 DEF IsCall
<1> QED
  BY <1>1, <1>2

\* What the caller gets is what RaftNode replied, but for the last number of an
\* AppendEntries reply.
RepliedRight(k, method, reply, r) ==
    \/ reply = r
    \/ /\ k = "simple" /\ method = "AppendEntries"
       /\ reply = [r EXCEPT !.conflictTerm = @ \div 10]

\* The replies of the model, field by field.
LEMMA RepliesOfModel ==
    ASSUME NEW method \in {"RequestVote", "AppendEntries"}, NEW r \in Replies(method)
    PROVE  \/ /\ method = "RequestVote"
              /\ r = [term |-> 3, voteGranted |-> TRUE]
           \/ /\ method = "AppendEntries"
              /\ \E v \in BOOLEAN, c \in {-1, 4}, d \in {-1, 12} :
                   r = [term |-> 3, success |-> v, conflictIndex |-> c, conflictTerm |-> d]
  BY Zenon DEF Replies

\* What one recv returns of a text of numbers.
LEMMA ShortTextCut ==
    ASSUME NEW x \in Seq(Int), NEW n \in {2, 4}, Len(x) = n, NEW t \in Received(x)
    PROVE  /\ (Len(t) < n /\ t # x) \/ Len(t) = n
           /\ Len(t) = n => /\ \A k \in 1..n - 1 : t[k] = x[k]
                            /\ t[n] = x[n] \/ (x[n] >= 10 /\ t[n] = x[n] \div 10)
<1>1. \A k \in 1..Header(x) : x[k] \in Int
  BY DEF Header
<1>2. /\ Len(t) \in 0..Len(x)
      /\ \A k \in 1..Len(t) - 1 : t[k] = x[k]
      /\ Len(t) > 0 => \/ t[Len(t)] = x[Len(t)]
                       \/ Len(t) <= 6 /\ x[Len(t)] >= 10 /\ t[Len(t)] = x[Len(t)] \div 10
  BY <1>1, Beginnings, Zenon
<1>3. Len(t) = n => /\ \A k \in 1..n - 1 : t[k] = x[k]
                    /\ t[n] = x[n] \/ (x[n] >= 10 /\ t[n] = x[n] \div 10)
  BY <1>2
<1>4. (Len(t) < n /\ t # x) \/ Len(t) = n
  BY <1>2
<1> QED
  BY <1>3, <1>4

\* A vote reply of which a recv returned a part does not parse.
LEMMA VoteReplyTextArrives ==
    ASSUME NEW x \in Seq(Int), NEW n \in {0, 1},
           Len(x) = 2, x[1] = 3, x[2] = n, NEW t \in Received(x)
    PROVE  LET got == deserializeRequestVoteReply(t)
           IN  /\ got = Thrown \/ got = [term |-> 3, voteGranted |-> n = 1]
               /\ t = x => got = [term |-> 3, voteGranted |-> n = 1]
<1>1. /\ (Len(t) < 2 /\ t # x) \/ Len(t) = 2
      /\ Len(t) = 2 => t[1] = 3 /\ t[2] = n
  <2>1. /\ (Len(t) < 2 /\ t # x) \/ Len(t) = 2
        /\ Len(t) = 2 => /\ \A k \in 1..2 - 1 : t[k] = x[k]
                         /\ t[2] = x[2] \/ (x[2] >= 10 /\ t[2] = x[2] \div 10)
    BY ShortTextCut
  <2> QED
    BY <2>1
<1>2. CASE Len(t) < 2 /\ t # x
  <2>1. deserializeRequestVoteReply(t) = Thrown
    BY <1>2, Zenon DEF deserializeRequestVoteReply
  <2> QED
    BY <1>2, <2>1, Zenon
<1>3. CASE Len(t) = 2
  <2>1. ~(Len(t) < 2)
    BY <1>3
  <2>2. deserializeRequestVoteReply(t) = [term |-> t[1], voteGranted |-> t[2] = 1]
    BY <2>1, Zenon DEF deserializeRequestVoteReply
  <2> QED
    BY <1>1, <1>3, <2>2, Zenon
<1> QED
  BY <1>1, <1>2, <1>3, Zenon

\* Of an AppendEntries reply the last number may be cut.
LEMMA AppendReplyTextArrives ==
    ASSUME NEW c \in Int, NEW d \in Int, NEW x \in Seq(Int), NEW n \in Int,
           Len(x) = 4, x[1] = 3, x[2] = n, x[3] = c, x[4] = d, NEW t \in Received(x)
    PROVE  LET got == deserializeAppendEntriesReply(t)
               r(y) == [term |-> 3, success |-> n = 1, conflictIndex |-> c, conflictTerm |-> y]
           IN  /\ got = Thrown \/ got = r(d) \/ got = r(d \div 10)
               /\ t = x => got = r(d)
<1>1. /\ (Len(t) < 4 /\ t # x) \/ Len(t) = 4
      /\ Len(t) = 4 => t[1] = 3 /\ t[2] = n /\ t[3] = c /\ (t[4] = d \/ t[4] = d \div 10)
  <2>1. /\ (Len(t) < 4 /\ t # x) \/ Len(t) = 4
        /\ Len(t) = 4 => /\ \A k \in 1..4 - 1 : t[k] = x[k]
                         /\ t[4] = x[4] \/ (x[4] >= 10 /\ t[4] = x[4] \div 10)
    BY ShortTextCut
  <2> QED
    BY <2>1
<1>2. CASE Len(t) < 4 /\ t # x
  <2>1. deserializeAppendEntriesReply(t) = Thrown
    BY <1>2, Zenon DEF deserializeAppendEntriesReply
  <2> QED
    BY <1>2, <2>1, Zenon
<1>3. CASE Len(t) = 4
  <2>1. ~(Len(t) < 4)
    BY <1>3
  <2>2. deserializeAppendEntriesReply(t) =
          [term |-> t[1], success |-> t[2] = 1, conflictIndex |-> t[3], conflictTerm |-> t[4]]
    BY <2>1, Zenon DEF deserializeAppendEntriesReply
  <2>3. t = x => t[4] = d
    OBVIOUS
  <2> QED
    BY <1>1, <1>3, <2>2, <2>3, Zenon
<1> QED
  BY <1>1, <1>2, <1>3, Zenon

\* The replies of the model lose nothing in the messages of gRPC.
LEMMA ReplyMessagesArrive ==
    /\ \A v \in BOOLEAN :
         LET r == [term |-> 3, voteGranted |-> v]
         IN  protoToRequestVoteReply(ParseRequestVoteResponse(
               SerializeRequestVoteResponse(requestVoteReplyToProto(r)))) = r
    /\ \A v \in BOOLEAN, c \in {-1, 4}, d \in {-1, 12} :
         LET r == [term |-> 3, success |-> v, conflictIndex |-> c, conflictTerm |-> d]
         IN  protoToAppendEntriesReply(ParseAppendEntriesResponse(
               SerializeAppendEntriesResponse(appendEntriesReplyToProto(r)))) = r
<1>1. \A a \in {-1, 3, 4, 12} : a \in Int32
  BY DEF Int32
<1>2. ASSUME NEW v
      PROVE  LET r == [term |-> 3, voteGranted |-> v]
                 m == [term |-> 3, vote_granted |-> v]
             IN  requestVoteReplyToProto(r) = m /\ protoToRequestVoteReply(m) = r
  <2> DEFINE r == [term |-> 3, voteGranted |-> v]
             m == [term |-> 3, vote_granted |-> v]
             x == [RequestVoteResponse EXCEPT !.term = 3, !.vote_granted = v]
  <2>1. requestVoteReplyToProto(r) = x
    BY DEF requestVoteReplyToProto
  <2>2. /\ DOMAIN x = DOMAIN m /\ x = [f \in DOMAIN x |-> x[f]] /\ x.term = 3 /\ x.vote_granted = v
    BY DEF RequestVoteResponse
  <2>3. protoToRequestVoteReply(m) = r
    BY DEF protoToRequestVoteReply
  <2> HIDE DEF x
  <2> QED
    BY <2>1, <2>2, <2>3
<1>3. ASSUME NEW v, NEW c, NEW d
      PROVE  LET r == [term |-> 3, success |-> v, conflictIndex |-> c, conflictTerm |-> d]
                 m == [term |-> 3, success |-> v, conflict_index |-> c, conflict_term |-> d]
             IN  appendEntriesReplyToProto(r) = m /\ protoToAppendEntriesReply(m) = r
  <2> DEFINE r == [term |-> 3, success |-> v, conflictIndex |-> c, conflictTerm |-> d]
             m == [term |-> 3, success |-> v, conflict_index |-> c, conflict_term |-> d]
             x == [AppendEntriesResponse EXCEPT !.term = 3, !.success = v,
                                                !.conflict_index = c, !.conflict_term = d]
  <2>1. appendEntriesReplyToProto(r) = x
    BY DEF appendEntriesReplyToProto
  <2>2. /\ DOMAIN x = DOMAIN m /\ x = [f \in DOMAIN x |-> x[f]] /\ x.term = 3 /\ x.success = v
        /\ x.conflict_index = c /\ x.conflict_term = d
    BY DEF AppendEntriesResponse
  <2>3. protoToAppendEntriesReply(m) = r
    BY DEF protoToAppendEntriesReply
  <2> HIDE DEF x
  <2> QED
    BY <2>1, <2>2, <2>3
<1>4. \A v \in BOOLEAN :
        LET m == [term |-> 3, vote_granted |-> v]
        IN  ParseRequestVoteResponse(SerializeRequestVoteResponse(m)) = m
  BY <1>1, VotesArrive, Zenon
<1>5. \A v \in BOOLEAN, c \in {-1, 4}, d \in {-1, 12} :
        LET m == [term |-> 3, success |-> v, conflict_index |-> c, conflict_term |-> d]
        IN  ParseAppendEntriesResponse(SerializeAppendEntriesResponse(m)) = m
  <2> SUFFICES ASSUME NEW v \in BOOLEAN, NEW c \in {-1, 4}, NEW d \in {-1, 12}
               PROVE  LET m == [term |-> 3, success |-> v, conflict_index |-> c, conflict_term |-> d]
                      IN  ParseAppendEntriesResponse(SerializeAppendEntriesResponse(m)) = m
    OBVIOUS
  <2>1. 3 \in Int32 /\ c \in Int32 /\ d \in Int32
    BY <1>1
  <2> QED
    BY <2>1, AppendReplyArrives, Zenon
<1>6. \A v \in BOOLEAN :
         LET r == [term |-> 3, voteGranted |-> v]
         IN  protoToRequestVoteReply(ParseRequestVoteResponse(
               SerializeRequestVoteResponse(requestVoteReplyToProto(r)))) = r
  BY <1>2, <1>4, Zenon
<1>7. \A v \in BOOLEAN, c \in {-1, 4}, d \in {-1, 12} :
         LET r == [term |-> 3, success |-> v, conflictIndex |-> c, conflictTerm |-> d]
         IN  protoToAppendEntriesReply(ParseAppendEntriesResponse(
               SerializeAppendEntriesResponse(appendEntriesReplyToProto(r)))) = r
  <2> SUFFICES ASSUME NEW v \in BOOLEAN, NEW c \in {-1, 4}, NEW d \in {-1, 12}
               PROVE  LET r == [term |-> 3, success |-> v, conflictIndex |-> c, conflictTerm |-> d]
                      IN  protoToAppendEntriesReply(ParseAppendEntriesResponse(
                            SerializeAppendEntriesResponse(appendEntriesReplyToProto(r)))) = r
    OBVIOUS
  <2> DEFINE r == [term |-> 3, success |-> v, conflictIndex |-> c, conflictTerm |-> d]
             m == [term |-> 3, success |-> v, conflict_index |-> c, conflict_term |-> d]
  <2>1. appendEntriesReplyToProto(r) = m /\ protoToAppendEntriesReply(m) = r
    BY <1>3
  <2>2. ParseAppendEntriesResponse(SerializeAppendEntriesResponse(m)) = m
    BY <1>5
  <2> QED
    BY <2>1, <2>2, Zenon
<1> QED
  BY <1>6, <1>7, Zenon

\* What the caller gets, with either transport.
LEMMA RepliesArrive ==
    ASSUME kind \in {"grpc", "simple"}, NEW method \in {"RequestVote", "AppendEntries"},
           NEW r \in Replies(method)
    PROVE  /\ kind = "grpc" => DecodeReply(method, EncodeReply(method, r)) = r
           /\ \A t \in Received(EncodeReply(method, r)) : kind = "simple" =>
                /\ DecodeReply(method, t) = Thrown \/ RepliedRight(kind, method, DecodeReply(method, t), r)
                /\ t = EncodeReply(method, r) => DecodeReply(method, t) = r
<1>1. ASSUME NEW v \in BOOLEAN, NEW c \in {-1, 4}, NEW d \in {-1, 12}
      PROVE  LET rec(y) == [term |-> 3, success |-> v, conflictIndex |-> c, conflictTerm |-> y]
                 x == serializeAppendEntriesReply(rec(d))
             IN  \A t \in Received(x) :
                   LET got == deserializeAppendEntriesReply(t)
                   IN  /\ got = Thrown \/ got = rec(d) \/ got = rec(d \div 10)
                       /\ t = x => got = rec(d)
  <2> DEFINE rec(y) == [term |-> 3, success |-> v, conflictIndex |-> c, conflictTerm |-> y]
             x == serializeAppendEntriesReply(rec(d))
  <2>1. c \in Int /\ d \in Int
    OBVIOUS
  <2>2. PICK n \in {0, 1} :
          /\ x \in Seq(Int) /\ Len(x) = 4 /\ x[1] = 3 /\ x[2] = n /\ x[3] = c /\ x[4] = d
          /\ (n = 1) = v
    BY <2>1, AppendReplyText
  <2> HIDE DEF x
  <2>3. ASSUME NEW t \in Received(x)
        PROVE  LET got == deserializeAppendEntriesReply(t)
               IN  /\ got = Thrown \/ got = rec(d) \/ got = rec(d \div 10)
                   /\ t = x => got = rec(d)
    <3> DEFINE cut(y) == [term |-> 3, success |-> n = 1, conflictIndex |-> c, conflictTerm |-> y]
               got == deserializeAppendEntriesReply(t)
    <3>1. /\ got = Thrown \/ got = cut(d) \/ got = cut(d \div 10)
          /\ t = x => got = cut(d)
      <4>1. /\ n \in Int /\ x \in Seq(Int)
            /\ Len(x) = 4 /\ x[1] = 3 /\ x[2] = n /\ x[3] = c /\ x[4] = d
        BY <2>2
      <4> QED
        BY <2>1, <4>1, AppendReplyTextArrives
    <3>2. \A y : cut(y) = rec(y)
      BY <2>2, Zenon
    <3> HIDE DEF cut, rec
    <3> QED
      BY <3>1, <3>2, Zenon
  <2> QED
    BY <2>3, Zenon DEF x
<1>2. CASE kind = "grpc"
  <2>1. CASE method = "RequestVote" /\ r = [term |-> 3, voteGranted |-> TRUE]
    BY <1>2, <2>1, ReplyMessagesArrive, Zenon DEF EncodeReply, DecodeReply
  <2>2. ASSUME method = "AppendEntries", NEW v \in BOOLEAN, NEW c \in {-1, 4}, NEW d \in {-1, 12},
               r = [term |-> 3, success |-> v, conflictIndex |-> c, conflictTerm |-> d]
        PROVE  DecodeReply(method, EncodeReply(method, r)) = r
    BY <1>2, <2>2, ReplyMessagesArrive, Zenon DEF EncodeReply, DecodeReply
  <2>3. DecodeReply(method, EncodeReply(method, r)) = r
    <3>1. CASE method = "RequestVote"
      <4>1. r = [term |-> 3, voteGranted |-> TRUE]
        BY <3>1, Zenon DEF Replies
      <4> QED
        BY <1>2, <2>1, <3>1, <4>1, Zenon
    <3>2. CASE method = "AppendEntries"
      <4>1. PICK v \in BOOLEAN, c \in {-1, 4}, d \in {-1, 12} :
              r = [term |-> 3, success |-> v, conflictIndex |-> c, conflictTerm |-> d]
        BY <3>2, RepliesOfModel
      <4> QED
        BY <2>2, <3>2, <4>1, Zenon
    <3> QED
      BY <3>1, <3>2
  <2> QED
    BY <1>2, <2>3
<1>3. CASE kind = "simple"
  <2> SUFFICES ASSUME NEW t \in Received(EncodeReply(method, r))
               PROVE  /\ DecodeReply(method, t) = Thrown \/ RepliedRight(kind, method, DecodeReply(method, t), r)
                      /\ t = EncodeReply(method, r) => DecodeReply(method, t) = r
    BY <1>3
  <2>1. CASE method = "RequestVote" /\ r = [term |-> 3, voteGranted |-> TRUE]
    <3>1. EncodeReply(method, r) = serializeRequestVoteReply(r)
      BY <1>3, <2>1, Zenon DEF EncodeReply
    <3>2. DecodeReply(method, t) = deserializeRequestVoteReply(t)
      BY <1>3, <2>1, Zenon DEF DecodeReply
    <3> DEFINE x == serializeRequestVoteReply([term |-> 3, voteGranted |-> TRUE])
    <3>3. PICK n \in {0, 1} :
            x \in Seq(Int) /\ Len(x) = 2 /\ x[1] = 3 /\ x[2] = n /\ (n = 1) = TRUE
      BY VoteReplyText, Zenon
    <3>4. t \in Received(x)
      BY <2>1, <3>1
    <3> HIDE DEF x
    <3>5. LET got == deserializeRequestVoteReply(t)
          IN  /\ got = Thrown \/ got = [term |-> 3, voteGranted |-> n = 1]
              /\ t = x => got = [term |-> 3, voteGranted |-> n = 1]
      BY <3>3, <3>4, VoteReplyTextArrives
    <3>6. [term |-> 3, voteGranted |-> n = 1] = [term |-> 3, voteGranted |-> TRUE]
      BY <3>3, Zenon
    <3> QED
      BY <2>1, <3>1, <3>2, <3>5, <3>6, Zenon DEF RepliedRight, x
  <2>2. ASSUME method = "AppendEntries", NEW v \in BOOLEAN, NEW c \in {-1, 4}, NEW d \in {-1, 12},
               r = [term |-> 3, success |-> v, conflictIndex |-> c, conflictTerm |-> d]
        PROVE  /\ DecodeReply(method, t) = Thrown \/ RepliedRight(kind, method, DecodeReply(method, t), r)
               /\ t = EncodeReply(method, r) => DecodeReply(method, t) = r
    <3>1. EncodeReply(method, r) = serializeAppendEntriesReply(r)
      BY <1>3, <2>2, Zenon DEF EncodeReply
    <3>2. DecodeReply(method, t) = deserializeAppendEntriesReply(t)
      BY <1>3, <2>2, Zenon DEF DecodeReply
    <3> DEFINE rec(y) == [term |-> 3, success |-> v, conflictIndex |-> c, conflictTerm |-> y]
               x == serializeAppendEntriesReply(rec(d))
    <3>3. t \in Received(x)
      BY <2>2, <3>1, Zenon
    <3> HIDE DEF x
    <3>4. LET got == deserializeAppendEntriesReply(t)
          IN  /\ got = Thrown \/ got = rec(d) \/ got = rec(d \div 10)
              /\ t = x => got = rec(d)
      BY <1>1, <3>3, Zenon DEF x
    <3>5. rec(d \div 10) = [r EXCEPT !.conflictTerm = @ \div 10]
      <4>1. \A y : [rec(d) EXCEPT !.conflictTerm = y] = rec(y)
        OBVIOUS
      <4>2. rec(d).conflictTerm = d
        OBVIOUS
      <4> QED
        BY <2>2, <4>1, <4>2
    <3> QED
      BY <1>3, <2>2, <3>1, <3>2, <3>4, <3>5, Zenon DEF RepliedRight, x
  <2> QED
    BY <2>1, <2>2, RepliesOfModel, Zenon
<1> QED
  BY <1>2, <1>3, Zenon

-----------------------------------------------------------------------------
(* The inductive invariant *)

\* A sequence, of whatever elements.
IsSequence(x) == x \in Seq({x[i] : i \in DOMAIN x})

\* What the current call sends, and what it may be answered.
Sent == EncodeRequest(call.method, call.args)
\* What RaftNode may answer, as it is sent.
Replied == {EncodeReply(call.method, r) : r \in Replies(call.method)}
\* The exchange belongs to the call c, which has begun.
Mine(e, c) == c.id > 0 /\ e.call = c.id

\* An exchange of the kind k, beside the call c: an exchange without a request has
\* had no handler; one that is not done has no result; what the handler of the
\* call got, what it answered and why it failed is right.
ExchangeFields == {"call", "method", "request", "phase", "got", "status", "reply"}
ExchangeOK(e, k, c, request, replies) ==
    /\ DOMAIN e = ExchangeFields /\ e.call \in -1..c.id
    /\ e.phase \in {"queued", "accepted", "done", "reset"} /\ e.status \in {"none", "ok", "error"}
    /\ e.call = None => e.got = Thrown /\ e.status = "none" /\ k = "simple"
    /\ e.phase # "done" => e.got = Thrown /\ e.status = "none"
    /\ Mine(e, c) =>
         /\ e.phase \in {"queued", "accepted"} => e.method = c.method /\ e.request = request
         /\ e.got # Thrown => GotRight(k, c.method, c.args, e.got)
         /\ e.status = "ok" => e.reply \in replies
         /\ e.status = "error" => c.fault

\* That of all of them.
Exchanges ==
    /\ IsSequence(exchange)
    /\ \A i \in DOMAIN exchange : ExchangeOK(exchange[i], kind, call, Sent, Replied)

\* The sockets of the client: its own, which no handler has left without a request,
\* and at most one for each call that failed.
ClientSide ==
    /\ client \in [connected : BOOLEAN, current : 0..Len(exchange), open : SUBSET DOMAIN exchange, rest : BOOLEAN]
    /\ kind = "grpc" => client.open = {}
    /\ kind = "simple" /\ client.connected => client.current \in client.open
    /\ \A i \in client.open : exchange[i].call = None => exchange[i].phase # "done"
    /\ Cardinality(client.open \ (IF client.connected THEN {client.current} ELSE {})) <= call.failed

\* The types of the call.
CallFields == {"id", "pc", "method", "args", "attempt", "result", "reply", "fault", "failed"}
CallTypes ==
    /\ DOMAIN call = CallFields
    /\ call.id \in 0..MaxCalls /\ call.pc \in {"idle", "try", "wait"} /\ IsCall(call.method, call.args)
    /\ call.attempt \in 0..RETRIES /\ call.result \in BOOLEAN /\ call.fault \in BOOLEAN /\ call.failed \in Nat
    /\ call.pc # "idle" => call.id > 0

\* A call that tries again has no connection; while nothing went wrong it has one
\* exchange at most; one that waits has its own exchange.
CallSide ==
    /\ call.pc = "try" /\ call.attempt > 0 /\ kind = "simple" => ~client.connected
    /\ kind = "grpc" \/ ~call.fault =>
         /\ call.pc = "try" => \A i \in DOMAIN exchange : ~Mine(exchange[i], call)
         /\ \A i, j \in DOMAIN exchange : Mine(exchange[i], call) /\ Mine(exchange[j], call) => i = j
    /\ call.pc = "wait" =>
         /\ client.current \in DOMAIN exchange /\ exchange[client.current].call = call.id
         /\ kind = "grpc" /\ exchange[client.current].phase = "done" => exchange[client.current].status # "none"

\* TrueMeansAnswered, by the position of the answer.
Answered ==
    Returned /\ call.result =>
      \E i \in DOMAIN exchange : \E r \in Replies(call.method) :
        /\ exchange[i].call = call.id /\ exchange[i].status = "ok"
        /\ exchange[i].reply = EncodeReply(call.method, r)
        /\ RepliedRight(kind, call.method, call.reply, r)

\* The types of the two ends.
Sides ==
    /\ kind \in {"grpc", "simple"} /\ kind \in Kind
    /\ server \in [state : {"new", "stopped", "running", "stopping"}, raft_node : BOOLEAN]

\* The inductive invariant.
TransportInductive ==
    /\ Sides /\ Exchanges /\ ClientSide /\ CallTypes /\ CallSide /\ Answered /\ HealthyCallsSucceed
    /\ StoppedServerIsQuiet
-----------------------------------------------------------------------------
(* The sequence of the exchanges *)

\* Any function on an initial segment of the naturals is a sequence.
LEMMA SequenceOfItsElements ==
    ASSUME NEW n \in Nat, NEW x, x = [i \in 1..n |-> x[i]]
    PROVE  IsSequence(x) /\ Len(x) = n /\ DOMAIN x = 1..n
<1>1. DOMAIN x = 1..n
  OBVIOUS
<1>2. \A i \in 1..n : x[i] \in {x[j] : j \in 1..n}
  OBVIOUS
<1> QED
  BY <1>1, <1>2 DEF IsSequence

\* An exchange that is added.
LEMMA ExchangeAdded ==
    ASSUME NEW x, IsSequence(x), NEW e, NEW y, y = Append(x, e)
    PROVE  /\ IsSequence(y)
           /\ Len(y) = Len(x) + 1 /\ Len(x) \in Nat /\ DOMAIN y = 1..Len(x) + 1 /\ DOMAIN x = 1..Len(x)
           /\ y[Len(x) + 1] = e
           /\ \A i \in DOMAIN x : i \in DOMAIN y /\ y[i] = x[i]
           /\ \A i \in DOMAIN y : i \in DOMAIN x \/ i = Len(x) + 1
<1> DEFINE S == {x[i] : i \in DOMAIN x} \cup {e}
<1>1. x \in Seq(S) /\ Len(x) \in Nat /\ DOMAIN x = 1..Len(x)
  BY DEF IsSequence
<1>2. y \in Seq(S) /\ Len(y) = Len(x) + 1 /\ \A i \in 1..Len(x) : y[i] = x[i]
  BY <1>1, AppendProperties
<1>3. y[Len(x) + 1] = e
  BY <1>1, AppendProperties
<1>4. DOMAIN y = 1..Len(x) + 1 /\ y = [i \in 1..Len(x) + 1 |-> y[i]]
  <2> HIDE DEF S
  <2>1. Len(y) = Len(x) + 1 /\ y \in Seq(S)
    BY <1>2
  <2>2. \A z \in Seq(S) : DOMAIN z = 1..Len(z) /\ z = [i \in DOMAIN z |-> z[i]]
    OBVIOUS
  <2> QED
    BY <2>1, <2>2
<1>5. IsSequence(y)
  BY <1>1, <1>4, SequenceOfItsElements
<1>6. \A i \in DOMAIN y : i \in DOMAIN x \/ i = Len(x) + 1
  BY <1>1, <1>4
<1>7. \A i \in DOMAIN x : i \in DOMAIN y /\ y[i] = x[i]
  BY <1>1, <1>2, <1>4
<1> HIDE DEF S
<1> QED
  BY <1>1, <1>2, <1>3, <1>4, <1>5, <1>6, <1>7

\* Exchanges of which some are replaced.
LEMMA ExchangesReplaced ==
    ASSUME NEW x, IsSequence(x), NEW y, DOMAIN y = DOMAIN x,
           y = [i \in DOMAIN y |-> y[i]]
    PROVE  IsSequence(y) /\ Len(y) = Len(x) /\ DOMAIN x = 1..Len(x)
<1>1. Len(x) \in Nat /\ DOMAIN x = 1..Len(x)
  BY DEF IsSequence
<1>2. y = [i \in 1..Len(x) |-> y[i]]
  BY <1>1
<1> QED
  BY <1>1, <1>2, SequenceOfItsElements
-----------------------------------------------------------------------------
(* What the steps keep *)

\* A call that goes on.
CallGoesOn ==
    /\ kind' = kind /\ call'.id = call.id /\ call'.method = call.method /\ call'.args = call.args
    /\ call.fault => call'.fault

\* An exchange stays right when the call of the client goes on.
LEMMA ExchangeStaysRight ==
    ASSUME NEW e, NEW k, NEW c, NEW d, NEW q, NEW p, ExchangeOK(e, k, c, q, p),
           d.id = c.id, d.method = c.method, d.args = c.args, c.fault => d.fault
    PROVE  ExchangeOK(e, k, d, q, p)
  BY DEF ExchangeOK, Mine

\* What was sent and what may be replied do not change while the call goes on.
LEMMA SentStays ==
    ASSUME CallGoesOn
    PROVE  Sent' = Sent /\ Replied' = Replied
  BY Zenon DEF CallGoesOn, Sent, Replied, EncodeRequest, EncodeReply

\* So every step has to be looked at for the exchanges it changes only.
LEMMA ExchangesStayRight ==
    ASSUME Exchanges, CallGoesOn,
           IsSequence(exchange'),
           \A i \in DOMAIN exchange' : \/ i \in DOMAIN exchange /\ exchange'[i] = exchange[i]
                                       \/ ExchangeOK(exchange'[i], kind, call', Sent, Replied)
    PROVE  Exchanges'
<1>1. Sent' = Sent /\ Replied' = Replied /\ kind' = kind
  BY SentStays DEF CallGoesOn
<1>2. ASSUME NEW i \in DOMAIN exchange'
      PROVE  ExchangeOK(exchange'[i], kind, call', Sent, Replied)
  <2>1. CASE i \in DOMAIN exchange /\ exchange'[i] = exchange[i]
    <3>1. ExchangeOK(exchange[i], kind, call, Sent, Replied)
      BY <2>1, Zenon DEF Exchanges
    <3> QED
      BY <2>1, <3>1, ExchangeStaysRight, Zenon DEF CallGoesOn
  <2> QED
    BY <2>1
<1>3. \A i \in DOMAIN exchange' : ExchangeOK(exchange[i], kind, call, Sent, Replied)'
  BY <1>1, <1>2, Zenon
<1> QED
  BY <1>3, Zenon DEF Exchanges

\* The steps that touch neither the call nor, but for the way to the handler,
\* its exchanges.
CallRests ==
    /\ kind' = kind /\ call' = call
    /\ client' = client \/ call.pc = "idle"
    /\ \A i \in DOMAIN exchange :
         /\ i \in DOMAIN exchange' /\ exchange'[i].call = exchange[i].call
         /\ exchange[i].phase = "done" => exchange'[i] = exchange[i]
         /\ exchange'[i].phase = "done" => exchange[i].phase = "done"
    /\ \A i \in DOMAIN exchange' : i \in DOMAIN exchange \/ exchange'[i].call = None

\* Such a call goes on.
LEMMA CallRestsGoesOn ==
    ASSUME CallRests
    PROVE  CallGoesOn
  BY Zenon DEF CallRests, CallGoesOn

\* They keep what the call needs.
LEMMA CallStays ==
    ASSUME TransportInductive, CallRests
    PROVE  CallTypes' /\ CallSide' /\ Answered' /\ HealthyCallsSucceed'
<1>1. call' = call /\ kind' = kind
  BY DEF CallRests
<1>2. CallTypes'
  BY <1>1, Zenon DEF TransportInductive, CallTypes, IsCall
<1>3. HealthyCallsSucceed'
  BY <1>1, Zenon DEF TransportInductive, HealthyCallsSucceed, Returned
<1>4. ASSUME NEW i \in DOMAIN exchange', Mine(exchange'[i], call)
      PROVE  i \in DOMAIN exchange /\ Mine(exchange[i], call)
  BY <1>4 DEF CallRests, Mine, None
<1>5. CallSide'
  <2>1. call.pc = "try" /\ call.attempt > 0 /\ kind = "simple" => ~client'.connected
    BY DEF TransportInductive, CallSide, CallRests
  <2>2. kind = "grpc" \/ ~call.fault =>
          /\ call.pc = "try" => \A i \in DOMAIN exchange' : ~Mine(exchange'[i], call)
          /\ \A i, j \in DOMAIN exchange' : Mine(exchange'[i], call) /\ Mine(exchange'[j], call) => i = j
    BY <1>4, Zenon DEF TransportInductive, CallSide
  <2>3. call.pc = "wait" =>
          /\ client'.current \in DOMAIN exchange' /\ exchange'[client'.current].call = call.id
          /\ kind = "grpc" /\ exchange'[client'.current].phase = "done" => exchange'[client'.current].status # "none"
    <3>1. SUFFICES ASSUME call.pc = "wait"
                   PROVE  /\ client'.current \in DOMAIN exchange' /\ exchange'[client'.current].call = call.id
                          /\ kind = "grpc" /\ exchange'[client'.current].phase = "done"
                             => exchange'[client'.current].status # "none"
      OBVIOUS
    <3>2. client' = client
      BY <3>1 DEF CallRests
    <3>3. /\ client.current \in DOMAIN exchange /\ exchange[client.current].call = call.id
          /\ kind = "grpc" /\ exchange[client.current].phase = "done" => exchange[client.current].status # "none"
      BY <3>1, Zenon DEF TransportInductive, CallSide
    <3> QED
      BY <3>2, <3>3, Zenon DEF CallRests
  <2> QED
    BY <1>1, <2>1, <2>2, <2>3, Zenon DEF CallSide
<1>6. Answered'
  <2>1. SUFFICES ASSUME call.id > 0, call.pc = "idle", call.result
                 PROVE  \E i \in DOMAIN exchange' : \E r \in Replies(call.method) :
                          /\ exchange'[i].call = call.id /\ exchange'[i].status = "ok"
                          /\ exchange'[i].reply = EncodeReply(call.method, r)
                          /\ RepliedRight(kind, call.method, call.reply, r)
    BY <1>1, Zenon DEF Answered, Returned, EncodeReply
  <2>2. PICK i \in DOMAIN exchange : \E r \in Replies(call.method) :
          /\ exchange[i].call = call.id /\ exchange[i].status = "ok"
          /\ exchange[i].reply = EncodeReply(call.method, r)
          /\ RepliedRight(kind, call.method, call.reply, r)
    BY <2>1, Zenon DEF TransportInductive, Answered, Returned
  <2>3. exchange[i].phase = "done"
    <3>1. ExchangeOK(exchange[i], kind, call, Sent, Replied)
      BY Zenon DEF TransportInductive, Exchanges
    <3>2. "ok" # "none"
      OBVIOUS
    <3> QED
      BY <2>2, <3>1, <3>2, Zenon DEF ExchangeOK
  <2>4. i \in DOMAIN exchange' /\ exchange'[i] = exchange[i]
    BY <2>3 DEF CallRests
  <2> QED
    BY <2>2, <2>4, Zenon
<1> QED
  BY <1>2, <1>3, <1>5, <1>6

\* A step that leaves the client alone, and the number of failed calls.
LEMMA ClientStays ==
    ASSUME ClientSide, kind' = kind, client' = client, call'.failed = call.failed,
           DOMAIN exchange' = DOMAIN exchange, Len(exchange') = Len(exchange),
           \A i \in client.open : exchange'[i].call = None =>
             exchange[i].call = None /\ (exchange'[i].phase = "done" => exchange[i].phase = "done")
    PROVE  ClientSide'
<1>1. \A i \in client.open : exchange'[i].call = None => exchange'[i].phase # "done"
  BY DEF ClientSide
<1> QED
  BY <1>1, Zenon DEF ClientSide

\* What the proofs of the steps need of the sequence of the exchanges.
LEMMA ExchangesAreSequence ==
    ASSUME Exchanges
    PROVE  /\ Len(exchange) \in Nat /\ DOMAIN exchange = 1..Len(exchange)
           /\ IsFiniteSet(DOMAIN exchange)
           /\ exchange = [i \in DOMAIN exchange |-> exchange[i]]
<1>1. IsSequence(exchange)
  BY Zenon DEF Exchanges
<1> DEFINE S == {exchange[i] : i \in DOMAIN exchange}
<1> HIDE DEF S
<1>2. exchange \in Seq(S)
  BY <1>1 DEF S, IsSequence
<1>3. /\ Len(exchange) \in Nat /\ DOMAIN exchange = 1..Len(exchange)
      /\ exchange = [i \in DOMAIN exchange |-> exchange[i]]
  BY <1>2
<1>4. IsFiniteSet(1..Len(exchange))
  <2> DEFINE n == Len(exchange)
  <2>1. n \in Int /\ 1 \in Int
    BY <1>3
  <2> HIDE DEF n
  <2>2. IsFiniteSet(1..n)
    BY <2>1, FS_Interval
  <2> QED
    BY <2>2 DEF n
<1> QED
  BY <1>3, <1>4

\* A step that changes neither call nor exchange.
LEMMA OnlyClientChanges ==
    ASSUME TransportInductive, kind' = kind, exchange' = exchange, call' = call, client' = client \/ call.pc = "idle"
    PROVE  Exchanges' /\ CallTypes' /\ CallSide' /\ Answered' /\ HealthyCallsSucceed'
<1>1. CallRests
  BY DEF CallRests
<1>2. Exchanges'
  <2>1. IsSequence(exchange) /\ Exchanges
    BY Zenon DEF TransportInductive, Exchanges
  <2> QED
    BY <1>1, <2>1, CallRestsGoesOn, ExchangesStayRight, Zenon
<1> QED
  BY <1>1, <1>2, CallStays

\* Sockets are closed or kept; none is opened.
LEMMA SocketsClosed ==
    ASSUME TransportInductive, NEW s \in SUBSET client.open
    PROVE  /\ IsFiniteSet(client.open) /\ IsFiniteSet(s)
           /\ Cardinality(s) \in Nat /\ Cardinality(s) <= Cardinality(client.open)
<1>1. client.open \subseteq DOMAIN exchange
  BY DEF TransportInductive, ClientSide
<1>2. IsFiniteSet(DOMAIN exchange)
  BY ExchangesAreSequence, Zenon DEF TransportInductive
<1>3. IsFiniteSet(client.open)
  BY <1>1, <1>2, FS_Subset
<1> QED
  BY <1>3, FS_Subset, FS_CardinalityType

\* What remains of the sockets when the client has given up its connection.
LEMMA Disconnected ==
    ASSUME TransportInductive, NEW c, c = Disconnect(client)
    PROVE  /\ c.connected = FALSE /\ c.current = None /\ c.rest = FALSE
           /\ c.open = client.open \ {client.current} /\ Cardinality(c.open) <= call.failed
           /\ DOMAIN c = {"connected", "current", "rest", "open"}
<1>1. /\ c.connected = FALSE /\ c.current = None /\ c.rest = FALSE
      /\ c.open = client.open \ {client.current}
      /\ DOMAIN c = {"connected", "current", "rest", "open"}
  BY DEF Disconnect
<1>2. Cardinality(client.open \ (IF client.connected THEN {client.current} ELSE {})) <= call.failed
  BY Zenon DEF TransportInductive, ClientSide
<1>3. Cardinality(c.open) <= call.failed
  <2>1. CASE client.connected
    BY <1>1, <1>2, <2>1
  <2>2. CASE ~client.connected
    <3>1. Cardinality(client.open) <= call.failed
      <4>1. client.open \ (IF client.connected THEN {client.current} ELSE {}) = client.open
        BY <2>2
      <4> QED
        BY <1>2, <4>1
    <3>2. c.open \in SUBSET client.open
      BY <1>1
    <3>3. Cardinality(c.open) \in Nat /\ Cardinality(client.open) \in Nat
          /\ Cardinality(c.open) <= Cardinality(client.open)
      BY <3>2, SocketsClosed, FS_CardinalityType
    <3>4. call.failed \in Nat
      BY DEF TransportInductive, CallTypes
    <3> QED
      BY <3>1, <3>3, <3>4
  <2> QED
    BY <2>1, <2>2
<1> QED
  BY <1>1, <1>3

\* disconnect of the application.
LEMMA StepDisconnect ==
    ASSUME TransportInductive, disconnect
    PROVE  TransportInductive'
<1>1. /\ call.pc = "idle" /\ client' = Disconnect(client)
      /\ kind' = kind /\ server' = server /\ exchange' = exchange /\ call' = call
  BY DEF disconnect
<1>2. /\ client'.connected = FALSE /\ client'.current = None /\ client'.rest = FALSE
      /\ client'.open = client.open \ {client.current} /\ Cardinality(client'.open) <= call.failed
  BY <1>1, Disconnected
<1>3. Exchanges' /\ CallTypes' /\ CallSide' /\ Answered' /\ HealthyCallsSucceed'
  BY <1>1, OnlyClientChanges
<1>4. ClientSide'
  <2>1. client' \in [connected : BOOLEAN, current : 0..Len(exchange), open : SUBSET DOMAIN exchange, rest : BOOLEAN]
    <3>1. Len(exchange) \in Nat
      BY ExchangesAreSequence, Zenon DEF TransportInductive
    <3>2. client.open \subseteq DOMAIN exchange
      BY DEF TransportInductive, ClientSide
    <3> QED
      BY <1>1, <3>1, <3>2 DEF Disconnect, None
  <2>2. client'.open \ (IF client'.connected THEN {client'.current} ELSE {}) = client'.open
    BY <1>2
  <2>3. \A i \in client'.open : exchange[i].call = None => exchange[i].phase # "done"
    BY <1>2 DEF TransportInductive, ClientSide
  <2>4. kind = "grpc" => client'.open = {}
    BY <1>2 DEF TransportInductive, ClientSide
  <2> QED
    BY <1>1, <1>2, <2>1, <2>2, <2>3, <2>4, Zenon DEF ClientSide
<1>5. Sides' /\ StoppedServerIsQuiet'
  BY <1>1, Zenon DEF TransportInductive, Sides, StoppedServerIsQuiet
<1> QED
  BY <1>3, <1>4, <1>5 DEF TransportInductive

\* connect makes a stub.
LEMMA StepGrpcConnect ==
    ASSUME TransportInductive, GrpcConnect
    PROVE  TransportInductive'
<1>1. /\ call.pc = "idle" /\ kind = "grpc" /\ client' = [client EXCEPT !.connected = TRUE]
      /\ kind' = kind /\ server' = server /\ exchange' = exchange /\ call' = call
  BY DEF GrpcConnect
<1>2. Exchanges' /\ CallTypes' /\ CallSide' /\ Answered' /\ HealthyCallsSucceed'
  BY <1>1, OnlyClientChanges
<1>3. ClientSide'
  <2>1. client \in [connected : BOOLEAN, current : 0..Len(exchange), open : SUBSET DOMAIN exchange, rest : BOOLEAN]
        /\ client.open = {}
    BY <1>1, Zenon DEF TransportInductive, ClientSide
  <2>2. client' \in [connected : BOOLEAN, current : 0..Len(exchange), open : SUBSET DOMAIN exchange, rest : BOOLEAN]
        /\ client'.open = {}
    BY <1>1, <2>1
  <2>3. Cardinality(client'.open \ (IF client'.connected THEN {client'.current} ELSE {})) <= call.failed
    <3>1. call.failed \in Nat
      BY DEF TransportInductive, CallTypes
    <3>2. client'.open \ (IF client'.connected THEN {client'.current} ELSE {}) = {}
      BY <2>2
    <3> QED
      BY <3>1, <3>2, FS_EmptySet
  <2>4. kind # "simple" /\ \A i \in client'.open : FALSE
    BY <1>1, <2>2
  <2> QED
    BY <1>1, <2>2, <2>3, <2>4, Zenon DEF ClientSide
<1>4. Sides' /\ StoppedServerIsQuiet'
  BY <1>1, Zenon DEF TransportInductive, Sides, StoppedServerIsQuiet
<1> QED
  BY <1>2, <1>3, <1>4 DEF TransportInductive

\* The server starts, or gets its RaftNode.
LEMMA StepServer ==
    ASSUME TransportInductive, start \/ setRaftNode
    PROVE  TransportInductive'
<1>1. kind' = kind /\ client' = client /\ exchange' = exchange /\ call' = call
  BY DEF start, setRaftNode
<1>2. Exchanges' /\ CallTypes' /\ CallSide' /\ Answered' /\ HealthyCallsSucceed'
  BY <1>1, OnlyClientChanges
<1>3. ClientSide'
  BY <1>1, Zenon DEF TransportInductive, ClientSide
<1>4. Sides' /\ (server'.state = "stopped" => server.state = "stopped")
  BY <1>1 DEF TransportInductive, Sides, start, setRaftNode
<1>5. StoppedServerIsQuiet'
  BY <1>1, <1>4, Zenon DEF TransportInductive, StoppedServerIsQuiet
<1> QED
  BY <1>2, <1>3, <1>4, <1>5 DEF TransportInductive

\* An exchange that waits is accepted or refused.
LEMMA ExchangeMoves ==
    ASSUME NEW e, NEW k, NEW c, NEW q, NEW p, ExchangeOK(e, k, c, q, p), e.phase = "queued",
           NEW phase \in {"accepted", "reset"}, NEW d, d = [e EXCEPT !.phase = phase]
    PROVE  ExchangeOK(d, k, c, q, p) /\ d.call = e.call /\ d.phase = phase
<1>1. DOMAIN e = ExchangeFields
  BY Zenon DEF ExchangeOK
<1>2. /\ DOMAIN d = ExchangeFields /\ d.phase = phase /\ d.call = e.call /\ d.status = e.status
      /\ d.got = e.got /\ d.method = e.method /\ d.request = e.request /\ d.reply = e.reply
  BY <1>1 DEF ExchangeFields
<1>3. phase # "done" /\ phase \in {"queued", "accepted", "done", "reset"} /\ "queued" # "done"
  OBVIOUS
<1>4. /\ e.got = Thrown /\ e.status = "none" /\ "none" # "ok" /\ "none" # "error"
      /\ e.call \in -1..c.id /\ "none" \in {"none", "ok", "error"}
      /\ e.call = None => k = "simple"
      /\ Mine(e, c) => e.method = c.method /\ e.request = q
  BY <1>3, Zenon DEF ExchangeOK
<1>5. Mine(d, c) => Mine(e, c)
  BY <1>2, Zenon DEF Mine
<1> QED
  BY <1>2, <1>3, <1>4, <1>5, Zenon DEF ExchangeOK

\* A step that does only that.
LEMMA ExchangesMove ==
    ASSUME TransportInductive, kind' = kind, client' = client, call' = call, DOMAIN exchange' = DOMAIN exchange,
           exchange' = [i \in DOMAIN exchange' |-> exchange'[i]],
           \A i \in DOMAIN exchange :
             \/ exchange'[i] = exchange[i]
             \/ /\ exchange[i].phase = "queued"
                /\ \E phase \in {"accepted", "reset"} : exchange'[i] = [exchange[i] EXCEPT !.phase = phase]
    PROVE  Exchanges' /\ CallTypes' /\ CallSide' /\ Answered' /\ HealthyCallsSucceed' /\ ClientSide'
<1>1. ASSUME NEW i \in DOMAIN exchange
      PROVE  /\ ExchangeOK(exchange'[i], kind, call, Sent, Replied)
             /\ exchange'[i].call = exchange[i].call
             /\ exchange[i].phase = "done" => exchange'[i] = exchange[i]
             /\ exchange'[i].phase = "done" => exchange[i].phase = "done"
  <2>1. ExchangeOK(exchange[i], kind, call, Sent, Replied)
    BY Zenon DEF TransportInductive, Exchanges
  <2>2. CASE exchange'[i] = exchange[i]
    BY <2>1, <2>2, Zenon
  <2>3. ASSUME exchange[i].phase = "queued",
               NEW phase \in {"accepted", "reset"}, exchange'[i] = [exchange[i] EXCEPT !.phase = phase]
        PROVE  /\ ExchangeOK(exchange'[i], kind, call, Sent, Replied)
               /\ exchange'[i].call = exchange[i].call
               /\ exchange[i].phase = "done" => exchange'[i] = exchange[i]
               /\ exchange'[i].phase = "done" => exchange[i].phase = "done"
    <3>1. /\ ExchangeOK(exchange'[i], kind, call, Sent, Replied)
          /\ exchange'[i].call = exchange[i].call /\ exchange'[i].phase = phase
      BY <2>1, <2>3, ExchangeMoves
    <3>2. phase # "done" /\ "queued" # "done"
      OBVIOUS
    <3> QED
      BY <2>3, <3>1, <3>2, Zenon
  <2> QED
    BY <2>2, <2>3, Zenon
<1>2. CallRests
  BY <1>1, Zenon DEF CallRests
<1>3. /\ IsSequence(exchange')
      /\ Len(exchange') = Len(exchange)
  <2>1. IsSequence(exchange)
    BY Zenon DEF TransportInductive, Exchanges
  <2> QED
    BY <2>1, ExchangesReplaced
<1>4. Exchanges'
  BY <1>1, <1>2, <1>3, CallRestsGoesOn, ExchangesStayRight, Zenon DEF TransportInductive
<1>5. CallTypes' /\ CallSide' /\ Answered' /\ HealthyCallsSucceed'
  BY <1>2, CallStays
<1>6. ClientSide'
  <2>1. client.open \subseteq DOMAIN exchange
    BY DEF TransportInductive, ClientSide
  <2>2. \A i \in client.open : exchange'[i].call = None =>
          exchange[i].call = None /\ (exchange'[i].phase = "done" => exchange[i].phase = "done")
    BY <1>1, <2>1
  <2> QED
    BY <1>3, <2>2, ClientStays, Zenon DEF TransportInductive
<1> QED
  BY <1>4, <1>5, <1>6

\* A handler takes an exchange.
LEMMA StepAccept ==
    ASSUME TransportInductive, NEW i \in DOMAIN exchange, Accept(i)
    PROVE  TransportInductive'
<1>1. /\ exchange[i].phase = "queued" /\ exchange' = [exchange EXCEPT ![i].phase = "accepted"]
      /\ kind' = kind /\ client' = client /\ call' = call /\ server' = server
  BY DEF Accept
<1>2. /\ DOMAIN exchange' = DOMAIN exchange /\ exchange' = [j \in DOMAIN exchange' |-> exchange'[j]]
      /\ exchange'[i] = [exchange[i] EXCEPT !.phase = "accepted"]
      /\ \A j \in DOMAIN exchange : j # i => exchange'[j] = exchange[j]
  <2>1. exchange = [j \in DOMAIN exchange |-> exchange[j]]
    BY ExchangesAreSequence, Zenon DEF TransportInductive
  <2> QED
    BY <1>1, <2>1
<1>3. \A j \in DOMAIN exchange :
        \/ exchange'[j] = exchange[j]
        \/ /\ exchange[j].phase = "queued"
           /\ \E phase \in {"accepted", "reset"} : exchange'[j] = [exchange[j] EXCEPT !.phase = phase]
  BY <1>1, <1>2
<1>4. Exchanges' /\ CallTypes' /\ CallSide' /\ Answered' /\ HealthyCallsSucceed' /\ ClientSide'
  BY <1>1, <1>2, <1>3, ExchangesMove, Zenon
<1>5. Sides'
  BY <1>1, Zenon DEF TransportInductive, Sides
<1>6. StoppedServerIsQuiet'
  <2>1. kind = "grpc" => server.state = "running"
    BY DEF Accept
  <2> QED
    BY <1>1, <2>1 DEF StoppedServerIsQuiet
<1> QED
  BY <1>4, <1>5, <1>6 DEF TransportInductive

\* The exchanges after those that wait have been refused.
LEMMA QueuedAreReset ==
    ASSUME TransportInductive, kind' = kind, client' = client, call' = call, exchange' \in {exchange, ResetQueued}
    PROVE  /\ Exchanges' /\ CallTypes' /\ CallSide' /\ Answered' /\ HealthyCallsSucceed' /\ ClientSide'
           /\ DOMAIN exchange' = DOMAIN exchange
           /\ \A i \in DOMAIN exchange : exchange'[i].phase = "accepted" => exchange[i].phase = "accepted"
<1>1. exchange = [j \in DOMAIN exchange |-> exchange[j]]
  BY ExchangesAreSequence, Zenon DEF TransportInductive
<1>2. /\ DOMAIN exchange' = DOMAIN exchange /\ exchange' = [j \in DOMAIN exchange' |-> exchange'[j]]
      /\ \A j \in DOMAIN exchange :
           \/ exchange'[j] = exchange[j]
           \/ exchange[j].phase = "queued" /\ exchange'[j] = [exchange[j] EXCEPT !.phase = "reset"]
  <2>1. CASE exchange' = exchange
    BY <1>1, <2>1
  <2>2. CASE exchange' = ResetQueued
    BY <2>2 DEF ResetQueued
  <2> QED
    BY <2>1, <2>2
<1>3. \A j \in DOMAIN exchange :
        \/ exchange'[j] = exchange[j]
        \/ /\ exchange[j].phase = "queued"
           /\ \E phase \in {"accepted", "reset"} : exchange'[j] = [exchange[j] EXCEPT !.phase = phase]
  BY <1>2
<1>4. Exchanges' /\ CallTypes' /\ CallSide' /\ Answered' /\ HealthyCallsSucceed' /\ ClientSide'
  BY <1>2, <1>3, ExchangesMove, Zenon
<1>5. ASSUME NEW i \in DOMAIN exchange, exchange'[i].phase = "accepted"
      PROVE  exchange[i].phase = "accepted"
  <2>1. CASE exchange'[i] = exchange[i]
    BY <1>5, <2>1
  <2>2. CASE exchange[i].phase = "queued" /\ exchange'[i] = [exchange[i] EXCEPT !.phase = "reset"]
    <3>1. ExchangeOK(exchange[i], kind, call, Sent, Replied)
      BY Zenon DEF TransportInductive, Exchanges
    <3>2. exchange'[i].phase = "reset"
      BY <2>2, <3>1, ExchangeMoves
    <3> QED
      BY <1>5, <3>2
  <2> QED
    BY <1>2, <2>1, <2>2
<1> QED
  BY <1>2, <1>4, <1>5

\* The server stops: what waits is refused, with gRPC no handler is left.
LEMMA StepStop ==
    ASSUME TransportInductive, StopBegin \/ StopEnd
    PROVE  TransportInductive'
<1>1. /\ kind' = kind /\ client' = client /\ call' = call /\ exchange' \in {exchange, ResetQueued}
  BY Zenon DEF StopBegin, StopEnd
<1>2. /\ Exchanges' /\ CallTypes' /\ CallSide' /\ Answered' /\ HealthyCallsSucceed' /\ ClientSide'
      /\ DOMAIN exchange' = DOMAIN exchange
      /\ \A i \in DOMAIN exchange : exchange'[i].phase = "accepted" => exchange[i].phase = "accepted"
  BY <1>1, QueuedAreReset
<1>3. Sides'
  BY <1>1 DEF TransportInductive, Sides, StopBegin, StopEnd
<1>4. StoppedServerIsQuiet'
  <2>1. CASE StopBegin
    <3>1. server'.state = "stopping"
      BY <2>1 DEF StopBegin, TransportInductive, Sides
    <3> QED
      BY <3>1 DEF StoppedServerIsQuiet
  <2>2. CASE StopEnd
    <3>1. kind = "grpc" => \A i \in DOMAIN exchange : exchange[i].phase # "accepted"
      BY <2>2, Zenon DEF StopEnd
    <3> QED
      BY <1>1, <1>2, <3>1 DEF StoppedServerIsQuiet
  <2> QED
    BY <2>1, <2>2
<1> QED
  BY <1>2, <1>3, <1>4 DEF TransportInductive

\* A call begins; the exchanges of earlier ones are over.
LEMMA StepBegin ==
    ASSUME TransportInductive, NEW c \in Calls, Begin(c)
    PROVE  TransportInductive'
<1>1. /\ call.pc = "idle" /\ call.id < MaxCalls /\ kind' = kind /\ server' = server /\ client' = client
      /\ exchange' = [i \in DOMAIN exchange |->
                        IF exchange[i].phase \in {"done", "reset"} /\ exchange[i].call # None
                        THEN Over ELSE exchange[i]]
  BY Zenon DEF Begin
<1>2. /\ DOMAIN call = CallFields /\ call.id \in 0..MaxCalls /\ call.failed \in Nat
  BY DEF TransportInductive, CallTypes
<1>3. /\ DOMAIN call' = CallFields /\ call'.id = call.id + 1 /\ call'.pc = "try"
      /\ call'.method = c.method /\ call'.args = c.args /\ call'.attempt = 0 /\ call'.failed = call.failed
      /\ call'.result = FALSE /\ call'.fault = FALSE
  BY <1>2 DEF Begin, CallFields
<1>4. MaxCalls \in Nat /\ RETRIES \in Nat
  BY TransportBounds
<1>5. CallTypes'
  <2>1. IsCall(c.method, c.args)
    BY DEF Calls, IsCall
  <2>2. IsCall(call'.method, call'.args)
    BY <1>3, <2>1, Zenon DEF IsCall
  <2>3. call'.id \in 0..MaxCalls /\ call'.id > 0 /\ call'.attempt \in 0..RETRIES
    BY <1>1, <1>2, <1>3, <1>4
  <2> QED
    BY <1>2, <1>3, <2>2, <2>3, Zenon DEF CallTypes
<1>6. ASSUME NEW i \in DOMAIN exchange
      PROVE  /\ ExchangeOK(exchange'[i], kind, call', Sent', Replied')
             /\ exchange'[i] = Over \/ exchange'[i] = exchange[i]
             /\ ~Mine(exchange'[i], call')
  <2>1. ExchangeOK(exchange[i], kind, call, Sent, Replied)
    BY Zenon DEF TransportInductive, Exchanges
  <2>2. CASE exchange'[i] = Over
    <3>1. /\ DOMAIN Over = ExchangeFields /\ Over.call = -1 /\ Over.phase = "done" /\ Over.got = Thrown
          /\ Over.status = "none"
      BY DEF Over, ExchangeFields
    <3>2. -1 \in -1..call'.id /\ -1 # None /\ ~Mine(Over, call')
      BY <1>2, <1>3, <3>1 DEF None, Mine
    <3>3. ExchangeOK(Over, kind, call', Sent', Replied')
      BY <3>1, <3>2 DEF ExchangeOK
    <3> QED
      BY <2>2, <3>2, <3>3, Zenon
  <2>3. CASE exchange'[i] = exchange[i]
    <3>1. exchange[i].call \in -1..call.id
      BY <2>1, Zenon DEF ExchangeOK
    <3>2. exchange[i].call \in -1..call'.id /\ ~Mine(exchange[i], call')
      BY <1>2, <1>3, <3>1 DEF Mine
    <3>3. ExchangeOK(exchange[i], kind, call', Sent', Replied')
      BY <2>1, <3>2 DEF ExchangeOK
    <3> QED
      BY <2>3, <3>2, <3>3, Zenon
  <2>4. exchange'[i] = Over \/ exchange'[i] = exchange[i]
    BY <1>1
  <2> QED
    BY <2>2, <2>3, <2>4
<1>7. /\ DOMAIN exchange' = DOMAIN exchange /\ exchange' = [i \in DOMAIN exchange' |-> exchange'[i]]
  BY <1>1
<1>8. /\ IsSequence(exchange') /\ Len(exchange') = Len(exchange)
  <2>1. IsSequence(exchange)
    BY Zenon DEF TransportInductive, Exchanges
  <2> QED
    BY <1>7, <2>1, ExchangesReplaced
<1>9. Exchanges'
  <2>1. \A i \in DOMAIN exchange' : ExchangeOK(exchange[i], kind, call, Sent, Replied)'
    BY <1>1, <1>6, <1>7, Zenon
  <2> QED
    BY <1>8, <2>1, Zenon DEF Exchanges
<1>10. CallSide'
  <2>1. ~(call'.attempt > 0) /\ call'.pc # "wait"
    BY <1>3
  <2>2. \A i \in DOMAIN exchange' : ~Mine(exchange'[i], call')
    BY <1>6, <1>7, Zenon
  <2> QED
    BY <2>1, <2>2, Zenon DEF CallSide
<1>11. Answered' /\ HealthyCallsSucceed'
  BY <1>3 DEF Answered, HealthyCallsSucceed, Returned
<1>12. ClientSide'
  <2>1. client.open \subseteq DOMAIN exchange
    BY DEF TransportInductive, ClientSide
  <2>2. Over.call # None
    BY DEF Over, None
  <2>3. \A i \in client.open : exchange'[i].call = None =>
          exchange[i].call = None /\ (exchange'[i].phase = "done" => exchange[i].phase = "done")
    BY <1>6, <2>1, <2>2
  <2> QED
    BY <1>1, <1>3, <1>7, <1>8, <2>3, ClientStays, Zenon DEF TransportInductive
<1>13. Sides' /\ StoppedServerIsQuiet'
  <2>1. Over.phase # "accepted"
    BY DEF Over
  <2>2. kind' = kind /\ server' = server /\ \A i \in DOMAIN exchange' :
          i \in DOMAIN exchange /\ (exchange'[i].phase = "accepted" => exchange[i].phase = "accepted")
    BY <1>1, <1>6, <1>7, <2>1, Zenon
  <2> QED
    BY <2>2, Zenon DEF TransportInductive, Sides, StoppedServerIsQuiet
<1> QED
  BY <1>5, <1>9, <1>10, <1>11, <1>12, <1>13 DEF TransportInductive

\* A new exchange, in the client and in the sequence.
LEMMA ExchangeStarts ==
    ASSUME TransportInductive, NEW c, NEW id \in -1..call.id, NEW q, NewExchange(c, id, q),
           CallGoesOn, call'.failed = call.failed,
           id = None => kind = "simple", id = call.id /\ id > 0 => q = Sent,
           c.open \subseteq client.open, Cardinality(c.open) <= call.failed
    PROVE  /\ Exchanges' /\ ClientSide'
           /\ client'.current \in DOMAIN exchange' /\ client'.connected
           /\ exchange'[client'.current].call = id /\ exchange'[client'.current].phase = "queued"
           /\ \A i \in DOMAIN exchange : i \in DOMAIN exchange' /\ exchange'[i] = exchange[i]
           /\ \A i \in DOMAIN exchange' : i \in DOMAIN exchange \/ i = client'.current
<1> DEFINE n == Len(exchange)
           e == [call |-> id, method |-> call.method, request |-> q,
                 phase |-> "queued", got |-> Thrown, status |-> "none", reply |-> <<>>]
<1>1. /\ exchange' = Append(exchange, e)
      /\ client' = [connected |-> TRUE, current |-> n + 1, rest |-> FALSE,
                    open |-> IF kind = "simple" THEN c.open \cup {n + 1} ELSE {}]
  BY DEF NewExchange
<1>2. /\ DOMAIN e = ExchangeFields /\ e.call = id /\ e.method = call.method /\ e.request = q
      /\ e.phase = "queued" /\ e.got = Thrown /\ e.status = "none"
  BY DEF ExchangeFields
<1> HIDE DEF e
<1>3. /\ IsSequence(exchange')
      /\ Len(exchange') = n + 1 /\ n \in Nat /\ DOMAIN exchange' = 1..n + 1 /\ DOMAIN exchange = 1..n
      /\ exchange'[n + 1] = e
      /\ \A i \in DOMAIN exchange : i \in DOMAIN exchange' /\ exchange'[i] = exchange[i]
      /\ \A i \in DOMAIN exchange' : i \in DOMAIN exchange \/ i = n + 1
  <2>1. IsSequence(exchange)
    BY Zenon DEF TransportInductive, Exchanges
  <2> DEFINE y == Append(exchange, e)
  <2>2. /\ IsSequence(y)
        /\ Len(y) = Len(exchange) + 1 /\ Len(exchange) \in Nat
        /\ DOMAIN y = 1..Len(exchange) + 1 /\ DOMAIN exchange = 1..Len(exchange)
        /\ y[Len(exchange) + 1] = e
        /\ \A i \in DOMAIN exchange : i \in DOMAIN y /\ y[i] = exchange[i]
        /\ \A i \in DOMAIN y : i \in DOMAIN exchange \/ i = Len(exchange) + 1
    BY <2>1, ExchangeAdded
  <2> HIDE DEF y
  <2>3. exchange' = y
    BY <1>1 DEF y
  <2> QED
    BY <2>2, <2>3, Zenon
<1> HIDE DEF n
<1>4. /\ client'.connected = TRUE /\ client'.current = n + 1 /\ client'.rest = FALSE
      /\ client'.open = IF kind = "simple" THEN c.open \cup {n + 1} ELSE {}
  BY <1>1
<1>5. Exchanges'
  <2>1. call'.id = call.id /\ call'.method = call.method /\ call'.args = call.args
    BY Zenon DEF CallGoesOn
  <2>2. Mine(e, call') => q = Sent
    BY <1>2, <2>1 DEF Mine
  <2>3. ExchangeOK(e, kind, call', Sent, Replied)
    BY <1>2, <2>1, <2>2 DEF ExchangeOK
  <2>4. \A i \in DOMAIN exchange' : \/ i \in DOMAIN exchange /\ exchange'[i] = exchange[i]
                                    \/ ExchangeOK(exchange'[i], kind, call', Sent, Replied)
    BY <1>3, <2>3, Zenon
  <2> QED
    BY <1>3, <2>4, ExchangesStayRight, Zenon DEF TransportInductive
<1>6. ClientSide'
  <2>1. client.open \subseteq 1..n
    BY <1>3, Zenon DEF TransportInductive, ClientSide
  <2>2. client' \in [connected : BOOLEAN, current : 0..Len(exchange'), open : SUBSET DOMAIN exchange', rest : BOOLEAN]
    <3>1. client'.open \in SUBSET (1..n + 1) /\ n + 1 \in 0..n + 1
      BY <1>3, <1>4, <2>1
    <3>2. client' = [connected |-> TRUE, current |-> n + 1, rest |-> FALSE, open |-> client'.open]
      BY <1>1, <1>4, Zenon DEF n
    <3>3. Len(exchange') = n + 1 /\ DOMAIN exchange' = 1..n + 1
      BY <1>3
    <3>4. \A m \in 0..n + 1, o \in SUBSET (1..n + 1) :
            [connected |-> TRUE, current |-> m, rest |-> FALSE, open |-> o] \in
              [connected : BOOLEAN, current : 0..n + 1, open : SUBSET (1..n + 1), rest : BOOLEAN]
      OBVIOUS
    <3>5. client' \in [connected : BOOLEAN, current : 0..n + 1, open : SUBSET (1..n + 1), rest : BOOLEAN]
      <4>1. [connected |-> TRUE, current |-> n + 1, rest |-> FALSE, open |-> client'.open] \in
              [connected : BOOLEAN, current : 0..n + 1, open : SUBSET (1..n + 1), rest : BOOLEAN]
        BY <3>1, <3>4, Zenon
      <4> QED
        BY <3>2, <4>1, Zenon
    <3> QED
      BY <3>3, <3>5, Zenon
  <2>3. Cardinality(client'.open \ (IF client'.connected THEN {client'.current} ELSE {})) <= call.failed
    <3>1. CASE kind = "simple"
      <4>1. n + 1 \notin c.open
        BY <1>3, <2>1
      <4>2. client'.open \ (IF client'.connected THEN {client'.current} ELSE {}) = c.open
        BY <1>4, <3>1, <4>1
      <4> QED
        BY <4>2
    <3>2. CASE kind # "simple"
      <4>1. client'.open \ (IF client'.connected THEN {client'.current} ELSE {}) = {}
        BY <1>4, <3>2
      <4>2. call.failed \in Nat
        BY DEF TransportInductive, CallTypes
      <4> QED
        BY <4>1, <4>2, FS_EmptySet
    <3> QED
      BY <3>1, <3>2
  <2>4. kind' = kind
    BY DEF CallGoesOn
  <2>5. (kind = "grpc" => client'.open = {}) /\ (kind = "simple" => client'.current \in client'.open)
    BY <1>4
  <2>6. ASSUME NEW i \in client'.open, exchange'[i].call = None
        PROVE  exchange'[i].phase # "done"
    <3>1. CASE i = n + 1
      BY <1>2, <1>3, <3>1
    <3>2. CASE i # n + 1
      <4>1. i \in client.open
        BY <1>4, <3>2
      <4>2. exchange'[i] = exchange[i]
        BY <1>3, <2>1, <4>1
      <4> QED
        BY <2>6, <4>1, <4>2 DEF TransportInductive, ClientSide
    <3> QED
      BY <3>1, <3>2
  <2> QED
    BY <2>2, <2>3, <2>4, <2>5, <2>6, Zenon DEF ClientSide
<1> QED
  BY <1>2, <1>3, <1>4, <1>5, <1>6

\* The end of an attempt.
LEMMA AttemptEnds ==
    ASSUME TransportInductive, kind = "simple", call.pc # "idle",
           kind' = kind, server' = server, exchange' = exchange,
           NEW fault \in BOOLEAN, ~fault /\ ~call.fault => call.pc = "try" /\ client.connected,
           NEW c \in [connected : BOOLEAN, current : 0..Len(exchange), open : SUBSET DOMAIN exchange, rest : BOOLEAN],
           c.open = client.open, c.current = client.current \/ ~client.connected,
           c.connected => client.connected /\ c.current = client.current,
           AttemptFailed(c, fault)
    PROVE  TransportInductive'
<1>1. /\ DOMAIN call = CallFields /\ call.id \in 0..MaxCalls /\ call.id > 0 /\ call.failed \in Nat
      /\ call.attempt \in 0..RETRIES /\ call.fault \in BOOLEAN /\ IsCall(call.method, call.args)
      /\ RETRIES \in Nat
  BY TransportBounds DEF TransportInductive, CallTypes
<1>2. Cardinality(client.open \ {client.current}) <= call.failed
  BY Disconnected
<1>3. /\ IsFiniteSet(client.open) /\ Cardinality(client.open) \in Nat /\ Cardinality(client.open) <= call.failed + 1
      /\ ~client.connected => Cardinality(client.open) <= call.failed
      /\ \A s \in SUBSET client.open :
           IsFiniteSet(s) /\ Cardinality(s) \in Nat /\ Cardinality(s) <= Cardinality(client.open)
  <2>1. \A s \in SUBSET client.open :
          IsFiniteSet(s) /\ Cardinality(s) \in Nat /\ Cardinality(s) <= Cardinality(client.open)
    BY SocketsClosed
  <2>2. IsFiniteSet(client.open) /\ Cardinality(client.open) \in Nat
    BY <2>1
  <2>3. Cardinality(client.open) <= Cardinality(client.open \ {client.current}) + 1
    <3> DEFINE n == Cardinality(client.open)
               m == Cardinality(client.open \ {client.current})
    <3>1. m = IF client.current \in client.open THEN n - 1 ELSE n
      BY <2>2, FS_RemoveElement, Zenon
    <3>2. n \in Nat
      BY <2>2
    <3> HIDE DEF n, m
    <3>3. n <= m + 1
      BY <3>1, <3>2
    <3> QED
      BY <3>3 DEF n, m
  <2>4. Cardinality(client.open \ {client.current}) \in Nat
    BY <2>1
  <2>5. ~client.connected => Cardinality(client.open) <= call.failed
    <3>1. SUFFICES ASSUME ~client.connected
                   PROVE  Cardinality(client.open) <= call.failed
      OBVIOUS
    <3>2. client.open \ (IF client.connected THEN {client.current} ELSE {}) = client.open
      BY <3>1
    <3> QED
      BY <3>2, Zenon DEF TransportInductive, ClientSide
  <2> QED
    BY <1>1, <1>2, <2>1, <2>2, <2>3, <2>4, <2>5
<1>4. Len(exchange) \in Nat
  BY ExchangesAreSequence, Zenon DEF TransportInductive
<1>5. \A i \in client.open : exchange[i].call = None => exchange[i].phase # "done"
  BY DEF TransportInductive, ClientSide
<1>6. CASE call.attempt < RETRIES
  <2>1. /\ client' = Disconnect(c)
        /\ call' = [call EXCEPT !.pc = "try", !.attempt = @ + 1, !.fault = @ \/ fault]
    BY <1>6, Zenon DEF AttemptFailed, TurnEnds
  <2>2. /\ DOMAIN call' = CallFields /\ call'.id = call.id /\ call'.pc = "try"
        /\ call'.method = call.method /\ call'.args = call.args /\ call'.attempt = call.attempt + 1
        /\ call'.failed = call.failed /\ call'.result = call.result
    BY <1>1, <2>1 DEF CallFields
  <2>3. call'.fault = (call.fault \/ fault)
    BY <1>1, <2>1 DEF CallFields
  <2>4. CallGoesOn
    BY <2>2, <2>3 DEF CallGoesOn
  <2>5. CallTypes'
    <3>1. call'.fault \in BOOLEAN /\ call'.result \in BOOLEAN
      BY <2>2, <2>3 DEF TransportInductive, CallTypes
    <3>2. call'.attempt \in 0..RETRIES
      BY <1>1, <1>6, <2>2
    <3>3. IsCall(call'.method, call'.args)
      BY <1>1, <2>2, Zenon DEF IsCall
    <3> QED
      BY <1>1, <2>2, <3>1, <3>2, <3>3, Zenon DEF CallTypes
  <2>6. /\ client'.connected = FALSE /\ client'.current = None /\ client'.rest = FALSE
        /\ client'.open = c.open \ {c.current}
    BY <2>1 DEF Disconnect
  <2>7. CallSide'
    <3>1. ~call'.fault => \A i \in DOMAIN exchange : ~Mine(exchange[i], call)
      BY <2>3 DEF TransportInductive, CallSide
    <3>2. ~call'.fault => ~call.fault
      BY <2>3
    <3>3. \A e : Mine(e, call') <=> Mine(e, call)
      BY <2>2 DEF Mine
    <3>4. kind # "grpc" /\ "try" # "wait"
      OBVIOUS
    <3> QED
      BY <2>2, <2>6, <3>1, <3>2, <3>3, <3>4, Zenon DEF CallSide, TransportInductive
  <2>8. Answered' /\ HealthyCallsSucceed'
    BY <2>2 DEF Answered, HealthyCallsSucceed, Returned
  <2>9. ClientSide'
    <3>1. client' \in [connected : BOOLEAN, current : 0..Len(exchange), open : SUBSET DOMAIN exchange, rest : BOOLEAN]
      <4>1. c.open \subseteq DOMAIN exchange
        OBVIOUS
      <4> QED
        BY <1>4, <2>1, <4>1 DEF Disconnect, None
    <3>2. client'.open \ (IF client'.connected THEN {client'.current} ELSE {}) = c.open \ {c.current}
      BY <2>6
    <3>3. Cardinality(c.open \ {c.current}) <= call.failed
      <4>1. CASE c.current = client.current
        BY <1>2, <4>1
      <4>2. CASE ~client.connected
        <5>1. c.open \ {c.current} \in SUBSET client.open
          OBVIOUS
        <5> QED
          BY <1>1, <1>3, <4>2, <5>1
      <4> QED
        BY <4>1, <4>2
    <3>4. \A i \in client'.open : exchange[i].call = None => exchange[i].phase # "done"
      BY <1>5, <2>6
    <3>5. kind # "grpc"
      OBVIOUS
    <3> QED
      BY <2>2, <2>6, <3>1, <3>2, <3>3, <3>4, <3>5, Zenon DEF ClientSide
  <2>10. Exchanges'
    BY <2>4, ExchangesStayRight, Zenon DEF TransportInductive, Exchanges
  <2>11. Sides' /\ StoppedServerIsQuiet'
    BY Zenon DEF TransportInductive, Sides, StoppedServerIsQuiet
  <2> QED
    BY <2>5, <2>7, <2>8, <2>9, <2>10, <2>11 DEF TransportInductive
<1>7. CASE ~(call.attempt < RETRIES)
  <2>1. client' = c /\ call' = [Return(FALSE) EXCEPT !.fault = @ \/ fault]
    BY <1>7, Zenon DEF AttemptFailed, TurnEnds
  <2>2. /\ DOMAIN call' = CallFields /\ call'.id = call.id /\ call'.pc = "idle"
        /\ call'.method = call.method /\ call'.args = call.args /\ call'.attempt = call.attempt
        /\ call'.failed = call.failed + 1 /\ call'.result = FALSE
    BY <1>1, <2>1 DEF CallFields, Return
  <2>3. call'.fault = (call.fault \/ fault)
    BY <1>1, <2>1 DEF CallFields, Return
  <2>4. CallGoesOn
    BY <2>2, <2>3 DEF CallGoesOn
  <2>5. CallTypes'
    <3>1. call'.fault \in BOOLEAN /\ call'.result \in BOOLEAN
      BY <2>2, <2>3
    <3>2. call'.failed \in Nat
      BY <1>1, <2>2
    <3>3. IsCall(call'.method, call'.args)
      BY <1>1, <2>2, Zenon DEF IsCall
    <3> QED
      BY <1>1, <2>2, <3>1, <3>2, <3>3, Zenon DEF CallTypes
  <2>6. CallSide'
    <3>1. ~call'.fault => ~call.fault
      BY <2>3
    <3>2. \A e : Mine(e, call') <=> Mine(e, call)
      BY <2>2 DEF Mine
    <3>3. kind # "grpc" /\ call'.pc # "try" /\ call'.pc # "wait"
      BY <2>2
    <3> QED
      BY <3>1, <3>2, <3>3, Zenon DEF CallSide, TransportInductive
  <2>7. Answered'
    BY <2>2 DEF Answered
  <2>8. HealthyCallsSucceed'
    <3>1. ASSUME ~call'.fault, RETRIES > 0
          PROVE  FALSE
      <4>1. call.pc = "try" /\ client.connected
        BY <2>3, <3>1
      <4>2. ~(call.attempt > 0)
        BY <4>1, Zenon DEF TransportInductive, CallSide
      <4> QED
        BY <1>1, <1>7, <3>1, <4>2
    <3> QED
      BY <3>1, Zenon DEF HealthyCallsSucceed
  <2>9. ClientSide'
    <3>1. c.open \ (IF c.connected THEN {c.current} ELSE {}) \in SUBSET client.open
      OBVIOUS
    <3>2. Cardinality(c.open \ (IF c.connected THEN {c.current} ELSE {})) <= call.failed + 1
      BY <1>1, <1>3, <3>1
    <3>3. c.connected => c.current \in c.open
      BY DEF TransportInductive, ClientSide
    <3>4. kind # "grpc"
      OBVIOUS
    <3> QED
      BY <1>5, <2>1, <2>2, <3>2, <3>3, <3>4, Zenon DEF ClientSide
  <2>10. Exchanges'
    BY <2>4, ExchangesStayRight, Zenon DEF TransportInductive, Exchanges
  <2>11. Sides' /\ StoppedServerIsQuiet'
    BY Zenon DEF TransportInductive, Sides, StoppedServerIsQuiet
  <2> QED
    BY <2>5, <2>6, <2>7, <2>8, <2>9, <2>10, <2>11 DEF TransportInductive
<1> QED
  BY <1>6, <1>7

\* A request leaves in a new exchange.
LEMMA ExchangeSent ==
    ASSUME TransportInductive, kind' = kind, server' = server, call.pc = "try", call' = [call EXCEPT !.pc = "wait"],
           NEW c, c.open \subseteq client.open, Cardinality(c.open) <= call.failed,
           NewExchange(c, call.id, Sent)
    PROVE  TransportInductive'
<1>1. /\ DOMAIN call = CallFields /\ call.id \in 0..MaxCalls /\ call.id > 0 /\ MaxCalls \in Nat
  BY TransportBounds DEF TransportInductive, CallTypes
<1>2. /\ DOMAIN call' = CallFields /\ call'.id = call.id /\ call'.method = call.method
      /\ call'.args = call.args /\ call'.attempt = call.attempt /\ call'.pc = "wait"
      /\ call'.result = call.result /\ call'.fault = call.fault /\ call'.failed = call.failed
  BY <1>1 DEF CallFields
<1>3. CallGoesOn
  BY <1>2, Zenon DEF CallGoesOn
<1>4. /\ Exchanges' /\ ClientSide'
      /\ client'.current \in DOMAIN exchange' /\ client'.connected
      /\ exchange'[client'.current].call = call.id /\ exchange'[client'.current].phase = "queued"
      /\ \A i \in DOMAIN exchange : i \in DOMAIN exchange' /\ exchange'[i] = exchange[i]
      /\ \A i \in DOMAIN exchange' : i \in DOMAIN exchange \/ i = client'.current
  <2>1. call.id \in -1..call.id /\ call.id # None
    BY <1>1 DEF None
  <2> QED
    BY <1>2, <1>3, <2>1, ExchangeStarts
<1>5. CallTypes'
  <2>1. IsCall(call'.method, call'.args)
    BY <1>2, Zenon DEF TransportInductive, CallTypes, IsCall
  <2> QED
    BY <1>1, <1>2, <2>1, Zenon DEF TransportInductive, CallTypes
<1>6. CallSide'
  <2>1. \A e : Mine(e, call') <=> Mine(e, call)
    BY <1>2 DEF Mine
  <2>2. call'.pc # "try" /\ "queued" # "done"
    BY <1>2
  <2>3. kind = "grpc" \/ ~call.fault =>
          \A i, j \in DOMAIN exchange' : Mine(exchange'[i], call) /\ Mine(exchange'[j], call) => i = j
    <3>1. SUFFICES ASSUME kind = "grpc" \/ ~call.fault
                   PROVE  \A i \in DOMAIN exchange' : Mine(exchange'[i], call) => i = client'.current
      BY Zenon
    <3>2. \A i \in DOMAIN exchange : ~Mine(exchange[i], call)
      BY <3>1, Zenon DEF TransportInductive, CallSide
    <3> QED
      BY <1>4, <3>2, Zenon
  <2> QED
    BY <1>2, <1>4, <2>1, <2>2, <2>3, Zenon DEF CallSide
<1>7. Answered' /\ HealthyCallsSucceed'
  BY <1>2 DEF Answered, HealthyCallsSucceed, Returned
<1>8. Sides' /\ StoppedServerIsQuiet'
  <2>1. \A i \in DOMAIN exchange' : exchange'[i].phase = "accepted" =>
          i \in DOMAIN exchange /\ exchange[i].phase = "accepted"
    BY <1>4
  <2> QED
    BY <2>1, Zenon DEF TransportInductive, Sides, StoppedServerIsQuiet
<1> QED
  BY <1>4, <1>5, <1>6, <1>7, <1>8 DEF TransportInductive

\* A call that returns: true with an answer, false after a fault.
LEMMA CallIsOver ==
    ASSUME TransportInductive, kind' = kind, server' = server, exchange' = exchange, NEW b \in BOOLEAN,
           DOMAIN call' = CallFields, call'.id = call.id, call'.method = call.method, call'.args = call.args,
           call'.attempt = call.attempt, call'.pc = "idle", call'.result = b, call'.fault \in BOOLEAN,
           call'.failed = call.failed + (IF b THEN 0 ELSE 1), call.fault => call'.fault,
           DOMAIN client' = DOMAIN client, client' = [f \in DOMAIN client |-> client'[f]],
           client'.connected = client.connected, client'.current = client.current,
           client'.open = client.open, client'.rest \in BOOLEAN,
           b \/ call'.fault,
           b => \E i \in DOMAIN exchange : \E r \in Replies(call.method) :
                  /\ exchange[i].call = call.id /\ exchange[i].status = "ok"
                  /\ exchange[i].reply = EncodeReply(call.method, r)
                  /\ RepliedRight(kind, call.method, call'.reply, r)
    PROVE  TransportInductive'
<1>1. CallGoesOn
  BY Zenon DEF CallGoesOn
<1>2. Exchanges'
  BY <1>1, ExchangesStayRight, Zenon DEF TransportInductive, Exchanges
<1>3. call'.failed \in Nat /\ call.failed \in Nat /\ call.failed <= call'.failed
  BY DEF TransportInductive, CallTypes
<1>4. CallTypes'
  <2>1. IsCall(call'.method, call'.args)
    BY Zenon DEF TransportInductive, CallTypes, IsCall
  <2> QED
    BY <1>3, <2>1, Zenon DEF TransportInductive, CallTypes
<1>5. CallSide'
  <2>1. \A e : Mine(e, call') <=> Mine(e, call)
    BY DEF Mine
  <2>2. call'.pc # "try" /\ call'.pc # "wait"
    OBVIOUS
  <2> QED
    BY <2>1, <2>2, Zenon DEF CallSide, TransportInductive
<1>6. Answered'
  BY Zenon DEF Answered, Returned, EncodeReply
<1>7. HealthyCallsSucceed'
  BY Zenon DEF HealthyCallsSucceed
<1>8. ClientSide'
  <2>1. client' \in [connected : BOOLEAN, current : 0..Len(exchange), open : SUBSET DOMAIN exchange, rest : BOOLEAN]
    <3>1. client \in [connected : BOOLEAN, current : 0..Len(exchange), open : SUBSET DOMAIN exchange, rest : BOOLEAN]
      BY DEF TransportInductive, ClientSide
    <3>2. /\ client.connected \in BOOLEAN /\ client.current \in 0..Len(exchange)
          /\ client.open \in SUBSET DOMAIN exchange
          /\ DOMAIN client = {"connected", "current", "open", "rest"}
      BY <3>1
    <3> QED
      BY <3>2
  <2>2. Cardinality(client'.open \ (IF client'.connected THEN {client'.current} ELSE {})) <= call'.failed
    <3> DEFINE s == client.open \ (IF client.connected THEN {client.current} ELSE {})
    <3>1. Cardinality(s) <= call.failed
      BY Zenon DEF TransportInductive, ClientSide
    <3>2. Cardinality(s) \in Nat
      <4>1. s \in SUBSET client.open
        OBVIOUS
      <4> QED
        BY <4>1, SocketsClosed
    <3>3. client'.open \ (IF client'.connected THEN {client'.current} ELSE {}) = s
      OBVIOUS
    <3> DEFINE n == Cardinality(s)
    <3> HIDE DEF s
    <3>4. n <= call.failed /\ n \in Nat
      BY <3>1, <3>2
    <3> HIDE DEF n
    <3>5. n <= call'.failed
      BY <1>3, <3>4
    <3> QED
      BY <3>3, <3>5, Zenon DEF n
  <2>3. /\ kind = "grpc" => client.open = {}
        /\ kind = "simple" /\ client.connected => client.current \in client.open
        /\ \A i \in client.open : exchange[i].call = None => exchange[i].phase # "done"
    BY Zenon DEF TransportInductive, ClientSide
  <2> QED
    BY <2>1, <2>2, <2>3, Zenon DEF ClientSide
<1>9. Sides' /\ StoppedServerIsQuiet'
  BY Zenon DEF TransportInductive, Sides, StoppedServerIsQuiet
<1> QED
  BY <1>2, <1>4, <1>5, <1>6, <1>7, <1>8, <1>9 DEF TransportInductive

\* A step of the client that leaves the client's own record alone.
LEMMA ClientIsRecord ==
    ASSUME TransportInductive
    PROVE  /\ client = [f \in DOMAIN client |-> client[f]]
           /\ client.connected \in BOOLEAN /\ client.rest \in BOOLEAN
           /\ client.current \in 0..Len(exchange) /\ client.open \subseteq DOMAIN exchange
           /\ DOMAIN client = {"connected", "current", "open", "rest"}
<1>1. client \in [connected : BOOLEAN, current : 0..Len(exchange), open : SUBSET DOMAIN exchange, rest : BOOLEAN]
  BY DEF TransportInductive, ClientSide
<1> QED
  BY <1>1

\* The gRPC call ends: with its status, at its deadline, or without a server.
LEMMA StepGrpcReturns ==
    ASSUME TransportInductive, GrpcReceive \/ GrpcDeadline \/ (GrpcSend /\ exchange' = exchange)
    PROVE  TransportInductive'
<1>1. /\ kind = "grpc" /\ kind' = kind /\ server' = server
      /\ DOMAIN call = CallFields /\ call.fault \in BOOLEAN /\ call.failed \in Nat
  BY Zenon DEF GrpcReceive, GrpcDeadline, GrpcSend, TransportInductive, CallTypes
<1>2. CASE exchange' = exchange /\ client' = client /\ call' = [Return(FALSE) EXCEPT !.fault = TRUE]
  <2>1. /\ DOMAIN call' = CallFields /\ call'.id = call.id /\ call'.method = call.method
        /\ call'.args = call.args /\ call'.attempt = call.attempt /\ call'.pc = "idle"
        /\ call'.result = FALSE /\ call'.fault = TRUE /\ call'.failed = call.failed + 1
    BY <1>1, <1>2 DEF Return, CallFields
  <2>2. /\ client' = [f \in DOMAIN client |-> client'[f]] /\ client'.rest \in BOOLEAN
    BY <1>2, ClientIsRecord, Zenon
  <2> QED
    BY <1>1, <1>2, <2>1, <2>2, CallIsOver
<1>3. CASE GrpcReceive
  <2> DEFINE e == exchange[client.current]
  <2>1. /\ call.pc = "wait" /\ e.phase = "done" /\ exchange' = exchange /\ client' = client
        /\ call' = IF e.status = "ok"
                   THEN [Return(TRUE) EXCEPT !.reply = DecodeReply(call.method, e.reply)]
                   ELSE Return(FALSE)
    BY <1>3, Zenon DEF GrpcReceive
  <2>2. /\ client.current \in DOMAIN exchange /\ e.call = call.id /\ e.status # "none" /\ call.id > 0
    BY <1>1, <2>1, Zenon DEF TransportInductive, CallSide, CallTypes
  <2>3. Mine(e, call) /\ ExchangeOK(e, kind, call, Sent, Replied)
    BY <2>2, Zenon DEF TransportInductive, Exchanges, Mine
  <2>4. /\ client' = [f \in DOMAIN client |-> client'[f]] /\ client'.rest \in BOOLEAN
    BY <2>1, ClientIsRecord, Zenon
  <2>5. CASE e.status = "ok"
    <3>1. PICK r \in Replies(call.method) : e.reply = EncodeReply(call.method, r)
      BY <2>3, <2>5, Zenon DEF ExchangeOK, Replied
    <3>2. DecodeReply(call.method, e.reply) = r
      <4>1. call.method \in {"RequestVote", "AppendEntries"}
        BY DEF TransportInductive, CallTypes, IsCall
      <4> QED
        BY <1>1, <3>1, <4>1, RepliesArrive
    <3>3. call' = [Return(TRUE) EXCEPT !.reply = r]
      BY <2>1, <2>5, <3>2, Zenon
    <3>4. /\ DOMAIN call' = CallFields /\ call'.id = call.id /\ call'.method = call.method
          /\ call'.args = call.args /\ call'.attempt = call.attempt /\ call'.pc = "idle"
          /\ call'.result = TRUE /\ call'.fault = call.fault /\ call'.failed = call.failed + 0
          /\ call'.reply = r
      BY <1>1, <3>3 DEF Return, CallFields
    <3>5. RepliedRight(kind, call.method, call'.reply, r)
      BY <3>4, Zenon DEF RepliedRight
    <3>6. \E i \in DOMAIN exchange : \E s \in Replies(call.method) :
            /\ exchange[i].call = call.id /\ exchange[i].status = "ok"
            /\ exchange[i].reply = EncodeReply(call.method, s)
            /\ RepliedRight(kind, call.method, call'.reply, s)
      BY <2>2, <2>5, <3>1, <3>5, Zenon
    <3> HIDE DEF e
    <3> QED
      BY <1>1, <2>1, <2>4, <3>4, <3>6, CallIsOver
  <2>6. CASE e.status # "ok"
    <3>1. call.fault
      BY <2>2, <2>3, <2>6 DEF ExchangeOK
    <3>2. call' = Return(FALSE)
      BY <2>1, <2>6, Zenon
    <3>3. /\ DOMAIN call' = CallFields /\ call'.id = call.id /\ call'.method = call.method
          /\ call'.args = call.args /\ call'.attempt = call.attempt /\ call'.pc = "idle"
          /\ call'.result = FALSE /\ call'.fault = call.fault /\ call'.failed = call.failed + 1
      BY <1>1, <3>2 DEF Return, CallFields
    <3> HIDE DEF e
    <3> QED
      BY <1>1, <2>1, <2>4, <3>1, <3>3, CallIsOver
  <2> QED
    BY <2>5, <2>6
<1>4. CASE GrpcDeadline
  BY <1>2, <1>4, Zenon DEF GrpcDeadline
<1>5. CASE GrpcSend /\ exchange' = exchange
  <2>1. ~NewExchange(client, call.id, EncodeRequest(call.method, call.args))
    <3>1. SUFFICES ASSUME NewExchange(client, call.id, EncodeRequest(call.method, call.args))
                   PROVE  FALSE
      OBVIOUS
    <3>2. IsSequence(exchange)
      BY Zenon DEF TransportInductive, Exchanges
    <3>3. PICK e : exchange' = Append(exchange, e)
      BY <3>1, Zenon DEF NewExchange
    <3>4. Len(exchange') = Len(exchange) + 1 /\ Len(exchange) \in Nat
      BY <3>2, <3>3, ExchangeAdded
    <3> QED
      BY <1>5, <3>4
  <2> QED
    BY <1>2, <1>5, <2>1, Zenon DEF GrpcSend
<1> QED
  BY <1>3, <1>4, <1>5

\* The gRPC call leaves, or fails at once.
LEMMA StepGrpcSend ==
    ASSUME TransportInductive, GrpcSend
    PROVE  TransportInductive'
<1>1. CASE exchange' = exchange
  BY <1>1, StepGrpcReturns
<1>2. CASE exchange' # exchange
  <2>1. /\ kind = "grpc" /\ kind' = kind /\ server' = server /\ call.pc = "try"
        /\ NewExchange(client, call.id, Sent) /\ call' = [call EXCEPT !.pc = "wait"]
    BY <1>2, Zenon DEF GrpcSend, Sent
  <2>2. client.open = {} /\ call.failed \in Nat
    BY <2>1 DEF TransportInductive, ClientSide, CallTypes
  <2> QED
    BY <2>1, <2>2, FS_EmptySet, ExchangeSent
<1> QED
  BY <1>1, <1>2

\* connect of the application makes a connection without a request, or none.
LEMMA StepSimpleConnect ==
    ASSUME TransportInductive, SimpleConnect
    PROVE  TransportInductive'
<1> DEFINE c == IF client.connected THEN Disconnect(client) ELSE client
<1>1. /\ kind = "simple" /\ call.pc = "idle" /\ kind' = kind /\ server' = server /\ call' = call
      /\ \/ NewExchange(c, None, <<>>)
         \/ client' = Refused(c) /\ exchange' = exchange
  BY Zenon DEF SimpleConnect
<1>2. call.failed \in Nat /\ call.id \in 0..MaxCalls /\ MaxCalls \in Nat
  BY TransportBounds DEF TransportInductive, CallTypes
<1>3. c.open \subseteq client.open /\ Cardinality(c.open) <= call.failed
  <2>1. CASE client.connected
    <3>1. c = Disconnect(client)
      BY <2>1
    <3> HIDE DEF c
    <3> QED
      BY <3>1, Disconnected
  <2>2. CASE ~client.connected
    <3>1. client.open \ (IF client.connected THEN {client.current} ELSE {}) = client.open
      BY <2>2
    <3>2. Cardinality(client.open) <= call.failed
      BY <3>1, Zenon DEF TransportInductive, ClientSide
    <3> QED
      BY <2>2, <3>2
  <2> QED
    BY <2>1, <2>2
<1> HIDE DEF c
<1>4. CallGoesOn
  BY <1>1, Zenon DEF CallGoesOn
<1>5. CASE NewExchange(c, None, <<>>)
  <2>1. /\ Exchanges' /\ ClientSide'
        /\ client'.current \in DOMAIN exchange'
        /\ exchange'[client'.current].call = None /\ exchange'[client'.current].phase = "queued"
        /\ \A i \in DOMAIN exchange : i \in DOMAIN exchange' /\ exchange'[i] = exchange[i]
        /\ \A i \in DOMAIN exchange' : i \in DOMAIN exchange \/ i = client'.current
    <3>1. None \in -1..call.id /\ ~(None = call.id /\ None > 0)
      BY <1>2 DEF None
    <3> QED
      BY <1>1, <1>3, <1>4, <1>5, <3>1, ExchangeStarts
  <2>2. CallRests
    BY <1>1, <2>1, Zenon DEF CallRests
  <2>3. CallTypes' /\ CallSide' /\ Answered' /\ HealthyCallsSucceed'
    BY <2>2, CallStays
  <2>4. Sides' /\ StoppedServerIsQuiet'
    <3>1. kind # "grpc"
      BY <1>1
    <3> QED
      BY <1>1, <3>1, Zenon DEF TransportInductive, Sides, StoppedServerIsQuiet
  <2> QED
    BY <2>1, <2>3, <2>4 DEF TransportInductive
<1>6. CASE client' = Refused(c) /\ exchange' = exchange
  <2>1. Exchanges' /\ CallTypes' /\ CallSide' /\ Answered' /\ HealthyCallsSucceed'
    BY <1>1, <1>6, OnlyClientChanges
  <2>2. ClientSide'
    <3>1. Len(exchange) \in Nat
      BY ExchangesAreSequence, Zenon DEF TransportInductive
    <3>2. client.open \subseteq DOMAIN exchange
      BY DEF TransportInductive, ClientSide
    <3>3. client' = [connected |-> FALSE, current |-> None, rest |-> FALSE, open |-> c.open]
      BY <1>6 DEF Refused
    <3>4. client' \in [connected : BOOLEAN, current : 0..Len(exchange), open : SUBSET DOMAIN exchange, rest : BOOLEAN]
      BY <1>3, <3>1, <3>2, <3>3 DEF None
    <3>5. /\ client'.connected = FALSE /\ client'.open = c.open
          /\ client'.open \ (IF client'.connected THEN {client'.current} ELSE {}) = c.open
      BY <3>3
    <3>6. \A i \in client'.open : exchange[i].call = None => exchange[i].phase # "done"
      BY <1>3, <3>5 DEF TransportInductive, ClientSide
    <3>7. kind # "grpc"
      BY <1>1
    <3> QED
      BY <1>1, <1>3, <1>6, <3>4, <3>5, <3>6, <3>7, Zenon DEF ClientSide
  <2>3. Sides' /\ StoppedServerIsQuiet'
    BY <1>1, <1>6, Zenon DEF TransportInductive, Sides, StoppedServerIsQuiet
  <2> QED
    BY <2>1, <2>2, <2>3 DEF TransportInductive
<1> QED
  BY <1>1, <1>5, <1>6

\* The client gives up the connection at a time-out.
LEMMA StepSimpleTimeout ==
    ASSUME TransportInductive, SimpleTimeout
    PROVE  TransportInductive'
<1> DEFINE c == [client EXCEPT !.connected = FALSE]
<1>1. /\ kind = "simple" /\ call.pc = "wait" /\ AttemptFailed(c, TRUE)
      /\ kind' = kind /\ server' = server /\ exchange' = exchange
  BY Zenon DEF SimpleTimeout
<1>2. client \in [connected : BOOLEAN, current : 0..Len(exchange), open : SUBSET DOMAIN exchange, rest : BOOLEAN]
  BY DEF TransportInductive, ClientSide
<1>3. /\ c \in [connected : BOOLEAN, current : 0..Len(exchange), open : SUBSET DOMAIN exchange, rest : BOOLEAN]
      /\ c.open = client.open /\ c.current = client.current /\ ~c.connected
  BY <1>2
<1> HIDE DEF c
<1>4. call.pc # "idle" /\ TRUE \in BOOLEAN
  BY <1>1
<1> QED
  BY <1>1, <1>3, <1>4, AttemptEnds

\* The client reads an answer, or the beginning of one.
LEMMA StepSimpleReceive ==
    ASSUME TransportInductive, SimpleReceive
    PROVE  TransportInductive'
<1> DEFINE e == exchange[client.current]
<1>1. /\ kind = "simple" /\ call.pc = "wait" /\ kind' = kind /\ server' = server /\ exchange' = exchange
      /\ call.pc # "idle"
  BY DEF SimpleReceive
<1>2. client \in [connected : BOOLEAN, current : 0..Len(exchange), open : SUBSET DOMAIN exchange, rest : BOOLEAN]
  BY DEF TransportInductive, ClientSide
<1>3. /\ DOMAIN call = CallFields /\ call.fault \in BOOLEAN /\ call.failed \in Nat
      /\ call.id > 0 /\ call.method \in {"RequestVote", "AppendEntries"}
  BY <1>1 DEF TransportInductive, CallTypes, IsCall
<1>4. client.current \in DOMAIN exchange /\ e.call = call.id
  BY <1>1, Zenon DEF TransportInductive, CallSide
<1>5. Mine(e, call) /\ ExchangeOK(e, kind, call, Sent, Replied)
  BY <1>3, <1>4, Zenon DEF TransportInductive, Exchanges, Mine
<1>6. ASSUME e.status = "error", AttemptFailed(client, FALSE)
      PROVE  TransportInductive'
  <2>1. call.fault
    BY <1>5, <1>6, Zenon DEF ExchangeOK
  <2> QED
    BY <1>1, <1>2, <1>6, <2>1, AttemptEnds
<1>7. ASSUME e.status = "ok", NEW t \in Received(e.reply), NEW c, c = [client EXCEPT !.rest = t # e.reply],
             NEW reply, reply = DecodeReply(call.method, t),
             IF reply = Thrown THEN AttemptFailed(c, TRUE)
             ELSE client' = c /\ call' = [Return(TRUE) EXCEPT !.reply = reply]
      PROVE  TransportInductive'
  <2>1. /\ c \in [connected : BOOLEAN, current : 0..Len(exchange), open : SUBSET DOMAIN exchange, rest : BOOLEAN]
        /\ c.open = client.open /\ c.current = client.current /\ c.connected = client.connected
        /\ DOMAIN c = DOMAIN client /\ c = [f \in DOMAIN client |-> c[f]] /\ c.rest \in BOOLEAN
    <3> DEFINE b == (t # e.reply)
    <3>1. b \in BOOLEAN /\ c = [client EXCEPT !.rest = b]
      BY <1>7
    <3> HIDE DEF b
    <3> QED
      BY <1>2, <3>1
  <2>2. CASE reply = Thrown
    <3>1. AttemptFailed(c, TRUE) /\ TRUE \in BOOLEAN
      BY <1>7, <2>2, Zenon
    <3> HIDE DEF e
    <3> QED
      BY <1>1, <2>1, <3>1, AttemptEnds
  <2>3. CASE reply # Thrown
    <3>1. client' = c /\ call' = [Return(TRUE) EXCEPT !.reply = reply]
      BY <1>7, <2>3, Zenon
    <3>2. PICK r \in Replies(call.method) : e.reply = EncodeReply(call.method, r)
      BY <1>5, <1>7, Zenon DEF ExchangeOK, Replied
    <3>3. RepliedRight(kind, call.method, reply, r)
      <4>1. kind \in {"grpc", "simple"}
        BY <1>1
      <4>2. \A u \in Received(EncodeReply(call.method, r)) : kind = "simple" =>
              DecodeReply(call.method, u) = Thrown
              \/ RepliedRight(kind, call.method, DecodeReply(call.method, u), r)
        BY <1>3, <4>1, RepliesArrive
      <4> QED
        BY <1>1, <1>7, <2>3, <3>2, <4>2, Zenon
    <3>4. /\ DOMAIN call' = CallFields /\ call'.id = call.id /\ call'.method = call.method
          /\ call'.args = call.args /\ call'.attempt = call.attempt /\ call'.pc = "idle"
          /\ call'.result = TRUE /\ call'.fault = call.fault /\ call'.failed = call.failed + 0
          /\ call'.reply = reply
      BY <1>3, <3>1 DEF Return, CallFields
    <3>5. \E i \in DOMAIN exchange : \E s \in Replies(call.method) :
            /\ exchange[i].call = call.id /\ exchange[i].status = "ok"
            /\ exchange[i].reply = EncodeReply(call.method, s)
            /\ RepliedRight(kind, call.method, call'.reply, s)
      BY <1>4, <1>7, <3>2, <3>3, <3>4, Zenon
    <3>6. /\ DOMAIN client' = DOMAIN client /\ client' = [f \in DOMAIN client |-> client'[f]]
          /\ client'.connected = client.connected /\ client'.current = client.current
          /\ client'.open = client.open /\ client'.rest \in BOOLEAN
      BY <2>1, <3>1, Zenon
    <3>7. call'.fault \in BOOLEAN /\ (call.fault => call'.fault) /\ TRUE \in BOOLEAN
      BY <1>3, <3>4, Zenon
    <3>8. call'.failed = call.failed + (IF TRUE THEN 0 ELSE 1)
      BY <3>4, Zenon
    <3> HIDE DEF e
    <3> QED
      BY <1>1, <3>4, <3>5, <3>6, <3>7, <3>8, CallIsOver, Zenon
  <2> QED
    BY <2>2, <2>3
<1>8. \/ e.status = "error" /\ AttemptFailed(client, FALSE)
      \/ /\ e.status = "ok"
         /\ \E t \in Received(e.reply) :
              IF DecodeReply(call.method, t) = Thrown
              THEN AttemptFailed([client EXCEPT !.rest = t # e.reply], TRUE)
              ELSE /\ client' = [client EXCEPT !.rest = t # e.reply]
                   /\ call' = [Return(TRUE) EXCEPT !.reply = DecodeReply(call.method, t)]
  BY Zenon DEF SimpleReceive
<1> HIDE DEF e
<1> QED
  BY <1>6, <1>7, <1>8, Zenon

\* The request goes over a connection that was made before.
LEMMA ConnectionIsUsed ==
    ASSUME TransportInductive, kind = "simple", call.pc = "try", client.connected,
           exchange[client.current].call = None,
           exchange' = [exchange EXCEPT ![client.current].call = call.id,
                                        ![client.current].method = call.method,
                                        ![client.current].request = Sent],
           call' = [call EXCEPT !.pc = "wait"], client' = client, kind' = kind, server' = server
    PROVE  TransportInductive'
<1> DEFINE i == client.current
           e == exchange[i]
           d == exchange'[i]
<1>1. /\ DOMAIN call = CallFields /\ call.id \in 0..MaxCalls /\ call.id > 0 /\ MaxCalls \in Nat
  BY TransportBounds DEF TransportInductive, CallTypes
<1>2. /\ DOMAIN call' = CallFields /\ call'.id = call.id /\ call'.method = call.method
      /\ call'.args = call.args /\ call'.attempt = call.attempt /\ call'.pc = "wait"
      /\ call'.result = call.result /\ call'.fault = call.fault /\ call'.failed = call.failed
  BY <1>1 DEF CallFields
<1>3. CallGoesOn
  BY <1>2, Zenon DEF CallGoesOn
<1>4. i \in client.open /\ i \in DOMAIN exchange /\ e.phase # "done"
  <2>1. /\ client \in [connected : BOOLEAN, current : 0..Len(exchange), open : SUBSET DOMAIN exchange, rest : BOOLEAN]
        /\ i \in client.open
        /\ \A j \in client.open : exchange[j].call = None => exchange[j].phase # "done"
    BY Zenon DEF TransportInductive, ClientSide
  <2>2. client.open \in SUBSET DOMAIN exchange
    BY <2>1
  <2> QED
    BY <2>1, <2>2
<1>5. /\ DOMAIN e = ExchangeFields /\ e.got = Thrown /\ e.status = "none"
      /\ e.phase \in {"queued", "accepted", "done", "reset"}
  <2>1. ExchangeOK(e, kind, call, Sent, Replied)
    BY <1>4, Zenon DEF TransportInductive, Exchanges
  <2> QED
    BY <2>1, Zenon DEF ExchangeOK
<1>6. /\ DOMAIN exchange' = DOMAIN exchange /\ exchange' = [j \in DOMAIN exchange' |-> exchange'[j]]
      /\ \A j \in DOMAIN exchange : j # i => exchange'[j] = exchange[j]
      /\ d = [[[e EXCEPT !.call = call.id] EXCEPT !.method = call.method] EXCEPT !.request = Sent]
  <2>1. exchange = [j \in DOMAIN exchange |-> exchange[j]]
    BY ExchangesAreSequence, Zenon DEF TransportInductive
  <2> DEFINE q == Sent
             m == call.method
             n == call.id
  <2>2. exchange' = [exchange EXCEPT ![i].call = n, ![i].method = m, ![i].request = q]
    OBVIOUS
  <2> HIDE DEF q, m, n
  <2> DEFINE x == [exchange EXCEPT ![i].call = n]
             y == [x EXCEPT ![i].method = m]
             z == [y EXCEPT ![i].request = q]
  <2>3. exchange' = z
    BY <2>2
  <2>4. /\ DOMAIN x = DOMAIN exchange /\ \A j \in DOMAIN exchange : j # i => x[j] = exchange[j]
        /\ x[i] = [e EXCEPT !.call = n]
    BY <1>4
  <2> HIDE DEF x
  <2>5. /\ DOMAIN y = DOMAIN x /\ \A j \in DOMAIN x : j # i => y[j] = x[j]
        /\ y[i] = [x[i] EXCEPT !.method = m]
    BY <1>4, <2>4
  <2> HIDE DEF y
  <2>6. /\ DOMAIN z = DOMAIN y /\ \A j \in DOMAIN y : j # i => z[j] = y[j]
        /\ z[i] = [y[i] EXCEPT !.request = q] /\ z = [j \in DOMAIN z |-> z[j]]
    BY <1>4, <2>4, <2>5
  <2> HIDE DEF z
  <2>7. /\ DOMAIN exchange' = DOMAIN exchange /\ exchange' = [j \in DOMAIN exchange' |-> exchange'[j]]
        /\ \A j \in DOMAIN exchange : j # i => exchange'[j] = exchange[j]
        /\ d = [[[e EXCEPT !.call = n] EXCEPT !.method = m] EXCEPT !.request = q]
    <3>1. y[i] = [[e EXCEPT !.call = n] EXCEPT !.method = m]
      BY <2>4, <2>5, Zenon
    <3>2. z[i] = [[[e EXCEPT !.call = n] EXCEPT !.method = m] EXCEPT !.request = q]
      BY <2>6, <3>1, Zenon
    <3>3. DOMAIN z = DOMAIN exchange
      BY <2>4, <2>5, <2>6, Zenon
    <3>4. \A j \in DOMAIN exchange : j # i => z[j] = exchange[j]
      BY <2>4, <2>5, <2>6, Zenon
    <3> QED
      BY <2>3, <2>6, <3>2, <3>3, <3>4, Zenon
  <2> QED
    BY <2>7 DEF q, m, n
<1> HIDE DEF d, e
<1>7. /\ DOMAIN d = ExchangeFields /\ d.call = call.id /\ d.method = call.method /\ d.request = Sent
      /\ d.phase = e.phase /\ d.got = Thrown /\ d.status = "none"
  BY <1>5, <1>6 DEF ExchangeFields
<1> HIDE DEF i
<1>8. Exchanges'
  <2>1. IsSequence(exchange')
    <3>1. IsSequence(exchange)
      BY Zenon DEF TransportInductive, Exchanges
    <3> QED
      BY <1>6, <3>1, ExchangesReplaced
  <2>2. ExchangeOK(d, kind, call', Sent, Replied)
    <3>1. d.call \in -1..call'.id /\ d.call # None
      BY <1>1, <1>2, <1>7 DEF None
    <3> QED
      BY <1>2, <1>5, <1>7, <3>1 DEF ExchangeOK
  <2>3. \A j \in DOMAIN exchange' : \/ j \in DOMAIN exchange /\ exchange'[j] = exchange[j]
                                    \/ ExchangeOK(exchange'[j], kind, call', Sent, Replied)
    BY <1>6, <2>2, Zenon DEF d
  <2> QED
    BY <1>3, <2>1, <2>3, ExchangesStayRight, Zenon DEF TransportInductive
<1>9. ClientSide'
  <2>1. Len(exchange') = Len(exchange)
    <3>1. IsSequence(exchange)
      BY Zenon DEF TransportInductive, Exchanges
    <3> QED
      BY <1>6, <3>1, ExchangesReplaced
  <2>2. \A j \in client.open : exchange'[j].call = None =>
          exchange[j].call = None /\ (exchange'[j].phase = "done" => exchange[j].phase = "done")
    <3>1. client.open \subseteq DOMAIN exchange
      BY DEF TransportInductive, ClientSide
    <3>2. d.call # None
      BY <1>1, <1>7 DEF None
    <3> QED
      BY <1>6, <3>1, <3>2, Zenon DEF d
  <2> QED
    BY <1>2, <1>6, <2>1, <2>2, ClientStays, Zenon DEF TransportInductive
<1>10. CallTypes'
  <2>1. IsCall(call'.method, call'.args)
    BY <1>2, Zenon DEF TransportInductive, CallTypes, IsCall
  <2> QED
    BY <1>1, <1>2, <2>1, Zenon DEF TransportInductive, CallTypes
<1>11. CallSide'
  <2>1. \A x : Mine(x, call') <=> Mine(x, call)
    BY <1>2 DEF Mine
  <2>2. call'.pc # "try" /\ kind' # "grpc"
    BY <1>2
  <2>3. ~call.fault => \A j, k \in DOMAIN exchange' : Mine(exchange'[j], call) /\ Mine(exchange'[k], call) => j = k
    <3>1. SUFFICES ASSUME ~call.fault
                   PROVE  \A j \in DOMAIN exchange' : Mine(exchange'[j], call) => j = i
      BY Zenon
    <3>2. \A j \in DOMAIN exchange : ~Mine(exchange[j], call)
      BY <3>1, Zenon DEF TransportInductive, CallSide
    <3> QED
      BY <1>6, <3>2, Zenon
  <2>4. client'.current \in DOMAIN exchange' /\ exchange'[client'.current].call = call.id
    BY <1>4, <1>6, <1>7, Zenon DEF i, d
  <2>5. exchange'[client'.current].call = call'.id
    BY <1>2, <2>4, Zenon
  <2>6. ~call'.fault => \A j, k \in DOMAIN exchange' : Mine(exchange'[j], call') /\ Mine(exchange'[k], call') => j = k
    <3>1. ~call'.fault => ~call.fault
      BY <1>2, Zenon
    <3>2. ASSUME ~call'.fault, NEW j \in DOMAIN exchange', NEW k \in DOMAIN exchange',
                 Mine(exchange'[j], call'), Mine(exchange'[k], call')
          PROVE  j = k
      <4>1. Mine(exchange'[j], call) /\ Mine(exchange'[k], call)
        BY <2>1, <3>2
      <4> QED
        BY <2>3, <3>1, <3>2, <4>1
    <3> QED
      BY <3>2
  <2> QED
    BY <2>2, <2>4, <2>5, <2>6, Zenon DEF CallSide
<1>12. Answered' /\ HealthyCallsSucceed'
  BY <1>2 DEF Answered, HealthyCallsSucceed, Returned
<1>13. Sides' /\ StoppedServerIsQuiet'
  <2>1. kind # "grpc"
    OBVIOUS
  <2> QED
    BY <2>1, Zenon DEF TransportInductive, Sides, StoppedServerIsQuiet
<1> QED
  BY <1>8, <1>9, <1>10, <1>11, <1>12, <1>13 DEF TransportInductive

\* sendRequest, up to recv.
LEMMA StepSimpleSend ==
    ASSUME TransportInductive, SimpleSend
    PROVE  TransportInductive'
<1>1. /\ kind = "simple" /\ call.pc = "try" /\ kind' = kind /\ server' = server /\ call.pc # "idle"
  BY DEF SimpleSend
<1>2. /\ client \in [connected : BOOLEAN, current : 0..Len(exchange), open : SUBSET DOMAIN exchange, rest : BOOLEAN]
      /\ Cardinality(client.open \ (IF client.connected THEN {client.current} ELSE {})) <= call.failed
  BY Zenon DEF TransportInductive, ClientSide
<1>3. CASE ~client.connected /\ NewExchange(client, call.id, Sent) /\ call' = [call EXCEPT !.pc = "wait"]
  <2>1. client.open \ (IF client.connected THEN {client.current} ELSE {}) = client.open
    BY <1>3
  <2>2. Cardinality(client.open) <= call.failed /\ client.open \subseteq client.open
    BY <1>2, <2>1
  <2> QED
    BY <1>1, <1>3, <2>2, ExchangeSent
<1>4. CASE ~client.connected /\ AttemptFailed(Refused(client), TRUE) /\ exchange' = exchange
  <2> DEFINE c == Refused(client)
  <2>1. Len(exchange) \in Nat
    BY ExchangesAreSequence, Zenon DEF TransportInductive
  <2>2. /\ c \in [connected : BOOLEAN, current : 0..Len(exchange), open : SUBSET DOMAIN exchange, rest : BOOLEAN]
        /\ c.open = client.open /\ ~c.connected
    BY <1>2, <2>1 DEF Refused, None
  <2> HIDE DEF c
  <2>3. AttemptFailed(c, TRUE) /\ TRUE \in BOOLEAN
    BY <1>4 DEF c
  <2> QED
    BY <1>1, <1>4, <2>2, <2>3, AttemptEnds
<1>5. CASE /\ client.connected /\ exchange[client.current].call = None
           /\ exchange' = [exchange EXCEPT ![client.current].call = call.id,
                                           ![client.current].method = call.method,
                                           ![client.current].request = Sent]
           /\ call' = [call EXCEPT !.pc = "wait"] /\ client' = client
  BY <1>1, <1>5, ConnectionIsUsed
<1>6. CASE client.connected /\ AttemptFailed([client EXCEPT !.connected = FALSE], FALSE) /\ exchange' = exchange
  <2> DEFINE c == [client EXCEPT !.connected = FALSE]
  <2>1. /\ c \in [connected : BOOLEAN, current : 0..Len(exchange), open : SUBSET DOMAIN exchange, rest : BOOLEAN]
        /\ c.open = client.open /\ c.current = client.current /\ ~c.connected
    BY <1>2
  <2> HIDE DEF c
  <2>2. AttemptFailed(c, FALSE) /\ FALSE \in BOOLEAN
    BY <1>6 DEF c
  <2> QED
    BY <1>1, <1>6, <2>1, <2>2, AttemptEnds
<1>7. CASE client.connected /\ AttemptFailed([client EXCEPT !.rest = FALSE], FALSE) /\ exchange' = exchange
  <2> DEFINE c == [client EXCEPT !.rest = FALSE]
  <2>1. /\ c \in [connected : BOOLEAN, current : 0..Len(exchange), open : SUBSET DOMAIN exchange, rest : BOOLEAN]
        /\ c.open = client.open /\ c.current = client.current
    BY <1>2
  <2> HIDE DEF c
  <2>2. AttemptFailed(c, FALSE) /\ FALSE \in BOOLEAN
    BY <1>7 DEF c
  <2> QED
    BY <1>1, <1>7, <2>1, <2>2, AttemptEnds
<1> QED
  BY <1>3, <1>4, <1>5, <1>6, <1>7, Zenon DEF SimpleSend, Sent

\* A handler ends.
LEMMA HandlerEnds ==
    ASSUME TransportInductive, NEW i \in DOMAIN exchange, exchange[i].phase = "accepted",
           NEW status \in {"none", "ok", "error"}, NEW args, NEW reply, NEW fault \in BOOLEAN,
           Finish(i, status, args, reply, fault),
           exchange[i].call = None => status = "none" /\ args = Thrown /\ i \notin client.open,
           exchange[i].call # None => status # "none",
           Mine(exchange[i], call) => /\ args # Thrown => GotRight(kind, call.method, call.args, args)
                                      /\ status = "ok" => reply \in Replied
                                      /\ status = "error" => fault
    PROVE  TransportInductive'
<1> DEFINE e == exchange[i]
           d == exchange'[i]
<1>1. /\ kind' = kind /\ server' = server /\ client' = client
      /\ call' = IF e.call = call.id THEN [call EXCEPT !.fault = @ \/ fault] ELSE call
      /\ exchange' = [exchange EXCEPT ![i] =
           IF @.call \notin {None, call.id} THEN Over
           ELSE IF i # client.current THEN [Over EXCEPT !.call = exchange[i].call, !.got = args]
           ELSE [@ EXCEPT !.phase = "done", !.status = status, !.got = args, !.reply = reply]]
  BY Zenon DEF Finish
<1>2. /\ DOMAIN call = CallFields /\ call.fault \in BOOLEAN /\ call.id \in 0..MaxCalls
      /\ call.pc # "idle" => call.id > 0
  BY DEF TransportInductive, CallTypes
<1>3. /\ DOMAIN call' = CallFields /\ call'.id = call.id /\ call'.method = call.method /\ call'.pc = call.pc
      /\ call'.args = call.args /\ call'.attempt = call.attempt /\ call'.reply = call.reply
      /\ call'.result = call.result /\ call'.failed = call.failed
  BY <1>1, <1>2 DEF CallFields
<1>4. /\ call'.fault \in BOOLEAN /\ (call.fault => call'.fault)
      /\ Mine(e, call) /\ fault => call'.fault
  BY <1>1, <1>2 DEF CallFields, Mine
<1>5. CallGoesOn
  BY <1>1, <1>3, <1>4, Zenon DEF CallGoesOn
<1>6. ExchangeOK(e, kind, call, Sent, Replied)
  BY Zenon DEF TransportInductive, Exchanges
<1>7. /\ DOMAIN exchange' = DOMAIN exchange /\ exchange' = [j \in DOMAIN exchange' |-> exchange'[j]]
      /\ \A j \in DOMAIN exchange : j # i => exchange'[j] = exchange[j]
      /\ d = IF e.call \notin {None, call.id} THEN Over
             ELSE IF i # client.current THEN [Over EXCEPT !.call = e.call, !.got = args]
             ELSE [e EXCEPT !.phase = "done", !.status = status, !.got = args, !.reply = reply]
  <2>1. exchange = [j \in DOMAIN exchange |-> exchange[j]]
    BY ExchangesAreSequence, Zenon DEF TransportInductive
  <2> DEFINE f == IF e.call \notin {None, call.id} THEN Over
                  ELSE IF i # client.current THEN [Over EXCEPT !.call = e.call, !.got = args]
                  ELSE [e EXCEPT !.phase = "done", !.status = status, !.got = args, !.reply = reply]
  <2>2. exchange' = [exchange EXCEPT ![i] = f]
    BY <1>1, Zenon
  <2> HIDE DEF f
  <2>3. /\ DOMAIN exchange' = DOMAIN exchange /\ exchange' = [j \in DOMAIN exchange' |-> exchange'[j]]
        /\ \A j \in DOMAIN exchange : j # i => exchange'[j] = exchange[j]
        /\ d = f
    BY <2>1, <2>2
  <2> QED
    BY <2>3 DEF f
<1>8. DOMAIN e = ExchangeFields /\ e.call \in -1..call.id /\ (e.call = None => kind = "simple")
  BY <1>6, Zenon DEF ExchangeOK
<1>9. /\ DOMAIN Over = ExchangeFields /\ Over.call = -1 /\ Over.phase = "done" /\ Over.got = Thrown
      /\ Over.status = "none"
  BY DEF Over, ExchangeFields
<1> HIDE DEF e
<1>10. /\ DOMAIN d = ExchangeFields /\ d.phase = "done" /\ d.call \in -1..call.id
       /\ d.call = e.call \/ (d.call = -1 /\ e.call # call.id)
       /\ d.got = args \/ (d.got = Thrown /\ d.call = -1)
       /\ \/ d.status = status /\ d.reply = reply /\ i = client.current
          \/ d.status = "none" /\ (i # client.current \/ e.call # call.id)
  <2>1. CASE e.call \notin {None, call.id}
    <3>1. d = Over
      BY <1>7, <2>1, Zenon
    <3>2. -1 \in -1..call.id
      BY <1>2
    <3> QED
      BY <1>9, <2>1, <3>1, <3>2
  <2>2. CASE e.call \in {None, call.id} /\ i # client.current
    <3>1. d = [Over EXCEPT !.call = e.call, !.got = args]
      BY <1>7, <2>2, Zenon
    <3> HIDE DEF d
    <3>2. DOMAIN d = ExchangeFields /\ d.phase = "done" /\ d.call = e.call /\ d.got = args /\ d.status = "none"
      BY <1>9, <3>1 DEF ExchangeFields
    <3> QED
      BY <1>8, <2>2, <3>2
  <2>3. CASE e.call \in {None, call.id} /\ i = client.current
    <3>1. d = [e EXCEPT !.phase = "done", !.status = status, !.got = args, !.reply = reply]
      BY <1>7, <2>3, Zenon
    <3> HIDE DEF d
    <3>2. /\ DOMAIN d = ExchangeFields /\ d.phase = "done" /\ d.call = e.call /\ d.got = args
          /\ d.status = status /\ d.reply = reply
      BY <1>8, <3>1 DEF ExchangeFields
    <3> QED
      BY <1>8, <2>3, <3>2
  <2> QED
    BY <2>1, <2>2, <2>3
<1> HIDE DEF d
<1>11. Mine(d, call) => Mine(e, call)
  BY <1>10 DEF Mine
<1>12. ExchangeOK(d, kind, call', Sent, Replied)
  <2>1. Mine(d, call') => Mine(d, call)
    BY <1>3 DEF Mine
  <2>2. d.call = None => e.call = None
    BY <1>10 DEF None
  <2>3. /\ e.call = None => status = "none" /\ args = Thrown
        /\ Mine(e, call) => /\ args # Thrown => GotRight(kind, call.method, call.args, args)
                            /\ status = "ok" => reply \in Replied
                            /\ status = "error" => fault
    BY Zenon DEF e
  <2>4. d.call = None => d.got = Thrown /\ d.status = "none" /\ kind = "simple"
    BY <1>8, <1>10, <2>2, <2>3
  <2>5. d.status \in {"none", "ok", "error"} /\ d.phase \in {"queued", "accepted", "done", "reset"}
    BY <1>10
  <2>6. ASSUME Mine(d, call)
        PROVE  /\ d.phase \notin {"queued", "accepted"}
               /\ d.got # Thrown => GotRight(kind, call.method, call.args, d.got)
               /\ d.status = "ok" => d.reply \in Replied
               /\ d.status = "error" => call'.fault
    <3>1. Mine(e, call)
      BY <1>11, <2>6
    <3>2. d.phase \notin {"queued", "accepted"} /\ "none" # "ok" /\ "none" # "error"
      BY <1>10
    <3>3. d.got # Thrown => d.got = args
      BY <1>10, Zenon
    <3> QED
      BY <1>4, <1>10, <2>3, <3>1, <3>2, <3>3, Zenon
  <2> QED
    BY <1>3, <1>10, <2>1, <2>4, <2>5, <2>6, Zenon DEF ExchangeOK
<1>13. /\ IsSequence(exchange') /\ Len(exchange') = Len(exchange)
  <2>1. IsSequence(exchange)
    BY Zenon DEF TransportInductive, Exchanges
  <2> QED
    BY <1>7, <2>1, ExchangesReplaced
<1>14. Exchanges'
  <2>1. \A j \in DOMAIN exchange' : \/ j \in DOMAIN exchange /\ exchange'[j] = exchange[j]
                                    \/ ExchangeOK(exchange'[j], kind, call', Sent, Replied)
    BY <1>7, <1>12, Zenon DEF d
  <2> QED
    BY <1>5, <1>13, <2>1, ExchangesStayRight, Zenon DEF TransportInductive
<1>15. ClientSide'
  <2>1. client.open \subseteq DOMAIN exchange
    BY DEF TransportInductive, ClientSide
  <2>2. d.call = None => i \notin client.open
    BY <1>10 DEF None, e
  <2>3. \A j \in client.open : exchange'[j].call = None =>
          exchange[j].call = None /\ (exchange'[j].phase = "done" => exchange[j].phase = "done")
    BY <1>7, <2>1, <2>2, Zenon DEF d
  <2> QED
    BY <1>1, <1>3, <1>7, <1>13, <2>3, ClientStays, Zenon DEF TransportInductive
<1>16. CallTypes'
  <2>1. IsCall(call'.method, call'.args)
    BY <1>3, Zenon DEF TransportInductive, CallTypes, IsCall
  <2> QED
    BY <1>3, <1>4, <2>1, Zenon DEF TransportInductive, CallTypes
<1>17. ASSUME NEW j \in DOMAIN exchange', Mine(exchange'[j], call')
       PROVE  j \in DOMAIN exchange /\ Mine(exchange[j], call)
  <2>1. Mine(exchange'[j], call)
    BY <1>3, <1>17, Zenon DEF Mine
  <2> QED
    BY <1>7, <1>11, <2>1, Zenon DEF d, e
<1>18. CallSide'
  <2>1. call'.pc = "try" /\ call'.attempt > 0 /\ kind = "simple" => ~client.connected
    BY <1>3, Zenon DEF TransportInductive, CallSide
  <2>2. kind = "grpc" \/ ~call'.fault =>
          /\ call'.pc = "try" => \A j \in DOMAIN exchange' : ~Mine(exchange'[j], call')
          /\ \A j, k \in DOMAIN exchange' : Mine(exchange'[j], call') /\ Mine(exchange'[k], call') => j = k
    BY <1>3, <1>4, <1>17, Zenon DEF TransportInductive, CallSide
  <2>3. ASSUME call.pc = "wait"
        PROVE  /\ client.current \in DOMAIN exchange' /\ exchange'[client.current].call = call.id
               /\ kind = "grpc" /\ exchange'[client.current].phase = "done"
                  => exchange'[client.current].status # "none"
    <3>1. /\ client.current \in DOMAIN exchange /\ exchange[client.current].call = call.id
          /\ kind = "grpc" /\ exchange[client.current].phase = "done" => exchange[client.current].status # "none"
      BY <2>3, Zenon DEF TransportInductive, CallSide
    <3>2. CASE client.current # i
      BY <1>7, <3>1, <3>2, Zenon
    <3>3. CASE client.current = i
      <4>1. e.call = call.id /\ e.call # None
        <5>1. call.id > 0
          BY <1>2, <2>3
        <5> QED
          BY <1>2, <3>1, <3>3, <5>1 DEF None, e
      <4>2. status # "none"
        BY <4>1 DEF e
      <4>3. d.call = call.id /\ d.status # "none"
        BY <1>10, <3>3, <4>1, <4>2
      <4> QED
        BY <1>7, <3>1, <3>3, <4>3, Zenon DEF d
    <3> QED
      BY <3>2, <3>3
  <2> QED
    BY <1>1, <1>3, <2>1, <2>2, <2>3, Zenon DEF CallSide
<1>19. Answered'
  <2>1. SUFFICES ASSUME call.id > 0, call.pc = "idle", call.result
                 PROVE  \E j \in DOMAIN exchange' : \E r \in Replies(call.method) :
                          /\ exchange'[j].call = call.id /\ exchange'[j].status = "ok"
                          /\ exchange'[j].reply = EncodeReply(call.method, r)
                          /\ RepliedRight(kind, call.method, call.reply, r)
    BY <1>1, <1>3 DEF Answered, Returned, EncodeReply
  <2>2. PICK j \in DOMAIN exchange : \E r \in Replies(call.method) :
          /\ exchange[j].call = call.id /\ exchange[j].status = "ok"
          /\ exchange[j].reply = EncodeReply(call.method, r)
          /\ RepliedRight(kind, call.method, call.reply, r)
    BY <2>1, Zenon DEF TransportInductive, Answered, Returned
  <2>3. j # i
    <3>1. ExchangeOK(exchange[j], kind, call, Sent, Replied)
      BY Zenon DEF TransportInductive, Exchanges
    <3>2. "ok" # "none" /\ "accepted" # "done"
      OBVIOUS
    <3> QED
      BY <2>2, <3>1, <3>2, Zenon DEF ExchangeOK
  <2> QED
    BY <1>7, <2>2, <2>3, Zenon
<1>20. HealthyCallsSucceed'
  BY <1>3, <1>4, Zenon DEF TransportInductive, HealthyCallsSucceed, Returned
<1>21. Sides' /\ StoppedServerIsQuiet'
  <2>1. \A j \in DOMAIN exchange' : j \in DOMAIN exchange /\
          (exchange'[j].phase = "accepted" => exchange[j].phase = "accepted")
    BY <1>7, Zenon
  <2> QED
    BY <1>1, <2>1, Zenon DEF TransportInductive, Sides, StoppedServerIsQuiet
<1> QED
  BY <1>14, <1>15, <1>16, <1>18, <1>19, <1>20, <1>21 DEF TransportInductive

\* A handler of RaftNode takes what has arrived, or the server answers with an error.
LEMMA StepHandle ==
    ASSUME TransportInductive, NEW i \in DOMAIN exchange, Handle(i)
    PROVE  TransportInductive'
<1> DEFINE e == exchange[i]
<1>1. e.phase = "accepted" /\ e.call # None
  BY Zenon DEF Handle
<1>2. ExchangeOK(e, kind, call, Sent, Replied)
  BY Zenon DEF TransportInductive, Exchanges
<1>3. kind \in {"grpc", "simple"}
  BY DEF TransportInductive, Sides
<1>4. IsCall(call.method, call.args)
  BY Zenon DEF TransportInductive, CallTypes
<1>5. Mine(e, call) => e.method = call.method /\ e.request = Sent
  <2>1. e.phase \in {"queued", "accepted"}
    BY <1>1
  <2> QED
    BY <1>2, <2>1, Zenon DEF ExchangeOK
<1>6. ASSUME Finish(i, "error", Thrown, <<>>, TRUE)
      PROVE  TransportInductive'
  <2>1. /\ "error" \in {"none", "ok", "error"} /\ "error" # "none" /\ "error" # "ok" /\ TRUE \in BOOLEAN
    OBVIOUS
  <2> DEFINE empty == <<>>
  <2>2. Finish(i, "error", Thrown, empty, TRUE)
    BY <1>6
  <2> HIDE DEF empty
  <2> QED
    BY <1>1, <2>1, <2>2, HandlerEnds, Zenon
<1>7. ASSUME NEW t \in Arrived(e.request), NEW args, args = DecodeRequest(e.method, t), args # Thrown,
             NEW r \in Replies(e.method), NEW fault \in BOOLEAN,
             Finish(i, "ok", args, EncodeReply(e.method, r), fault)
      PROVE  TransportInductive'
  <2>1. ASSUME Mine(e, call)
        PROVE  GotRight(kind, call.method, call.args, args) /\ EncodeReply(e.method, r) \in Replied
    <3>1. e.method = call.method /\ e.request = EncodeRequest(call.method, call.args)
      BY <1>5, <2>1, Zenon DEF Sent
    <3>2. t \in Arrived(EncodeRequest(call.method, call.args)) /\ args = DecodeRequest(call.method, t)
      BY <1>7, <3>1, Zenon
    <3>3. DecodeRequest(call.method, t) # Thrown
      BY <1>7, <3>2, Zenon
    <3>4. GotRight(kind, call.method, call.args, DecodeRequest(call.method, t))
      BY <1>3, <1>4, <3>2, <3>3, RequestsArrive
    <3> QED
      BY <3>1, <3>2, <3>4, Zenon DEF Replied
  <2>2. "ok" \in {"none", "ok", "error"} /\ "ok" # "none" /\ "ok" # "error"
    OBVIOUS
  <2> QED
    BY <1>1, <1>7, <2>1, <2>2, HandlerEnds, Zenon
<1>8. \/ Finish(i, "error", Thrown, <<>>, TRUE)
      \/ \E t \in Arrived(e.request) :
           /\ DecodeRequest(e.method, t) # Thrown
           /\ \E r \in Replies(e.method) :
                Finish(i, "ok", DecodeRequest(e.method, t), EncodeReply(e.method, r), t # e.request)
  BY Zenon DEF Handle
<1>9. \A t : (t # e.request) \in BOOLEAN
  OBVIOUS
<1> HIDE DEF e
<1> QED
  BY <1>6, <1>7, <1>8, <1>9, Zenon

\* The handler of a connection that was closed without a request.
LEMMA StepHandleClosed ==
    ASSUME TransportInductive, NEW i \in DOMAIN exchange, HandleClosed(i)
    PROVE  TransportInductive'
<1>1. /\ exchange[i].phase = "accepted" /\ exchange[i].call = None /\ i \notin client.open
      /\ Finish(i, "none", Thrown, <<>>, FALSE)
  BY Zenon DEF HandleClosed
<1>2. ~Mine(exchange[i], call)
  BY <1>1 DEF Mine, None
<1>3. "none" \in {"none", "ok", "error"} /\ FALSE \in BOOLEAN
  OBVIOUS
<1> DEFINE empty == <<>>
<1>4. Finish(i, "none", Thrown, empty, FALSE)
  BY <1>1
<1> HIDE DEF empty
<1> QED
  BY <1>1, <1>2, <1>3, <1>4, HandlerEnds, Zenon

\* The invariant holds at first.
LEMMA InductiveInit ==
    ASSUME Init
    PROVE  TransportInductive
<1>1. Sides
  BY TransportKinds DEF Init, Sides
<1>2. exchange = <<>> /\ DOMAIN exchange = {} /\ Len(exchange) = 0
  BY DEF Init
<1>3. Exchanges
  <2>1. exchange = [i \in 1..0 |-> exchange[i]]
    BY <1>2
  <2>2. IsSequence(exchange)
    BY <2>1, SequenceOfItsElements
  <2> QED
    BY <1>2, <2>2, Zenon DEF Exchanges
<1>4. /\ DOMAIN call = CallFields /\ call.id = 0 /\ call.pc = "idle" /\ call.method = "RequestVote"
      /\ call.args = VoteArgs /\ call.attempt = 0 /\ call.result = FALSE /\ call.fault = FALSE /\ call.failed = 0
  BY DEF Init, CallFields
<1>5. MaxCalls \in Nat /\ RETRIES \in Nat
  BY TransportBounds
<1>6. CallTypes
  <2>1. IsCall(call.method, call.args)
    BY <1>4 DEF IsCall
  <2>2. call.id \in 0..MaxCalls /\ call.attempt \in 0..RETRIES /\ call.failed \in Nat
    BY <1>4, <1>5
  <2>3. call.pc \in {"idle", "try", "wait"} /\ call.result \in BOOLEAN /\ call.fault \in BOOLEAN
    BY <1>4
  <2> QED
    BY <1>4, <2>1, <2>2, <2>3, Zenon DEF CallTypes
<1>7. CallSide
  <2>1. call.pc # "try" /\ call.pc # "wait"
    BY <1>4
  <2> QED
    BY <1>2, <2>1, Zenon DEF CallSide
<1>8. Answered /\ HealthyCallsSucceed
  BY <1>4 DEF Answered, HealthyCallsSucceed, Returned
<1>9. StoppedServerIsQuiet
  BY <1>2, Zenon DEF StoppedServerIsQuiet
<1>10. ClientSide
  <2> DEFINE b == (kind = "grpc")
  <2>1. b \in BOOLEAN /\ client = [connected |-> b, current |-> None, open |-> {}, rest |-> FALSE]
    BY DEF Init
  <2>2. (kind = "simple") => ~b
    OBVIOUS
  <2> HIDE DEF b
  <2>3. /\ client \in [connected : BOOLEAN, current : 0..0, open : SUBSET {}, rest : BOOLEAN]
        /\ client.connected = b /\ client.open = {}
    BY <2>1 DEF None
  <2>4. client.open \ (IF client.connected THEN {client.current} ELSE {}) = {}
    BY <2>3
  <2>5. Cardinality(client.open \ (IF client.connected THEN {client.current} ELSE {})) <= call.failed
    BY <1>4, <2>4, FS_EmptySet
  <2> QED
    BY <1>2, <2>2, <2>3, <2>5, Zenon DEF ClientSide
<1> QED
  BY <1>1, <1>3, <1>6, <1>7, <1>8, <1>9, <1>10 DEF TransportInductive

\* A step that changes nothing.
LEMMA InductiveStutters ==
    ASSUME TransportInductive, UNCHANGED vars
    PROVE  TransportInductive'
<1>1. kind' = kind /\ server' = server /\ exchange' = exchange /\ client' = client /\ call' = call
  BY DEF vars
<1>2. Exchanges' /\ CallTypes' /\ CallSide' /\ Answered' /\ HealthyCallsSucceed'
  BY <1>1, OnlyClientChanges
<1>3. Sides' /\ ClientSide' /\ StoppedServerIsQuiet'
  BY <1>1, Zenon DEF TransportInductive, Sides, ClientSide, StoppedServerIsQuiet
<1> QED
  BY <1>2, <1>3 DEF TransportInductive

\* Every step keeps the invariant.
LEMMA InductiveStep ==
    ASSUME TransportInductive, [Next]_vars
    PROVE  TransportInductive'
<1>1. ASSUME NEW c \in Calls, Begin(c)
      PROVE  TransportInductive'
  BY <1>1, StepBegin
<1>2. CASE disconnect
  BY <1>2, StepDisconnect
<1>3. CASE GrpcConnect
  BY <1>3, StepGrpcConnect
<1>4. CASE SimpleConnect
  BY <1>4, StepSimpleConnect
<1>5. CASE GrpcSend
  BY <1>5, StepGrpcSend
<1>6. CASE GrpcReceive \/ GrpcDeadline
  BY <1>6, StepGrpcReturns
<1>7. CASE SimpleSend
  BY <1>7, StepSimpleSend
<1>8. CASE SimpleReceive
  BY <1>8, StepSimpleReceive
<1>9. CASE SimpleTimeout
  BY <1>9, StepSimpleTimeout
<1>10. ASSUME NEW i \in DOMAIN exchange, Handle(i) \/ HandleClosed(i)
       PROVE  TransportInductive'
  BY <1>10, StepHandle, StepHandleClosed
<1>11. CASE start \/ setRaftNode
  BY <1>11, StepServer
<1>12. CASE StopBegin \/ StopEnd
  BY <1>12, StepStop
<1>13. ASSUME NEW i \in DOMAIN exchange, Accept(i)
       PROVE  TransportInductive'
  BY <1>13, StepAccept
<1>14. CASE UNCHANGED vars
  BY <1>14, InductiveStutters
<1> QED
  BY <1>1, <1>2, <1>3, <1>4, <1>5, <1>6, <1>7, <1>8, <1>9, <1>10, <1>11, <1>12, <1>13, <1>14, Zenon
     DEF Next, ClientStep, HandlerStep

\* The inductive invariant holds of every reachable state, for any number of
\* retries and of calls, in both transports.
THEOREM TransportInvariant == Spec => []TransportInductive
<1>1. Init => TransportInductive
  BY InductiveInit
<1>2. TransportInductive /\ [Next]_vars => TransportInductive'
  BY InductiveStep
<1> QED
  BY <1>1, <1>2, PTL DEF Spec
-----------------------------------------------------------------------------
(* What follows *)

\* Whoever takes part in the current call takes part in a call.
LEMMA ExecutedIsMine ==
    ASSUME TransportInductive, NEW i \in Executed \cap ExchangesOf(call.id)
    PROVE  /\ i \in DOMAIN exchange /\ Mine(exchange[i], call)
           /\ GotRight(kind, call.method, call.args, exchange[i].got)
<1>1. i \in DOMAIN exchange /\ exchange[i].got # Thrown /\ exchange[i].call = call.id
  BY DEF Executed, ExchangesOf
<1>2. ExchangeOK(exchange[i], kind, call, Sent, Replied)
  BY <1>1, Zenon DEF TransportInductive, Exchanges
<1>3. exchange[i].call # None
  BY <1>1, <1>2, Zenon DEF ExchangeOK
<1>4. call.id \in 0..MaxCalls /\ MaxCalls \in Nat
  BY TransportBounds DEF TransportInductive, CallTypes
<1>5. Mine(exchange[i], call)
  BY <1>1, <1>3, <1>4 DEF Mine, None
<1> QED
  BY <1>1, <1>2, <1>5, Zenon DEF ExchangeOK

\* The inductive invariant implies the properties.
LEMMA InductiveImplies ==
    ASSUME TransportInductive
    PROVE  TransportInv /\ HandlersGetWhatWasSent /\ TrueMeansAnswered /\ RetriesSound
<1>1. call.id \in 0..MaxCalls /\ MaxCalls \in Nat /\ call.failed \in Nat
  BY TransportBounds DEF TransportInductive, CallTypes
<1>2. TypeOK
  <2>1. ASSUME NEW i \in DOMAIN exchange
        PROVE  /\ exchange[i].phase \in {"queued", "accepted", "done", "reset"}
               /\ exchange[i].status \in {"none", "ok", "error"}
               /\ exchange[i].call \in -1..MaxCalls
    <3>1. ExchangeOK(exchange[i], kind, call, Sent, Replied)
      BY Zenon DEF TransportInductive, Exchanges
    <3>2. /\ exchange[i].phase \in {"queued", "accepted", "done", "reset"}
          /\ exchange[i].status \in {"none", "ok", "error"} /\ exchange[i].call \in -1..call.id
      BY <3>1, Zenon DEF ExchangeOK
    <3> QED
      BY <1>1, <3>2
  <2>2. /\ client.connected \in BOOLEAN /\ client.current \in 0..Len(exchange)
        /\ client.open \subseteq DOMAIN exchange
    BY DEF TransportInductive, ClientSide
  <2> QED
    BY <2>1, <2>2, Zenon DEF TypeOK, TransportInductive, Sides, CallTypes
<1>3. SocketsBounded
  <2> DEFINE n == Cardinality(client.open)
             m == Cardinality(client.open \ {client.current})
  <2>1. m <= call.failed
    <3>1. DEFINE c == Disconnect(client)
    <3>2. Cardinality(c.open) <= call.failed /\ c.open = client.open \ {client.current}
      BY Disconnected
    <3> QED
      BY <3>2
  <2>2. IsFiniteSet(client.open) /\ n \in Nat
    BY SocketsClosed
  <2>3. m = IF client.current \in client.open THEN n - 1 ELSE n
    BY <2>2, FS_RemoveElement, Zenon
  <2> HIDE DEF n, m
  <2>4. n <= 1 + call.failed
    BY <1>1, <2>1, <2>2, <2>3
  <2> QED
    BY <2>4 DEF SocketsBounded, n
<1>4. TransportInv
  BY <1>2, <1>3 DEF TransportInv, TransportInductive
<1>5. HandlersGetWhatWasSent
  <2>1. \A i \in Executed \cap ExchangesOf(call.id) : GotRight(kind, call.method, call.args, exchange[i].got)
    BY ExecutedIsMine
  <2> QED
    BY <2>1, Zenon DEF HandlersGetWhatWasSent, GotRight
<1>6. TrueMeansAnswered
  <2>1. SUFFICES ASSUME Returned, call.result
                 PROVE  \E i \in ExchangesOf(call.id), r \in Replies(call.method) :
                          /\ exchange[i].status = "ok" /\ exchange[i].reply = EncodeReply(call.method, r)
                          /\ RepliedRight(kind, call.method, call.reply, r)
    BY Zenon DEF TrueMeansAnswered, RepliedRight
  <2>2. PICK i \in DOMAIN exchange : \E r \in Replies(call.method) :
          /\ exchange[i].call = call.id /\ exchange[i].status = "ok"
          /\ exchange[i].reply = EncodeReply(call.method, r)
          /\ RepliedRight(kind, call.method, call.reply, r)
    BY <2>1, Zenon DEF TransportInductive, Answered
  <2>3. i \in ExchangesOf(call.id)
    BY <2>2 DEF ExchangesOf
  <2> QED
    BY <2>2, <2>3, Zenon
<1>7. RepeatedOnlyAfterFault
  <2> DEFINE S == Executed \cap ExchangesOf(call.id)
  <2>1. SUFFICES ASSUME ~(kind = "simple" /\ call.fault)
                 PROVE  Cardinality(S) <= 1 /\ Cardinality(S) \in Nat
    <3> DEFINE n == Cardinality(S)
    <3>1. (n <= 1 /\ n \in Nat) => ~(n > 1)
      <4> HIDE DEF n
      <4> QED
        OBVIOUS
    <3> QED
      BY <3>1, Zenon DEF RepeatedOnlyAfterFault
  <2>2. kind = "grpc" \/ ~call.fault
    BY <2>1 DEF TransportInductive, Sides
  <2>3. \A i \in S : i \in DOMAIN exchange /\ Mine(exchange[i], call)
    BY ExecutedIsMine
  <2>4. \A i, j \in DOMAIN exchange : Mine(exchange[i], call) /\ Mine(exchange[j], call) => i = j
    BY <2>2, Zenon DEF TransportInductive, CallSide
  <2> HIDE DEF S
  <2>5. CASE S = {}
    BY <2>5, FS_EmptySet
  <2>6. ASSUME NEW i \in S
        PROVE  Cardinality(S) <= 1 /\ Cardinality(S) \in Nat
    <3>1. S = {i}
      BY <2>3, <2>4, <2>6
    <3>2. IsFiniteSet(S) /\ Cardinality(S) = 1
      BY <3>1, FS_Singleton
    <3> QED
      BY <3>2
  <2> QED
    BY <2>5, <2>6
<1>8. RetriesSound
  BY <1>7, Zenon DEF RetriesSound, TransportInductive
<1> QED
  BY <1>4, <1>5, <1>6, <1>8

\* What the two ends keep is bounded: the sockets of the client by the calls that
\* failed, the handlers of a stopped gRPC server by none (SimpleRPCClient,
\* GrpcRPCServer::stop).
THEOREM EndsAreBounded == Spec => []TransportInv
<1>1. TransportInductive => TransportInv
  BY InductiveImplies
<1> QED
  BY <1>1, TransportInvariant, PTL

\* RaftNode gets the arguments that were sent, or nothing, whatever part of the
\* text a recv returns (deserialize of rpc_messages.h).
THEOREM RequestsArriveRight == Spec => []HandlersGetWhatWasSent
<1>1. TransportInductive => HandlersGetWhatWasSent
  BY InductiveImplies
<1> QED
  BY <1>1, TransportInvariant, PTL

\* A call that returns true has the reply to this very call (sendRequest).
THEOREM AnswersAreTrue == Spec => []TrueMeansAnswered
<1>1. TransportInductive => TrueMeansAnswered
  BY InductiveImplies
<1> QED
  BY <1>1, TransportInvariant, PTL

\* A call during which nothing goes wrong succeeds and is executed once, however
\* many retries are allowed (the loop over retries_ of sendRequest).
THEOREM RetriesAreSound == Spec => []RetriesSound
<1>1. TransportInductive => RetriesSound
  BY InductiveImplies
<1> QED
  BY <1>1, TransportInvariant, PTL
=============================================================================
