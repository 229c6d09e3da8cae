---------------------------- MODULE CatchUpProofs ----------------------------
(***************************************************************************)
(* Replication to one follower (CatchUp), for logs, bounds and limits of   *)
(* any size: the logs always match, the follower never loses an entry it   *)
(* shares with the leader, and the match index is right as long as no      *)
(* command is appended during a call.                                      *)
(***************************************************************************)
EXTENDS CatchUp, DataProofs

USE TermIsPositive, CatchUpBounds

\* A request was cut from what is now a beginning of the leader's log.
Genuine(a) ==
    /\ IsRequest(a) /\ a.prevLogIndex \in Nat
    /\ \E g \in Seq(Entry) : StartsWith(leaderLog, g) /\ a.prevLogIndex <= Len(g) /\ Cut(a, g)

\* Only the leader creates entries of its term.
TermIsLeaders ==
    \A i \in 1..Len(followerLog) :
        followerLog[i].term = Term => i <= Len(leaderLog) /\ leaderLog[i].term = Term

\* A reply tells of a place inside the leader's log; as long as no client has
\* appended during a call, the request carries the log as it is, and a follower
\* that has accepted it has all of it.
CallInv ==
    /\ call.type \in {"idle", "queued", "AppendEntriesArgs", "AppendEntriesReply"}
    /\ IsRequest(call) => Genuine(call) /\ (~overlapped => Cut(call, leaderLog) /\ call.prevLogIndex <= Len(leaderLog))
    /\ call.type = "AppendEntriesReply" =>
          /\ call.success \in BOOLEAN
          /\ ~call.success => call.conflictIndex \in 1..Len(leaderLog) + 1
          /\ call.success /\ ~overlapped => StartsWith(followerLog, leaderLog)

CatchUpIInv ==
    /\ TypeOK
    /\ Explains(leaderLog, followerLog) /\ Explains(followerLog, leaderLog)
    /\ TermIsLeaders
    /\ CallInv
    /\ \A a \in late : Genuine(a)
    /\ MatchIndexIsReplicated
-----------------------------------------------------------------------------
(* Common beginnings *)

\* Agreed, for any two logs.
CommonLength(l, k) ==
    Max({0} \cup {i \in DOMAIN l \cap DOMAIN k : SubSeq(l, 1, i) = SubSeq(k, 1, i)})

\* It is the length of the longest common beginning.
LEMMA CommonLengthIs ==
    ASSUME NEW l \in Seq(Entry), NEW k \in Seq(Entry)
    PROVE  /\ CommonLength(l, k) \in Nat /\ CommonLength(l, k) <= Len(l) /\ CommonLength(l, k) <= Len(k)
           /\ \A x \in 1..CommonLength(l, k) : l[x] = k[x]
           /\ \A n \in Nat : n <= Len(l) /\ n <= Len(k) /\ (\A x \in 1..n : l[x] = k[x]) => n <= CommonLength(l, k)
<1> DEFINE S == {i \in DOMAIN l \cap DOMAIN k : SubSeq(l, 1, i) = SubSeq(k, 1, i)}
<1>1. DOMAIN l = 1..Len(l) /\ DOMAIN k = 1..Len(k)
      /\ Len(l) \in Nat /\ Len(k) \in Nat
  OBVIOUS
<1>2. CommonLength(l, k) \in {0} \cup S /\ \A x \in {0} \cup S : CommonLength(l, k) >= x
  <2>1. {0} \cup S \in SUBSET Nat /\ \A x \in {0} \cup S : x <= Len(l)
    BY <1>1
  <2>2. CommonLength(l, k) = Max({0} \cup S)
    BY DEF CommonLength
  <2> QED
    BY <1>1, <2>1, <2>2, MaxOfNaturals
<1>3. ASSUME NEW i \in S PROVE \A x \in 1..i : l[x] = k[x]
  <2>1. i \in Nat /\ i <= Len(l) /\ i <= Len(k)
    BY <1>1
  <2>2. \A x \in 1..i : SubSeq(l, 1, i)[x] = l[x] /\ SubSeq(k, 1, i)[x] = k[x]
    BY <1>1, <2>1
  <2>3. SubSeq(l, 1, i) = SubSeq(k, 1, i)
    OBVIOUS
  <2> QED
    BY <2>2, <2>3
<1>4. ASSUME NEW n \in Nat, n <= Len(l), n <= Len(k), \A x \in 1..n : l[x] = k[x]
      PROVE  n <= CommonLength(l, k)
  <2>1. CASE n = 0
    BY <1>1, <1>2, <2>1
  <2>2. CASE n > 0
    <3>1. SubSeq(l, 1, n) = SubSeq(k, 1, n)
      BY <1>4, SamePrefix
    <3>2. n \in S
      BY <1>1, <1>4, <2>2, <3>1
    <3> QED
      BY <1>1, <1>2, <3>2
  <2> QED
    BY <2>1, <2>2
<1> QED
  BY <1>1, <1>2, <1>3, <1>4

\* Agreed is the common length of the two logs.
LEMMA AgreedIsCommon == Agreed = CommonLength(leaderLog, followerLog)
  BY DEF Agreed, CommonLength

\* Matching is Explains in both directions.
LEMMA MatchingIs ==
    ASSUME NEW k \in Seq(Entry), NEW l \in Seq(Entry)
    PROVE  Matching(k, l) <=> Explains(k, l) /\ Explains(l, k)
<1>1. DOMAIN k = 1..Len(k) /\ DOMAIN l = 1..Len(l) /\ Len(k) \in Nat /\ Len(l) \in Nat
  OBVIOUS
<1>2. ASSUME NEW i \in 1..Len(k), NEW j \in 1..Len(l), NEW m \in Nat, m <= i, m <= j
      PROVE  SubSeq(k, 1, m) = SubSeq(l, 1, m) <=> \A x \in 1..m : k[x] = l[x]
  <2>1. m <= Len(k) /\ m <= Len(l)
    BY <1>1, <1>2
  <2>2. \A x \in 1..m : SubSeq(k, 1, m)[x] = k[x] /\ SubSeq(l, 1, m)[x] = l[x]
    BY <1>1, <2>1
  <2> QED
    BY <2>1, <2>2, SamePrefix
<1> DEFINE Same(i, j) == SubSeq(k, 1, Min({i, j})) = SubSeq(l, 1, Min({i, j}))
<1>3. ASSUME NEW i \in 1..Len(k), NEW j \in 1..Len(l)
      PROVE  Same(i, j) <=> /\ i <= j => \A x \in 1..i : k[x] = l[x]
                            /\ j <= i => \A x \in 1..j : k[x] = l[x]
  <2>1. Min({i, j}) \in {i, j} /\ Min({i, j}) <= i /\ Min({i, j}) <= j /\ i \in Nat /\ j \in Nat
    BY <1>1, MinOfTwo
  <2>2. CASE i <= j
    <3>1. Min({i, j}) = i
      BY <2>1, <2>2
    <3>2. SubSeq(k, 1, i) = SubSeq(l, 1, i) <=> \A x \in 1..i : k[x] = l[x]
      BY <1>2, <2>1, <2>2
    <3>3. j <= i => i = j
      BY <2>1, <2>2
    <3> QED
      BY <2>2, <3>1, <3>2, <3>3
  <2>3. CASE j < i
    <3>1. Min({i, j}) = j
      BY <2>1, <2>3
    <3>2. SubSeq(k, 1, j) = SubSeq(l, 1, j) <=> \A x \in 1..j : k[x] = l[x]
      BY <1>2, <2>1, <2>3
    <3>3. ~(i <= j) /\ j <= i
      BY <2>1, <2>3
    <3> QED
      BY <3>1, <3>2, <3>3
  <2>4. i <= j \/ j < i
    BY <2>1
  <2> QED
    BY <2>2, <2>3, <2>4, Zenon
<1>4. Matching(k, l) <=> \A i \in 1..Len(k), j \in 1..Len(l) : k[i].term = l[j].term => Same(i, j)
  BY <1>1, Zenon DEF Matching
<1> HIDE DEF Same
<1> QED
  BY <1>1, <1>3, <1>4 DEF Explains
-----------------------------------------------------------------------------
(* The follower *)

\* A log that a beginning of the leader's log is merged into stays, or becomes
\* that beginning.
LEMMA Merged ==
    ASSUME leaderLog \in Seq(Entry), followerLog \in Seq(Entry), Explains(leaderLog, followerLog),
           NEW g \in Seq(Entry), StartsWith(leaderLog, g),
           NEW a, a.prevLogIndex \in Nat, a.prevLogIndex <= Len(g), Cut(a, g), LogConsistent(followerLog, a)
    PROVE  MergeEntries(followerLog, a.prevLogIndex, a.entries) =
             IF StartsWith(followerLog, g) THEN followerLog ELSE g
<1>1. a.prevLogIndex <= Len(followerLog)
  BY DEF LogConsistent, PrevMissing
<1>2. a.prevLogIndex > 0 => followerLog[a.prevLogIndex].term = g[a.prevLogIndex].term
  BY <1>1 DEF LogConsistent, PrevMismatch, Cut
<1>3. Explains(g, followerLog)
  <2> SUFFICES ASSUME NEW i \in 1..Len(followerLog), NEW j \in 1..Len(g), i <= j,
                      followerLog[i].term = g[j].term
               PROVE  \A x \in 1..i : followerLog[x] = g[x]
    BY Zenon DEF Explains
  <2>1. Len(g) <= Len(leaderLog) /\ Len(g) \in Nat /\ Len(leaderLog) \in Nat /\ \A x \in 1..Len(g) : g[x] = leaderLog[x]
    BY DEF StartsWith
  <2>2. j \in 1..Len(leaderLog) /\ followerLog[i].term = leaderLog[j].term
    BY <2>1
  <2>3. \A x \in 1..i : followerLog[x] = leaderLog[x]
    BY <2>2, Zenon DEF Explains
  <2>4. \A x \in 1..i : x \in 1..Len(g)
    BY <2>1
  <2> QED
    BY <2>1, <2>3, <2>4, Zenon
<1>4. a.entries = SubSeq(g, a.prevLogIndex + 1, Len(g))
  BY DEF Cut
<1> QED
  BY <1>1, <1>2, <1>3, <1>4, MergeYieldsOneOfBoth

\* handleAppendEntries, whether the request is late or not.
LEMMA Handled ==
    ASSUME CatchUpIInv, NEW a, Genuine(a), HandleAppendEntries(a), leaderLog' = leaderLog
    PROVE  /\ followerLog' \in Seq(Entry) /\ Sorted(followerLog')
           /\ Explains(leaderLog, followerLog') /\ Explains(followerLog', leaderLog)
           /\ TermIsLeaders'
           /\ Agreed' >= Agreed
           /\ StartsWith(followerLog, leaderLog) => followerLog' = followerLog
<1>1. /\ leaderLog \in Seq(Entry) /\ followerLog \in Seq(Entry) /\ Sorted(leaderLog) /\ Sorted(followerLog)
      /\ Explains(leaderLog, followerLog) /\ Explains(followerLog, leaderLog) /\ TermIsLeaders
  BY DEF CatchUpIInv, TypeOK
<1>2. PICK g \in Seq(Entry) : StartsWith(leaderLog, g) /\ a.prevLogIndex <= Len(g) /\ Cut(a, g) /\ a.prevLogIndex \in Nat
  BY DEF Genuine
<1>3. followerLog' = followerLog \/ (followerLog' = g /\ ~StartsWith(followerLog, g))
  BY <1>1, <1>2, Merged DEF HandleAppendEntries
<1>4. CASE followerLog' = followerLog
  <2>1. Agreed' = Agreed /\ Agreed \in Nat
    BY <1>1, <1>4, CommonLengthIs DEF Agreed, CommonLength
  <2> QED
    BY <1>1, <1>4, <2>1 DEF TermIsLeaders
<1>5. CASE followerLog' = g /\ ~StartsWith(followerLog, g)
  <2>1. Len(g) <= Len(leaderLog) /\ Len(g) \in Nat /\ \A x \in 1..Len(g) : g[x] = leaderLog[x]
    BY <1>2 DEF StartsWith
  <2>2. Sorted(g)
    <3> SUFFICES ASSUME NEW i \in DOMAIN g, NEW j \in DOMAIN g, i <= j PROVE g[i].term <= g[j].term
      BY DEF Sorted
    <3>1. i \in DOMAIN leaderLog /\ j \in DOMAIN leaderLog /\ g[i] = leaderLog[i] /\ g[j] = leaderLog[j]
      BY <1>1, <2>1
    <3>2. leaderLog[i].term <= leaderLog[j].term
      BY <1>1, <3>1, Zenon DEF Sorted
    <3> QED
      BY <3>1, <3>2
  <2>3. Explains(leaderLog, g) /\ Explains(g, leaderLog)
    BY <1>1, <1>2, <2>1 DEF Explains
  <2>4. TermIsLeaders'
    BY <1>5, <2>1 DEF TermIsLeaders
  <2>5. Agreed <= Len(g) /\ Agreed \in Nat
    <3>1. /\ Agreed \in Nat /\ Agreed <= Len(followerLog) /\ Len(followerLog) \in Nat
          /\ \A x \in 1..Agreed : leaderLog[x] = followerLog[x]
      BY <1>1, CommonLengthIs, AgreedIsCommon
    <3>2. ASSUME Agreed > Len(g) PROVE StartsWith(followerLog, g)
      <4>1. Len(g) <= Len(followerLog) /\ \A x \in 1..Len(g) : x \in 1..Agreed
        BY <2>1, <3>1, <3>2
      <4> QED
        BY <2>1, <3>1, <4>1 DEF StartsWith
    <3> QED
      BY <1>5, <2>1, <3>1, <3>2
  <2>6. Agreed' >= Len(g) /\ Agreed' \in Nat
    <3>1. Agreed' = CommonLength(leaderLog, g)
      BY <1>5 DEF Agreed, CommonLength
    <3>2. /\ CommonLength(leaderLog, g) \in Nat
          /\ \A n \in Nat : n <= Len(leaderLog) /\ n <= Len(g) /\ (\A x \in 1..n : leaderLog[x] = g[x])
                => n <= CommonLength(leaderLog, g)
      BY <1>1, <1>2, CommonLengthIs
    <3> QED
      BY <2>1, <3>1, <3>2
  <2>7. ~StartsWith(followerLog, leaderLog)
    BY <1>1, <1>2, <1>5, <2>1 DEF StartsWith
  <2> QED
    BY <1>2, <1>5, <2>1, <2>2, <2>3, <2>4, <2>5, <2>6, <2>7
<1> QED
  BY <1>3, <1>4, <1>5
-----------------------------------------------------------------------------
(* The leader *)

\* What createAppendEntriesArgs makes is cut from the log as it is.
LEMMA CreatedArgs ==
    ASSUME TypeOK, NEW a, a = CreateArgs(leaderLog, Term, "leader", nextIndex, 0)
    PROVE  Genuine(a) /\ Cut(a, leaderLog) /\ a.prevLogIndex <= Len(leaderLog)
<1>1. leaderLog \in Seq(Entry) /\ nextIndex \in 1..Len(leaderLog) + 1 /\ Len(leaderLog) \in Nat
  BY DEF TypeOK
<1>2. /\ a.type = "AppendEntriesArgs" /\ a.prevLogIndex = nextIndex - 1
      /\ a.prevLogTerm = IF nextIndex - 1 \in 1..Len(leaderLog) THEN leaderLog[nextIndex - 1].term ELSE 0
      /\ a.entries = SubSeq(leaderLog, nextIndex, Len(leaderLog))
  BY DEF CreateArgs
<1>3. a.prevLogIndex \in Nat /\ a.prevLogIndex <= Len(leaderLog) /\ a.prevLogIndex + 1 = nextIndex
  BY <1>1, <1>2
<1>4. Cut(a, leaderLog)
  BY <1>2, <1>3 DEF Cut
<1>5. StartsWith(leaderLog, leaderLog)
  BY <1>1 DEF StartsWith
<1> QED
  BY <1>1, <1>2, <1>3, <1>4, <1>5 DEF Genuine, IsRequest

\* What a follower answers to a genuine request names a place in the leader's log.
LEMMA Replied ==
    ASSUME leaderLog \in Seq(Entry), followerLog \in Seq(Entry), NEW a, Genuine(a),
           NEW r, r = ConsistencyReply(followerLog, Term, a)
    PROVE  /\ r.type = "AppendEntriesReply" /\ r.success \in BOOLEAN
           /\ r.success => LogConsistent(followerLog, a)
           /\ ~r.success => r.conflictIndex \in 1..Len(leaderLog) + 1
<1>1. a.prevLogIndex \in Nat /\ a.prevLogIndex <= Len(leaderLog)
      /\ Len(leaderLog) \in Nat /\ Len(followerLog) \in Nat
  BY DEF Genuine, StartsWith
<1>2. CASE PrevMissing(followerLog, a)
  BY <1>1, <1>2 DEF ConsistencyReply, AppendReply, LogConsistent, PrevMissing
<1>3. CASE ~PrevMissing(followerLog, a) /\ PrevMismatch(followerLog, a)
  <2>1. FirstOfTerm(followerLog, a.prevLogIndex) \in 1..a.prevLogIndex
    BY <1>1, <1>3, FirstOfTermInLog DEF PrevMismatch
  <2>2. /\ r.type = "AppendEntriesReply" /\ r.success = FALSE
        /\ r.conflictIndex = FirstOfTerm(followerLog, a.prevLogIndex)
    BY <1>3 DEF ConsistencyReply, AppendReply
  <2>3. r.conflictIndex \in 1..Len(leaderLog) + 1
    BY <1>1, <2>1, <2>2
  <2> QED
    BY <2>2, <2>3, Zenon
<1>4. CASE LogConsistent(followerLog, a)
  BY <1>4 DEF ConsistencyReply, AppendReply, LogConsistent
<1> QED
  BY <1>2, <1>3, <1>4 DEF LogConsistent

\* handleAppendEntriesResponse never goes past the end of the log.
LEMMA BackedOff ==
    ASSUME leaderLog \in Seq(Entry), NEW r, r.conflictIndex \in 1..Len(leaderLog) + 1
    PROVE  BackedOffNextIndex(leaderLog, r) \in 1..Len(leaderLog) + 1
<1> DEFINE sameTerm == {i \in 1..Len(leaderLog) : leaderLog[i].term = r.conflictTerm}
<1>1. Len(leaderLog) \in Nat
  OBVIOUS
<1>2. CASE sameTerm # {}
  <2>1. Max(sameTerm) \in sameTerm
    <3>1. sameTerm \in SUBSET Nat /\ \A x \in sameTerm : x <= Len(leaderLog)
      BY <1>1
    <3> QED
      BY <1>1, <1>2, <3>1, MaxOfNaturals
  <2> QED
    BY <1>1, <1>2, <2>1 DEF BackedOffNextIndex
<1>3. CASE sameTerm = {}
  BY <1>1, <1>3 DEF BackedOffNextIndex
<1> QED
  BY <1>2, <1>3

\* appendLogEntry: an entry of the leader's term fits at the end of its log.
LEMMA LeaderAppends ==
    ASSUME CatchUpIInv, AppendLogEntry
    PROVE  /\ leaderLog' \in Seq(Entry) /\ Sorted(leaderLog') /\ Len(leaderLog') = Len(leaderLog) + 1
           /\ StartsWith(leaderLog', leaderLog)
           /\ Explains(leaderLog', followerLog) /\ Explains(followerLog, leaderLog')
           /\ TermIsLeaders'
           /\ Agreed' >= Agreed
<1> DEFINE e == [term |-> Term]
           len == Len(leaderLog)
<1>1. /\ leaderLog \in Seq(Entry) /\ followerLog \in Seq(Entry) /\ Sorted(leaderLog) /\ Sorted(followerLog)
      /\ Explains(leaderLog, followerLog) /\ Explains(followerLog, leaderLog) /\ TermIsLeaders
  BY DEF CatchUpIInv, TypeOK
<1>2. /\ len \in Nat /\ e \in Entry /\ leaderLog' = Append(leaderLog, e) /\ followerLog' = followerLog
  BY <1>1 DEF AppendLogEntry, Entry
<1>3. /\ leaderLog' \in Seq(Entry) /\ Len(leaderLog') = len + 1 /\ leaderLog'[len + 1] = e
      /\ \A i \in 1..len : leaderLog'[i] = leaderLog[i]
  BY <1>1, <1>2, AppendProperties
<1>4. e.term = Term /\ (\A i \in 1..len : leaderLog[i].term \in 1..Term)
      /\ \A i \in 1..Len(followerLog) : followerLog[i].term \in 1..Term
  <2>1. \A x \in Entry : x.term \in 1..Term
    BY DEF Entry
  <2> QED
    BY <1>1, <2>1
<1>5. Sorted(leaderLog')
  <2>1. \A i, j \in 1..len + 1 : i <= j => leaderLog'[i].term <= leaderLog'[j].term
    <3> TAKE i, j \in 1..len + 1
    <3>1. CASE j = len + 1
      BY <1>2, <1>3, <1>4, <3>1
    <3>2. CASE j # len + 1 /\ i <= j
      BY <1>1, <1>2, <1>3, <3>2 DEF Sorted
    <3> QED
      BY <3>1, <3>2
  <2> QED
    BY <1>3, <2>1 DEF Sorted
<1>6. StartsWith(leaderLog', leaderLog)
  BY <1>2, <1>3 DEF StartsWith
<1>7. Explains(leaderLog', followerLog)
  <2> SUFFICES ASSUME NEW i \in 1..Len(followerLog), NEW j \in 1..Len(leaderLog'), i <= j,
                      followerLog[i].term = leaderLog'[j].term
               PROVE  \A x \in 1..i : followerLog[x] = leaderLog'[x]
    BY DEF Explains
  <2>1. CASE j <= len
    BY <1>1, <1>2, <1>3, <2>1 DEF Explains
  <2>2. CASE j = len + 1
    <3>1. i <= len /\ leaderLog[i].term = followerLog[i].term
      BY <1>1, <1>3, <1>4, <2>2 DEF TermIsLeaders
    <3>2. \A x \in 1..i : followerLog[x] = leaderLog[x]
      <4>1. i \in 1..len /\ i <= i
        BY <1>2, <3>1
      <4>2. i \in 1..Len(leaderLog)
        BY <1>2, <4>1
      <4> QED
        BY <1>1, <3>1, <4>1, <4>2, Zenon DEF Explains
    <3> QED
      BY <1>2, <1>3, <3>1, <3>2
  <2> QED
    BY <1>2, <1>3, <2>1, <2>2
<1>8. Explains(followerLog, leaderLog')
  <2> SUFFICES ASSUME NEW i \in 1..Len(leaderLog'), NEW j \in 1..Len(followerLog), i <= j,
                      leaderLog'[i].term = followerLog[j].term
               PROVE  \A x \in 1..i : leaderLog'[x] = followerLog[x]
    BY DEF Explains
  <2>1. CASE i <= len
    BY <1>1, <1>2, <1>3, <2>1 DEF Explains
  <2>2. CASE i = len + 1
    BY <1>1, <1>2, <1>3, <1>4, <2>2 DEF TermIsLeaders
  <2> QED
    BY <1>2, <1>3, <2>1, <2>2
<1>9. TermIsLeaders'
  BY <1>1, <1>2, <1>3 DEF TermIsLeaders
<1>10. Agreed' >= Agreed
  <2>1. PICK k : k = leaderLog'
    OBVIOUS
  <2>2. Agreed' = CommonLength(k, followerLog) /\ k \in Seq(Entry)
    BY <1>2, <1>3, <2>1 DEF Agreed, CommonLength
  <2>3. /\ Agreed \in Nat /\ Agreed <= len /\ Agreed <= Len(followerLog)
        /\ \A x \in 1..Agreed : leaderLog[x] = followerLog[x]
    BY <1>1, CommonLengthIs, AgreedIsCommon
  <2>4. Agreed <= Len(k) /\ \A x \in 1..Agreed : k[x] = followerLog[x]
    BY <1>2, <1>3, <2>1, <2>3
  <2> QED
    BY <1>1, <2>2, <2>3, <2>4, CommonLengthIs
<1> QED
  BY <1>3, <1>5, <1>6, <1>7, <1>8, <1>9, <1>10
-----------------------------------------------------------------------------
(* The inductive invariant *)

\* A step that changes neither log leaves what the invariant says of them.
LEMMA SameLogs ==
    ASSUME CatchUpIInv, UNCHANGED <<leaderLog, followerLog>>
    PROVE  /\ leaderLog' \in Seq(Entry) /\ Sorted(leaderLog')
           /\ followerLog' \in Seq(Entry) /\ Sorted(followerLog')
           /\ Explains(leaderLog', followerLog') /\ Explains(followerLog', leaderLog')
           /\ TermIsLeaders'
           /\ Agreed' = Agreed /\ Agreed' >= Agreed
           /\ \A a : Genuine(a)' <=> Genuine(a)
<1>1. Agreed' = Agreed /\ Agreed \in Nat
  BY CommonLengthIs DEF CatchUpIInv, TypeOK, Agreed, CommonLength
<1>2. \A a : Genuine(a)' <=> Genuine(a)
  BY DEF Genuine
<1>3. TermIsLeaders' <=> TermIsLeaders
  BY DEF TermIsLeaders
<1> QED
  BY <1>1, <1>2, <1>3 DEF CatchUpIInv, TypeOK

\* Every step keeps the invariant, and none takes from the follower an entry
\* that it shares with the leader.
LEMMA CatchUpStep ==
    ASSUME CatchUpIInv, [Next]_vars
    PROVE  CatchUpIInv' /\ Agreed' >= Agreed
<1> USE DEF CatchUpIInv, TypeOK
<1>1. /\ Len(leaderLog) \in Nat /\ Len(followerLog) \in Nat
      /\ IsRequest(Idle) = FALSE /\ IsRequest(Queued) = FALSE
      /\ Idle.type = "idle" /\ Queued.type = "queued"
  BY DEF IsRequest, Idle, Queued
<1>2. CASE SendAppendEntries
  <2>1. CallInv'
    BY <1>1, <1>2 DEF SendAppendEntries, CallInv
  <2> QED
    BY <1>1, <1>2, <2>1, SameLogs DEF SendAppendEntries, MatchIndexIsReplicated
<1>3. CASE LoseCall
  <2>1. CallInv'
    BY <1>1, <1>3 DEF LoseCall, CallInv
  <2> QED
    BY <1>1, <1>3, <2>1, SameLogs DEF LoseCall, MatchIndexIsReplicated
<1>4. CASE TimeoutCall
  <2>1. CallInv'
    BY <1>1, <1>4 DEF TimeoutCall, CallInv
  <2>2. \A a \in late' : Genuine(a)
    BY <1>4 DEF TimeoutCall, CallInv
  <2> QED
    BY <1>1, <1>4, <2>1, <2>2, SameLogs DEF TimeoutCall, MatchIndexIsReplicated
<1>5. CASE CreateAppendEntriesArgs
  <2>1. PICK a : a = CreateArgs(leaderLog, Term, "leader", nextIndex, 0)
    OBVIOUS
  <2>2. Genuine(a) /\ Cut(a, leaderLog) /\ a.prevLogIndex <= Len(leaderLog)
    BY <2>1, CreatedArgs
  <2>3. a.type = "AppendEntriesArgs"
    BY <2>2 DEF Genuine, IsRequest
  <2>4. UNCHANGED <<leaderLog, followerLog, nextIndex, matchIndex, late, limit, overlapped>> /\ call' = a
    BY <1>5, <2>1 DEF CreateAppendEntriesArgs
  <2>5. CallInv'
    BY <2>2, <2>3, <2>4, SameLogs DEF CallInv
  <2> QED
    BY <2>3, <2>4, <2>5, SameLogs DEF MatchIndexIsReplicated
<1>6. CASE Deliver
  <2>1. /\ Genuine(call) /\ HandleAppendEntries(call)
        /\ UNCHANGED <<leaderLog, nextIndex, matchIndex, late, limit, overlapped>>
    BY <1>6 DEF Deliver, CallInv
  <2>2. /\ followerLog' \in Seq(Entry) /\ Sorted(followerLog')
        /\ Explains(leaderLog, followerLog') /\ Explains(followerLog', leaderLog)
        /\ TermIsLeaders' /\ Agreed' >= Agreed
    BY <2>1, Handled
  <2>3. PICK r : r = ConsistencyReply(followerLog, Term, call)
    OBVIOUS
  <2>4. call' = r
    BY <1>6, <2>3 DEF Deliver
  <2>5. /\ r.type = "AppendEntriesReply" /\ r.success \in BOOLEAN
        /\ r.success => LogConsistent(followerLog, call)
        /\ ~r.success => r.conflictIndex \in 1..Len(leaderLog) + 1
    BY <2>1, <2>3, Replied
  <2>6. ASSUME r.success, ~overlapped PROVE StartsWith(followerLog', leaderLog)
    <3>1. Cut(call, leaderLog) /\ call.prevLogIndex <= Len(leaderLog) /\ call.prevLogIndex \in Nat
      BY <1>6, <2>6 DEF Deliver, CallInv, Genuine
    <3>2. StartsWith(leaderLog, leaderLog)
      BY <1>1 DEF StartsWith
    <3>3. followerLog' = IF StartsWith(followerLog, leaderLog) THEN followerLog ELSE leaderLog
      BY <2>1, <2>5, <2>6, <3>1, <3>2, Merged DEF HandleAppendEntries
    <3> QED
      BY <3>2, <3>3
  <2>7. CallInv'
    BY <2>1, <2>4, <2>5, <2>6 DEF CallInv, IsRequest
  <2>8. \A a \in late' : Genuine(a)'
    BY <2>1 DEF Genuine
  <2>9. MatchIndexIsReplicated'
    <3>1. Agreed \in Nat /\ Agreed' \in Nat
      <4>1. PICK k : k = followerLog'
        OBVIOUS
      <4>2. Agreed' = CommonLength(leaderLog, k)
        BY <2>1, <4>1 DEF Agreed, CommonLength
      <4> QED
        BY <2>2, <4>1, <4>2, CommonLengthIs, AgreedIsCommon
    <3> QED
      BY <2>1, <2>2, <3>1 DEF MatchIndexIsReplicated
  <2>10. TypeOK'
    BY <2>1, <2>2, <2>4, <2>5
  <2> QED
    BY <2>1, <2>2, <2>7, <2>8, <2>9, <2>10
<1>7. CASE DeliverLate
  <2>1. PICK a \in late : /\ HandleAppendEntries(a) /\ late' = late \ {a}
                          /\ UNCHANGED <<leaderLog, nextIndex, matchIndex, call, limit, overlapped>>
    BY <1>7 DEF DeliverLate
  <2>2. /\ followerLog' \in Seq(Entry) /\ Sorted(followerLog')
        /\ Explains(leaderLog, followerLog') /\ Explains(followerLog', leaderLog)
        /\ TermIsLeaders' /\ Agreed' >= Agreed
        /\ StartsWith(followerLog, leaderLog) => followerLog' = followerLog
    BY <2>1, Handled
  <2>3. \A b : Genuine(b)' <=> Genuine(b)
    BY <2>1 DEF Genuine
  <2>4. CallInv'
    BY <2>1, <2>2, <2>3 DEF CallInv
  <2>5. MatchIndexIsReplicated'
    <3>1. Agreed \in Nat /\ Agreed' \in Nat
      <4>1. PICK k : k = followerLog'
        OBVIOUS
      <4>2. Agreed' = CommonLength(leaderLog, k)
        BY <2>1, <4>1 DEF Agreed, CommonLength
      <4> QED
        BY <2>2, <4>1, <4>2, CommonLengthIs, AgreedIsCommon
    <3> QED
      BY <2>1, <2>2, <3>1 DEF MatchIndexIsReplicated
  <2>6. TypeOK'
    BY <2>1, <2>2
  <2> QED
    BY <2>1, <2>2, <2>3, <2>4, <2>5, <2>6
<1>8. CASE HandleAppendEntriesResponse
  <2>1. /\ call.type = "AppendEntriesReply" /\ call' = Idle
        /\ UNCHANGED <<leaderLog, followerLog, late, limit, overlapped>>
    BY <1>8 DEF HandleAppendEntriesResponse
  <2>2. CallInv'
    BY <1>1, <2>1 DEF CallInv
  <2>3. CASE call.success /\ matchIndex' = Len(leaderLog) /\ nextIndex' = Len(leaderLog) + 1
    <3>1. MatchIndexIsReplicated'
      <4>1. ASSUME ~overlapped PROVE Len(leaderLog) <= Agreed
        <5>1. StartsWith(followerLog, leaderLog)
          BY <2>1, <2>3, <4>1 DEF CallInv
        <5> QED
          BY <1>1, <5>1, CommonLengthIs, AgreedIsCommon DEF StartsWith
      <4> QED
        BY <2>1, <2>3, <4>1, SameLogs DEF MatchIndexIsReplicated
    <3> QED
      BY <1>1, <2>1, <2>2, <2>3, <3>1, SameLogs
  <2>4. CASE ~call.success /\ nextIndex' = BackedOffNextIndex(leaderLog, call) /\ matchIndex' = matchIndex
    <3>1. nextIndex' \in 1..Len(leaderLog) + 1
      <4>1. call.conflictIndex \in 1..Len(leaderLog) + 1
        BY <2>1, <2>4 DEF CallInv
      <4> QED
        BY <2>4, <4>1, BackedOff
    <3> QED
      BY <1>1, <2>1, <2>2, <2>4, <3>1, SameLogs DEF MatchIndexIsReplicated
  <2> QED
    BY <1>8, <2>3, <2>4 DEF HandleAppendEntriesResponse, ExpectedMatchIndex
<1>9. CASE AppendLogEntry
  <2>1. /\ overlapped' = (overlapped \/ call # Idle)
        /\ UNCHANGED <<followerLog, nextIndex, matchIndex, call, late, limit>>
    BY <1>9 DEF AppendLogEntry
  <2>2. /\ leaderLog' \in Seq(Entry) /\ Sorted(leaderLog') /\ Len(leaderLog') = Len(leaderLog) + 1
        /\ StartsWith(leaderLog', leaderLog)
        /\ Explains(leaderLog', followerLog) /\ Explains(followerLog, leaderLog')
        /\ TermIsLeaders' /\ Agreed' >= Agreed
    BY <1>9, LeaderAppends
  <2>3. ASSUME NEW a, Genuine(a) PROVE Genuine(a)'
    <3>1. PICK g \in Seq(Entry) : StartsWith(leaderLog, g) /\ a.prevLogIndex <= Len(g) /\ Cut(a, g)
      BY <2>3 DEF Genuine
    <3>2. StartsWith(leaderLog', g)
      BY <1>1, <2>2, <3>1 DEF StartsWith
    <3> QED
      BY <2>3, <3>1, <3>2 DEF Genuine
  <2>4. CallInv'
    <3>1. ASSUME ~overlapped' PROVE call = Idle /\ ~overlapped
      BY <2>1, <3>1
    <3>2. IsRequest(call) => Genuine(call)'
      <4>1. PICK a : a = call
        OBVIOUS
      <4>2. IsRequest(call) => Genuine(a)'
        BY <2>3, <4>1 DEF CallInv
      <4> QED
        BY <2>1, <4>1, <4>2 DEF Genuine
    <3>3. call.type = "AppendEntriesReply" =>
            call.success \in BOOLEAN /\ (~call.success => call.conflictIndex \in 1..Len(leaderLog') + 1)
      BY <1>1, <2>2 DEF CallInv
    <3> QED
      BY <1>1, <2>1, <3>1, <3>2, <3>3 DEF CallInv
  <2>5. MatchIndexIsReplicated'
    <3>1. Agreed \in Nat /\ Agreed' \in Nat
      <4>1. PICK k : k = leaderLog'
        OBVIOUS
      <4>2. Agreed' = CommonLength(k, followerLog)
        BY <2>1, <4>1 DEF Agreed, CommonLength
      <4> QED
        BY <2>2, <4>1, <4>2, CommonLengthIs, AgreedIsCommon
    <3> QED
      BY <2>1, <2>2, <3>1 DEF MatchIndexIsReplicated
  <2>6. TypeOK'
    BY <1>1, <2>1, <2>2
  <2> QED
    BY <2>1, <2>2, <2>3, <2>4, <2>5, <2>6
<1>10. CASE UNCHANGED vars
  <2>1. CallInv'
    BY <1>10, SameLogs DEF vars, CallInv
  <2> QED
    BY <1>10, <2>1, SameLogs DEF vars, MatchIndexIsReplicated
<1> QED
  BY <1>2, <1>3, <1>4, <1>5, <1>6, <1>7, <1>8, <1>9, <1>10 DEF Next

\* A new leader's log is older than its term, so no log has an entry of it.
LEMMA CatchUpInit == Init => CatchUpIInv
<1> SUFFICES ASSUME Init PROVE CatchUpIInv
  OBVIOUS
<1>1. \A l \in Logs : l \in Seq(Entry) /\ Len(l) \in Nat
  BY CatchUpBounds DEF Logs
<1>2. ASSUME NEW l \in Seq(Entry), Sorted(l), LastTerm(l) < Term
      PROVE  \A i \in 1..Len(l) : l[i].term # Term
  <2> SUFFICES ASSUME NEW i \in 1..Len(l) PROVE l[i].term # Term
    OBVIOUS
  <2>1. Len(l) \in 1..Len(l) /\ l # <<>> /\ i <= Len(l)
    OBVIOUS
  <2>2. l[i] \in Entry /\ l[Len(l)] \in Entry
    BY <2>1
  <2>3. l[i].term <= l[Len(l)].term /\ l[i].term \in Nat /\ l[Len(l)].term \in Nat
    BY <1>2, <2>1, <2>2 DEF Sorted, Entry
  <2> QED
    BY <1>2, <2>1, <2>3 DEF LastTerm
<1>3. /\ leaderLog \in Seq(Entry) /\ Sorted(leaderLog) /\ Len(leaderLog) \in Nat
      /\ followerLog \in Seq(Entry) /\ Sorted(followerLog)
      /\ \A i \in 1..Len(followerLog) : followerLog[i].term # Term
      /\ Matching(leaderLog, followerLog)
  BY <1>1, <1>2 DEF Init
<1>4. Explains(leaderLog, followerLog) /\ Explains(followerLog, leaderLog)
  BY <1>3, MatchingIs
<1>5. Agreed \in Nat
  BY <1>3, AgreedIsCommon, CommonLengthIs
<1>6. TypeOK
  <2>1. nextIndex = Len(leaderLog) + 1 /\ matchIndex = 0 /\ call.type = "idle" /\ overlapped \in BOOLEAN
    BY DEF Init, Idle
  <2> QED
    BY <1>3, <2>1 DEF TypeOK
<1>7. TermIsLeaders
  BY <1>3 DEF TermIsLeaders
<1>8. CallInv /\ late = {}
  BY DEF Init, CallInv, IsRequest, Idle
<1>9. MatchIndexIsReplicated
  BY <1>5 DEF Init, MatchIndexIsReplicated
<1> QED
  BY <1>4, <1>6, <1>7, <1>8, <1>9 DEF CatchUpIInv
-----------------------------------------------------------------------------
(* What the runs check *)

\* The inductive invariant holds, whatever is lost, late or repeated
\* (handleAppendEntries, handleAppendEntriesResponse).
THEOREM CatchUpInvariant == Spec => []CatchUpIInv
<1>1. CatchUpIInv /\ [Next]_vars => CatchUpIInv'
  BY CatchUpStep
<1> QED
  BY <1>1, CatchUpInit, PTL DEF Spec

\* For any logs, limit of a message and number of late requests: the two logs
\* match, and the match index is right while no command comes during a call
\* (handleAppendEntries, handleAppendEntriesResponse).
THEOREM CatchUpIsSound == Spec => []CatchUpInv
<1>1. CatchUpIInv => CatchUpInv
  BY MatchingIs DEF CatchUpIInv, CatchUpInv, TypeOK, LogsMatch
<1> QED
  BY <1>1, CatchUpInvariant, PTL

\* For the same: no request, late or repeated, takes from the follower an entry
\* that it shares with the leader (handleAppendEntries, rules 3 and 4).
THEOREM FollowerKeepsWhatAgrees == Spec => AgreementGrows
<1>1. CatchUpIInv /\ [Next]_vars => [Agreed' >= Agreed]_vars
  BY CatchUpStep
<1> QED
  BY <1>1, CatchUpInvariant, PTL DEF Spec, AgreementGrows
=============================================================================
