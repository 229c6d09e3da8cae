----------------------------- MODULE DataProofs ------------------------------
(***************************************************************************)
(* Facts about the data of the models, for every value: the least and the  *)
(* greatest of a set of naturals, the operators on logs (RaftLog), what is *)
(* read of an encoded message (Wire).                                      *)
(***************************************************************************)
EXTENDS RaftLog, Wire, TLAPS, SequenceTheorems, FiniteSetTheorems

\* A set of naturals that is not empty has a least element, and Min is it.
LEMMA MinOfNaturals ==
    ASSUME NEW S \in SUBSET Nat, S # {}
    PROVE  Min(S) \in S /\ \A x \in S : Min(S) <= x
<1>1. \E x \in S : \A y \in S : ~(<<y, x>> \in OpToRel(<, Nat))
  BY WFMin, NatLessThanWellFounded
<1>2. ASSUME NEW x \in Nat, NEW y \in Nat, y < x
      PROVE  <<y, x>> \in OpToRel(<, Nat)
  BY <1>2, Zenon DEF OpToRel
<1>3. PICK x \in S : \A y \in S : ~(y < x)
  BY <1>1, <1>2, Zenon
<1>4. \A y \in S : x <= y
  BY <1>3
<1> QED
  BY <1>4 DEF Min

\* A set of naturals with an upper bound has a greatest element, and Max is it.
LEMMA MaxOfNaturals ==
    ASSUME NEW S \in SUBSET Nat, S # {}, NEW b \in Nat, \A x \in S : x <= b
    PROVE  Max(S) \in S /\ \A x \in S : Max(S) >= x
<1> DEFINE T == {y \in Nat : b - y \in S}
<1>1. T # {}
  <2>1. PICK x \in S : TRUE
    OBVIOUS
  <2>2. b - x \in T
    BY <2>1
  <2> QED
    BY <2>2
<1>2. Min(T) \in T /\ \A y \in T : Min(T) <= y
  BY <1>1, MinOfNaturals
<1>3. \A x \in S : b - Min(T) >= x
  <2> TAKE x \in S
  <2>1. b - x \in T
    OBVIOUS
  <2> QED
    BY <1>2, <2>1
<1>4. b - Min(T) \in S
  BY <1>2
<1> QED
  BY <1>3, <1>4 DEF Max

\* The smaller of two naturals.
LEMMA MinOfTwo ==
    ASSUME NEW a \in Nat, NEW b \in Nat
    PROVE  /\ Min({a, b}) \in {a, b}
           /\ Min({a, b}) <= a
           /\ Min({a, b}) <= b
  BY MinOfNaturals, {a, b} \in SUBSET Nat, {a, b} # {}

\* The larger of two naturals.
LEMMA MaxOfTwo ==
    ASSUME NEW a \in Nat, NEW b \in Nat
    PROVE  /\ Max({a, b}) \in {a, b}
           /\ Max({a, b}) >= a
           /\ Max({a, b}) >= b
<1>1. CASE a <= b
  BY <1>1, MaxOfNaturals, {a, b} \in SUBSET Nat, {a, b} # {}
<1>2. CASE b <= a
  BY <1>2, MaxOfNaturals, {a, b} \in SUBSET Nat, {a, b} # {}
<1> QED
  BY <1>1, <1>2
-----------------------------------------------------------------------------
(* Sequences written out *)

\* Sequences of up to four elements.
LEMMA ShortSequences ==
    ASSUME NEW S, NEW s \in Seq(S)
    PROVE  /\ Len(s) = 1 => s = <<s[1]>>
           /\ Len(s) = 2 => s = <<s[1], s[2]>>
           /\ Len(s) = 3 => s = <<s[1], s[2], s[3]>>
           /\ Len(s) = 4 => s = <<s[1], s[2], s[3], s[4]>>
<1>1. Len(s) = 1 => s = <<s[1]>>
  OBVIOUS
<1>2. Len(s) = 2 => s = <<s[1], s[2]>>
  OBVIOUS
<1>3. Len(s) = 3 => s = <<s[1], s[2], s[3]>>
  OBVIOUS
<1>4. Len(s) = 4 => s = <<s[1], s[2], s[3], s[4]>>
  OBVIOUS
<1> QED
  BY <1>1, <1>2, <1>3, <1>4

\* Their elements and lengths.
LEMMA ShortSequencesRead ==
    ASSUME NEW a, NEW b
    PROVE  /\ Len(<<a>>) = 1 /\ DOMAIN <<a>> = {1} /\ <<a>>[1] = a
           /\ Len(<<a, b>>) = 2 /\ <<a, b>>[1] = a /\ <<a, b>>[2] = b
<1>1. Len(<<a>>) = 1 /\ DOMAIN <<a>> = {1} /\ <<a>>[1] = a
  OBVIOUS
<1>2. Len(<<a, b>>) = 2 /\ <<a, b>>[1] = a /\ <<a, b>>[2] = b
  OBVIOUS
<1> QED
  BY <1>1, <1>2

\* An element appended to one of them.
LEMMA ShortSequencesExtended ==
    ASSUME NEW a, NEW b, NEW c
    PROVE  /\ Append(<<a>>, b) = <<a, b>>
           /\ Append(<<a, b>>, c) = <<a, b, c>>
<1> DEFINE S == {a, b, c}
           x == Append(<<a>>, b)
           y == Append(<<a, b>>, c)
<1>1. x \in Seq(S) /\ Len(x) = 2 /\ x[1] = a /\ x[2] = b
  OBVIOUS
<1>2. y \in Seq(S) /\ Len(y) = 3 /\ y[1] = a /\ y[2] = b /\ y[3] = c
  OBVIOUS
<1> HIDE DEF x, y, S
<1>3. x = <<a, b>> /\ y = <<a, b, c>>
  BY <1>1, <1>2, ShortSequences
<1> QED
  BY <1>3 DEF x, y

\* Two of them joined.
LEMMA ShortSequencesJoined ==
    ASSUME NEW a, NEW b, NEW c
    PROVE  /\ <<a>> \o <<b>> = <<a, b>>
           /\ <<a>> \o <<b, c>> = <<a, b, c>>
           /\ <<a, b>> \o <<c>> = <<a, b, c>>
           /\ <<a, b>> \o <<>> = <<a, b>>
           /\ <<a, b, c>> \o <<>> = <<a, b, c>>
<1> DEFINE S == {a, b, c}
<1>1. <<a>> \in Seq(S) /\ <<a, b>> \in Seq(S) /\ <<a, b, c>> \in Seq(S)
  OBVIOUS
<1>2. /\ <<a>> \o <<b>> = Append(<<a>>, b)
      /\ <<a, b>> \o <<c>> = Append(<<a, b>>, c)
  BY <1>1, AppendIsConcat
<1>3. <<a, b>> \o <<>> = <<a, b>> /\ <<a, b, c>> \o <<>> = <<a, b, c>>
  BY <1>1, ConcatEmptySeq
<1>4. <<a>> \o <<b, c>> = <<a, b, c>>
  <2> DEFINE x == <<a>> \o <<b, c>>
  <2>1. <<b, c>> \in Seq(S)
    OBVIOUS
  <2>2. /\ x \in Seq(S) /\ Len(x) = 3
        /\ \A i \in 1..3 : x[i] = IF i <= 1 THEN <<a>>[i] ELSE <<b, c>>[i - 1]
    BY <1>1, <2>1, ConcatProperties
  <2>3. x[1] = a /\ x[2] = b /\ x[3] = c
    BY <2>2
  <2> HIDE DEF x, S
  <2>4. x = <<a, b, c>>
    BY <2>2, <2>3, ShortSequences
  <2> QED
    BY <2>4 DEF x
<1>5. /\ <<a>> \o <<b>> = <<a, b>>
      /\ <<a, b>> \o <<c>> = <<a, b, c>>
  BY <1>2, ShortSequencesExtended
<1> QED
  BY <1>3, <1>4, <1>5

\* Three and one.
LEMMA ShortSequencesJoinedToFour ==
    ASSUME NEW a, NEW b, NEW c, NEW d
    PROVE  <<a, b, c>> \o <<d>> = <<a, b, c, d>>
<1> DEFINE S == {a, b, c, d}
<1>1. <<a, b, c>> \in Seq(S)
  OBVIOUS
<1>2. <<a, b, c>> \o <<d>> = Append(<<a, b, c>>, d)
  BY <1>1, AppendIsConcat
<1>3. Append(<<a, b, c>>, d) = <<a, b, c, d>>
  <2> DEFINE z == Append(<<a, b, c>>, d)
  <2>1. z \in Seq(S) /\ Len(z) = 4 /\ z[1] = a /\ z[2] = b /\ z[3] = c /\ z[4] = d
    OBVIOUS
  <2> HIDE DEF z, S
  <2>2. z = <<a, b, c, d>>
    BY <2>1, ShortSequences
  <2> QED
    BY <2>2 DEF z
<1> QED
  BY <1>2, <1>3
-----------------------------------------------------------------------------
(* Logs *)

\* A log that handleAppendEntries leaves behind is a log again, and it still
\* starts with the entries up to prevLogIndex (rules 3 and 4).
LEMMA MergeEntriesIsLog ==
    ASSUME NEW E, NEW l \in Seq(E), NEW es \in Seq(E), NEW prev \in 0..Len(l)
    PROVE  /\ KeptLength(l, prev, es) \in prev..Len(l)
           /\ MergeEntries(l, prev, es) \in Seq(E)
<1> DEFINE conflicts == {i \in prev+1..Len(l) :
                           i - prev <= Len(es) /\ l[i].term # es[i - prev].term}
           kept == KeptLength(l, prev, es)
<1>1. kept \in prev..Len(l)
  <2>1. CASE conflicts = {}
    BY <2>1 DEF KeptLength
  <2>2. CASE conflicts # {}
    <3>1. Min(conflicts) \in conflicts
      BY <2>2, MinOfNaturals, conflicts \in SUBSET Nat
    <3> QED
      BY <2>2, <3>1 DEF KeptLength
  <2> QED
    BY <2>1, <2>2
<1>2. SubSeq(l, 1, kept) \in Seq(E)
  <2>1. \A i \in 1..kept : l[i] \in E
    BY <1>1
  <2> QED
    BY <1>1, <2>1, SubSeqProperties
<1>3. SubSeq(es, kept - prev + 1, Len(es)) \in Seq(E)
  <2>1. \A i \in kept - prev + 1 .. Len(es) : es[i] \in E
    BY <1>1
  <2> QED
    BY <1>1, <2>1, SubSeqProperties
<1> QED
  BY <1>1, <1>2, <1>3 DEF MergeEntries

\* The run of a term that ends at index i starts between 1 and i.
LEMMA FirstOfTermInLog ==
    ASSUME NEW l, NEW i \in Nat \ {0}
    PROVE  FirstOfTerm(l, i) \in 1..i
<1> DEFINE S == {j \in 1..i : \A k \in j..i : l[k].term = l[i].term}
<1>1. i \in S
  OBVIOUS
<1>2. Min(S) \in S
  BY <1>1, MinOfNaturals, S \in SUBSET Nat
<1> QED
  BY <1>2 DEF FirstOfTerm

\* Every reply of handleAppendEntries has fields of the declared types.
LEMMA ConsistencyReplyIsReply ==
    ASSUME NEW E, NEW l \in Seq(E), \A i \in 1..Len(l) : l[i].term \in Nat,
           NEW term \in Nat, NEW args, args.prevLogIndex \in Nat
    PROVE  ConsistencyReply(l, term, args) \in
             [type : {"AppendEntriesReply"}, term : Nat, success : BOOLEAN,
              conflictIndex : Nat \cup {-1}, conflictTerm : Nat \cup {-1}]
<1>1. CASE PrevMissing(l, args)
  BY <1>1 DEF ConsistencyReply, AppendReply
<1>2. CASE PrevMismatch(l, args)
  <2>1. FirstOfTerm(l, args.prevLogIndex) \in Nat
    BY <1>2, FirstOfTermInLog DEF PrevMismatch
  <2>2. l[args.prevLogIndex].term \in Nat
    BY <1>2 DEF PrevMismatch
  <2> QED
    BY <1>2, <2>1, <2>2 DEF ConsistencyReply, AppendReply, PrevMissing, PrevMismatch
<1>3. CASE LogConsistent(l, args)
  BY <1>3 DEF ConsistencyReply, AppendReply, LogConsistent
<1> QED
  BY <1>1, <1>2, <1>3 DEF LogConsistent

\* However far a reply makes the leader back off, nextIndex_ stays at least 1.
LEMMA BackedOffIsPositive ==
    ASSUME NEW l, Len(l) \in Nat, NEW reply, reply.conflictIndex \in Nat \cup {-1}
    PROVE  BackedOffNextIndex(l, reply) \in Nat \ {0}
<1> DEFINE sameTerm == {i \in 1..Len(l) : l[i].term = reply.conflictTerm}
<1>1. CASE sameTerm # {}
  <2>1. Max(sameTerm) \in sameTerm
    BY <1>1, MaxOfNaturals, sameTerm \in SUBSET Nat, \A x \in sameTerm : x <= Len(l)
  <2> QED
    BY <1>1, <2>1 DEF BackedOffNextIndex
<1>2. CASE sameTerm = {}
  BY <1>2 DEF BackedOffNextIndex
<1> QED
  BY <1>1, <1>2

\* What createAppendEntriesArgs sends: a suffix of the log, as a log.
LEMMA CreateArgsFields ==
    ASSUME NEW E, NEW l \in Seq(E), \A i \in 1..Len(l) : l[i].term \in Nat,
           NEW term \in Nat, NEW leader, NEW next \in Nat \ {0}, NEW commit \in Nat
    PROVE  CreateArgs(l, term, leader, next, commit) \in
             [type : {"AppendEntriesArgs"}, term : {term}, leaderId : {leader},
              prevLogIndex : Nat, prevLogTerm : Nat, entries : Seq(E), leaderCommit : Nat]
<1>1. SubSeq(l, next, Len(l)) \in Seq(E)
  <2>1. \A i \in next..Len(l) : l[i] \in E
    OBVIOUS
  <2> QED
    BY <2>1, SubSeqProperties
<1> QED
  BY <1>1 DEF CreateArgs
-----------------------------------------------------------------------------
(* Logs of which each explains the other: the reason why handleAppendEntries *)
(* may compare terms only.                                                   *)

\* Wherever k has an entry of the term of an entry of l, not later than it, the
\* logs agree up to it.
Explains(l, k) ==
    \A i \in 1..Len(k), j \in 1..Len(l) :
        i <= j /\ k[i].term = l[j].term => \A x \in 1..i : k[x] = l[x]

\* Log k is a beginning of log l.
StartsWith(l, k) == Len(k) <= Len(l) /\ \A x \in 1..Len(k) : k[x] = l[x]

\* The arguments carry what follows prevLogIndex in the log g.
Cut(args, g) ==
    /\ args.prevLogTerm = IF args.prevLogIndex \in 1..Len(g) THEN g[args.prevLogIndex].term ELSE 0
    /\ args.entries = SubSeq(g, args.prevLogIndex + 1, Len(g))

\* What follows index prev in a log, element by element.
LEMMA SuffixProperties ==
    ASSUME NEW E, NEW g \in Seq(E), NEW prev \in Nat
    PROVE  LET es == SubSeq(g, prev + 1, Len(g))
           IN  /\ es \in Seq(E)
               /\ prev <= Len(g) => Len(es) = Len(g) - prev
               /\ prev > Len(g) => es = <<>> /\ Len(es) = 0
               /\ \A k \in 1..Len(es) : es[k] = g[prev + k]
<1>1. \A i \in prev + 1 .. Len(g) : g[i] \in E
  OBVIOUS
<1> QED
  BY <1>1, SubSeqProperties

\* Logs that agree up to index i have the same first i entries.
LEMMA SamePrefix ==
    ASSUME NEW E, NEW l \in Seq(E), NEW g \in Seq(E), NEW i \in Nat, i <= Len(l), i <= Len(g),
           \A x \in 1..i : l[x] = g[x]
    PROVE  SubSeq(l, 1, i) = SubSeq(g, 1, i)
<1>1. /\ SubSeq(l, 1, i) \in Seq(E) /\ SubSeq(g, 1, i) \in Seq(E)
      /\ Len(SubSeq(l, 1, i)) = i /\ Len(SubSeq(g, 1, i)) = i
      /\ \A x \in 1..i : SubSeq(l, 1, i)[x] = l[x] /\ SubSeq(g, 1, i)[x] = g[x]
  <2>1. \A x \in 1..i : l[x] \in E /\ g[x] \in E
    OBVIOUS
  <2> QED
    BY <2>1, SubSeqProperties
<1> QED
  BY <1>1, SeqEqual

\* A beginning of g that l shares, followed by the rest of g, is g.
LEMMA Splice ==
    ASSUME NEW E, NEW l \in Seq(E), NEW g \in Seq(E), NEW prev \in Nat, NEW kept \in Nat,
           prev <= kept, kept <= Len(l), kept <= Len(g), \A x \in 1..kept : l[x] = g[x]
    PROVE  LET es == SubSeq(g, prev + 1, Len(g))
           IN  SubSeq(l, 1, kept) \o SubSeq(es, kept - prev + 1, Len(es)) = g
<1> DEFINE es == SubSeq(g, prev + 1, Len(g))
           a == SubSeq(l, 1, kept)
           b == SubSeq(es, kept - prev + 1, Len(es))
           c == SubSeq(g, kept + 1, Len(g))
<1>1. es \in Seq(E) /\ Len(es) = Len(g) - prev /\ \A k \in 1..Len(es) : es[k] = g[prev + k]
  BY SuffixProperties
<1> HIDE DEF es
<1>2. a = SubSeq(g, 1, kept)
  BY SamePrefix
<1>3. c \in Seq(E) /\ Len(c) = Len(g) - kept /\ \A k \in 1..Len(c) : c[k] = g[kept + k]
  BY SuffixProperties
<1>4. b \in Seq(E) /\ Len(b) = Len(g) - kept /\ \A k \in 1..Len(b) : b[k] = es[kept - prev + k]
  <2>1. b \in Seq(E) /\ Len(b) = Len(es) - (kept - prev) /\ \A k \in 1..Len(b) : b[k] = es[(kept - prev) + k]
    <3>1. kept - prev \in Nat /\ kept - prev <= Len(es)
      BY <1>1
    <3> QED
      BY <1>1, <3>1, SuffixProperties
  <2> QED
    BY <1>1, <2>1
<1>5. ASSUME NEW k \in 1..Len(b) PROVE b[k] = c[k]
  <2>1. kept - prev + k \in 1..Len(es) /\ prev + (kept - prev + k) = kept + k
    BY <1>1, <1>4
  <2>2. b[k] = g[kept + k]
    BY <1>1, <1>4, <2>1
  <2> QED
    BY <1>3, <1>4, <2>2
<1> HIDE DEF b, c
<1>6. b = c
  BY <1>3, <1>4, <1>5, SeqEqual
<1>7. SubSeq(g, 1, kept) \o SubSeq(g, kept + 1, Len(g)) = SubSeq(g, 1, Len(g))
  <2>1. 1 \in 1..Len(g)+1 /\ kept \in (1-1)..Len(g) /\ Len(g) \in kept..Len(g)
    OBVIOUS
  <2> QED
    BY <2>1, ConcatAdjacentSubSeq
<1>8. SubSeq(g, 1, Len(g)) = g
  BY SubSeqFull
<1> QED
  BY <1>2, <1>6, <1>7, <1>8 DEF a, b, c, es

\* Rule 4 of handleAppendEntries makes no new log: when the entry at
\* prevLogIndex matches, a log into which the rest of g is merged stays as it
\* is if it has all of g, and becomes g if not.
LEMMA MergeYieldsOneOfBoth ==
    ASSUME NEW E, NEW l \in Seq(E), NEW g \in Seq(E), NEW prev \in Nat,
           prev <= Len(l), prev <= Len(g),
           prev > 0 => l[prev].term = g[prev].term,
           Explains(g, l)
    PROVE  MergeEntries(l, prev, SubSeq(g, prev + 1, Len(g))) = IF StartsWith(l, g) THEN l ELSE g
<1> DEFINE es == SubSeq(g, prev + 1, Len(g))
           conflicts == {i \in prev+1..Len(l) :
                           i - prev <= Len(es) /\ l[i].term # es[i - prev].term}
           kept == KeptLength(l, prev, es)
<1>1. es \in Seq(E) /\ Len(es) = Len(g) - prev /\ \A k \in 1..Len(es) : es[k] = g[prev + k]
  BY SuffixProperties
<1> HIDE DEF es
<1>2. ASSUME NEW m \in Nat, prev <= m, m <= Len(l), m <= Len(g),
             \A i \in prev+1..m : l[i].term = es[i - prev].term
      PROVE  \A x \in 1..m : l[x] = g[x]
  <2>1. CASE m = prev
    BY <2>1 DEF Explains
  <2>2. CASE m > prev
    <3>1. m - prev \in 1..Len(es) /\ l[m].term = es[m - prev].term
      BY <1>1, <1>2, <2>2
    <3>2. l[m].term = g[m].term
      BY <1>1, <1>2, <3>1
    <3> QED
      BY <1>2, <2>2, <3>2 DEF Explains
  <2> QED
    BY <1>2, <2>1, <2>2
<1>3. MergeEntries(l, prev, es) = SubSeq(l, 1, kept) \o SubSeq(es, kept - prev + 1, Len(es))
  BY DEF MergeEntries
<1>4. CASE conflicts = {}
  <2>1. kept = Len(l)
    BY <1>4 DEF KeptLength
  <2>2. CASE Len(l) >= Len(g)
    <3>1. SubSeq(l, 1, kept) = l
      BY <2>1, SubSeqFull
    <3>2. SubSeq(es, kept - prev + 1, Len(es)) = <<>>
      BY <1>1, <2>1, <2>2, SubSeqEmpty
    <3>3. l \o <<>> = l
      BY ConcatEmptySeq
    <3>4. \A i \in prev+1..Len(g) : l[i].term = es[i - prev].term
      BY <1>1, <1>4, <2>2
    <3>5. StartsWith(l, g)
      <4>1. \A x \in 1..Len(g) : l[x] = g[x]
        BY <1>2, <2>2, <3>4
      <4> QED
        BY <2>2, <4>1 DEF StartsWith
    <3> QED
      BY <1>3, <3>1, <3>2, <3>3, <3>5 DEF es
  <2>3. CASE Len(l) < Len(g)
    <3>1. \A i \in prev+1..Len(l) : l[i].term = es[i - prev].term
      BY <1>1, <1>4, <2>3
    <3>2. \A x \in 1..Len(l) : l[x] = g[x]
      BY <1>2, <2>3, <3>1
    <3>3. SubSeq(l, 1, Len(l)) \o SubSeq(es, Len(l) - prev + 1, Len(es)) = g
      <4>1. Len(l) \in Nat /\ prev <= Len(l) /\ Len(l) <= Len(l) /\ Len(l) <= Len(g)
        BY <2>3
      <4> QED
        BY ONLY <3>2, <4>1, Splice, l \in Seq(E), g \in Seq(E), prev \in Nat DEF es
    <3>4. ~StartsWith(l, g)
      BY <2>3 DEF StartsWith
    <3> QED
      BY <1>3, <2>1, <3>3, <3>4 DEF es
  <2> QED
    BY <2>2, <2>3
<1>5. CASE conflicts # {}
  <2>1. Min(conflicts) \in conflicts /\ \A x \in conflicts : Min(conflicts) <= x
    BY <1>5, MinOfNaturals, conflicts \in SUBSET Nat
  <2>2. kept = Min(conflicts) - 1
    BY <1>5 DEF KeptLength
  <2>3. kept \in Nat /\ prev <= kept /\ kept <= Len(l) /\ kept <= Len(g)
    BY <1>1, <2>1, <2>2
  <2>4. ASSUME NEW i \in prev+1..kept PROVE l[i].term = es[i - prev].term
    <3>1. i \notin conflicts
      BY <2>1, <2>2, <2>3
    <3>2. i \in prev+1..Len(l) /\ i - prev <= Len(es)
      BY <1>1, <2>3
    <3> QED
      BY <3>1, <3>2
  <2>5. \A x \in 1..kept : l[x] = g[x]
    BY <1>2, <2>3, <2>4
  <2>6. SubSeq(l, 1, kept) \o SubSeq(es, kept - prev + 1, Len(es)) = g
    BY <2>3, <2>5, Splice DEF es
  <2>7. ~StartsWith(l, g)
    <3>1. PICK i \in conflicts : TRUE
      BY <1>5
    <3>2. i \in 1..Len(g) /\ i - prev \in 1..Len(es) /\ prev + (i - prev) = i /\ l[i].term # es[i - prev].term
      BY <1>1, <3>1
    <3>3. l[i].term # g[i].term
      BY <1>1, <3>2
    <3> QED
      BY <3>2, <3>3 DEF StartsWith
  <2> QED
    BY <1>3, <2>6, <2>7 DEF es
<1> QED
  BY <1>4, <1>5 DEF es
-----------------------------------------------------------------------------
(* Encoded messages *)

\* A field of a message, or nothing where it has its default value, adds what it
\* says to the message and leaves the other fields.
LEMMA OptionalField ==
    ASSUME NEW S, NEW w \in Seq(S), NEW n, NEW v, NEW field,
           \/ field = <<>>
           \/ field = Field(n, v) /\ [number |-> n, value |-> v] \in S
    PROVE  /\ w \o field \in Seq(S)
           /\ \A k, d : Latest(w \o field, k, d) = IF k = n /\ field # <<>> THEN v ELSE Latest(w, k, d)
           /\ \A N : StringsValid(w \o field, N) <=>
                       StringsValid(w, N) /\ (field # <<>> /\ n \in N => Utf8(v))
<1>1. CASE field = <<>>
  BY <1>1, w \o <<>> = w
<1>2. CASE field = Field(n, v) /\ [number |-> n, value |-> v] \in S
  <2> DEFINE e == [number |-> n, value |-> v]
             x == w \o field
             found(y, k) == {i \in DOMAIN y : y[i].number = k}
  <2>1. field = <<e>> /\ field \in Seq(S) /\ field # <<>>
    BY <1>2 DEF Field
  <2>2. /\ x \in Seq(S) /\ Len(x) = Len(w) + 1 /\ x[Len(x)] = e
        /\ Len(w) \in Nat /\ \A i \in 1..Len(w) : x[i] = w[i]
        /\ DOMAIN x = 1..Len(w) + 1 /\ DOMAIN w = 1..Len(w)
    BY <2>1
  <2>3. e.number = n /\ e.value = v
    OBVIOUS
  <2> HIDE DEF x, e
  <2>4. ASSUME NEW k, NEW d
        PROVE  Latest(x, k, d) = IF k = n THEN v ELSE Latest(w, k, d)
    <3>1. CASE k = n
      <4>1. Len(x) \in found(x, k) /\ \A j \in found(x, k) : j <= Len(x)
        BY <2>2, <2>3, <3>1
      <4>2. \A i \in found(x, k) : (\A j \in found(x, k) : j <= i) => i = Len(x)
        BY <2>2, <4>1
      <4>3. (CHOOSE i \in found(x, k) : \A j \in found(x, k) : j <= i) = Len(x)
        <5> HIDE DEF found
        <5> QED
          BY <4>1, <4>2
      <4>4. Latest(x, k, d) = x[Len(x)].value
        BY <4>1, <4>3 DEF Latest
      <4> QED
        BY <2>2, <2>3, <3>1, <4>4
    <3>2. CASE k # n
      <4>1. found(x, k) = found(w, k)
        BY <2>2, <2>3, <3>2
      <4>2. CASE found(w, k) = {}
        BY <3>2, <4>1, <4>2 DEF Latest
      <4>3. CASE found(w, k) # {}
        <5> DEFINE i == CHOOSE h \in found(w, k) : \A j \in found(w, k) : j <= h
                   m == CHOOSE h \in found(x, k) : \A j \in found(x, k) : j <= h
        <5>1. m = i
          BY <4>1, Zenon
        <5>2. Latest(x, k, d) = x[m].value /\ Latest(w, k, d) = w[i].value
          BY <4>1, <4>3 DEF Latest
        <5>3. /\ found(w, k) \in SUBSET Nat
              /\ \A y \in found(w, k) : y <= Len(w)
          BY <2>2
        <5>4. \E y \in found(w, k) : \A j \in found(w, k) : j <= y
          BY <4>3, <5>3, <2>2, MaxOfNaturals
        <5>5. i \in found(w, k)
          <6> HIDE DEF found
          <6> QED
            BY <5>4
        <5>6. x[i] = w[i]
          BY <2>2, <5>5
        <5> QED
          BY <3>2, <5>1, <5>2, <5>6
      <4> QED
        BY <4>2, <4>3
    <3> QED
      BY <3>1, <3>2
  <2>5. ASSUME NEW N
        PROVE  StringsValid(x, N) <=> StringsValid(w, N) /\ (n \in N => Utf8(v))
    BY <2>2, <2>3 DEF StringsValid
  <2> QED
    BY <2>1, <2>2, <2>4, <2>5 DEF x
<1> QED
  BY <1>1, <1>2

\* The empty message says nothing.
LEMMA EmptyMessage ==
    /\ \A k, d : Latest(<<>>, k, d) = d
    /\ \A N : StringsValid(<<>>, N)
  BY DEF Latest, StringsValid

\* The numbers an int32 can hold, and how one is written.
Int32 == -128..127
Varint(v) == IF v < 0 THEN v + Mod64 ELSE v

\* The sizes of the words.
LEMMA Sizes == Mod32 = 256 /\ Mod64 = 65536
<1>1. 2^8 = 256 /\ 2^16 = 65536
  OBVIOUS
<1> QED
  BY <1>1 DEF Mod32, Mod64

\* Each kind of field is absent or a field with the value written.
LEMMA FieldsAreOptional ==
    ASSUME NEW n, NEW v
    PROVE  /\ Int32Field(n, v) = IF v = 0 THEN <<>> ELSE Field(n, Varint(v))
           /\ BoolField(n, v) = IF v THEN Field(n, 1) ELSE <<>>
           /\ StringField(n, v) = IF v = EmptyString THEN <<>> ELSE Field(n, v)
           /\ \A x : Field(n, x) # <<>>
  BY DEF Int32Field, BoolField, StringField, Varint, Field

\* What is read of a field that was written, or left out.
LEMMA FieldIsRead ==
    ASSUME NEW w, NEW n
    PROVE  /\ \A v \in Int32 :
                Latest(w, n, 0) = (IF v = 0 THEN 0 ELSE Varint(v)) => Int32At(w, n) = v
           /\ \A v \in BOOLEAN : Latest(w, n, 0) = (IF v THEN 1 ELSE 0) => BoolAt(w, n) = v
<1>1. ASSUME NEW v \in Int32, Latest(w, n, 0) = (IF v = 0 THEN 0 ELSE Varint(v))
      PROVE  Int32At(w, n) = v
  <2>1. Latest(w, n, 0) = IF v < 0 THEN v + 65536 ELSE v
    BY <1>1, Sizes DEF Varint, Int32
  <2>2. Latest(w, n, 0) % 256 = IF v < 0 THEN v + 256 ELSE v
    BY <2>1 DEF Int32
  <2>3. 256 \div 2 = 128
    OBVIOUS
  <2> QED
    BY <2>2, <2>3, Sizes DEF Int32At, Int32
<1>2. \A v \in BOOLEAN : Latest(w, n, 0) = (IF v THEN 1 ELSE 0) => BoolAt(w, n) = v
  BY DEF BoolAt
<1> QED
  BY <1>1, <1>2

\* The empty string is UTF-8.
LEMMA EmptyStringIsUtf8 == Utf8(EmptyString)
<1>1. ASSUME NEW p, p # NotUtf8
      PROVE  Utf8(<<p>>)
  <2>1. DOMAIN <<p>> = {1} /\ <<p>>[1] = p
    OBVIOUS
  <2> QED
    BY <1>1, <2>1 DEF Utf8
<1>2. "" # NotUtf8
  BY DEF NotUtf8
<1> QED
  BY <1>1, <1>2 DEF EmptyString

\* A client's request is read as it was made, or, if a string is not UTF-8, not
\* at all.
LEMMA ClientRequestArrives ==
    ASSUME NEW op \in Int32, NEW key, NEW val
    PROVE  LET m == [operation |-> op, key |-> key, value |-> val]
           IN  ParseClientRequest(SerializeClientRequest(m)) =
                 IF Utf8(key) /\ Utf8(val) THEN m ELSE Malformed
<1> DEFINE m == [operation |-> op, key |-> key, value |-> val]
           S == [number : {1, 2, 3}, value : {Varint(op), key, val}]
           f1 == Int32Field(1, op)
           f2 == StringField(2, key)
           f3 == StringField(3, val)
           w0 == <<>>
           w1 == w0 \o f1
           w2 == w1 \o f2
           w3 == w2 \o f3
<1>1. /\ f1 = <<>> \/ (f1 = Field(1, Varint(op)) /\ [number |-> 1, value |-> Varint(op)] \in S)
      /\ f2 = <<>> \/ (f2 = Field(2, key) /\ [number |-> 2, value |-> key] \in S)
      /\ f3 = <<>> \/ (f3 = Field(3, val) /\ [number |-> 3, value |-> val] \in S)
      /\ f1 = <<>> <=> op = 0
      /\ f2 = <<>> <=> key = EmptyString
      /\ f3 = <<>> <=> val = EmptyString
  BY FieldsAreOptional
<1>2. /\ w0 \in Seq(S)
      /\ \A k, d : Latest(w0, k, d) = d
      /\ \A N : StringsValid(w0, N)
  <2>1. <<>> \in Seq(S)
    OBVIOUS
  <2> QED
    BY <2>1, EmptyMessage
<1>3. SerializeClientRequest(m) = w3
  <2>1. SerializeClientRequest(m) = f1 \o f2 \o f3
    BY DEF SerializeClientRequest
  <2>2. <<>> \o f1 = f1
    BY <1>1 DEF Field
  <2> QED
    BY <2>1, <2>2
<1> HIDE DEF S, f1, f2, f3, w0
<1>4. /\ w1 \in Seq(S)
      /\ \A k, d : Latest(w1, k, d) = IF k = 1 /\ f1 # <<>> THEN Varint(op) ELSE Latest(w0, k, d)
      /\ \A N : StringsValid(w1, N) <=> StringsValid(w0, N) /\ (f1 # <<>> /\ 1 \in N => Utf8(Varint(op)))
  BY <1>1, <1>2, OptionalField
<1> HIDE DEF w1
<1>5. /\ w2 \in Seq(S)
      /\ \A k, d : Latest(w2, k, d) = IF k = 2 /\ f2 # <<>> THEN key ELSE Latest(w1, k, d)
      /\ \A N : StringsValid(w2, N) <=> StringsValid(w1, N) /\ (f2 # <<>> /\ 2 \in N => Utf8(key))
  BY <1>1, <1>4, OptionalField
<1> HIDE DEF w2
<1>6. /\ w3 \in Seq(S)
      /\ \A k, d : Latest(w3, k, d) = IF k = 3 /\ f3 # <<>> THEN val ELSE Latest(w2, k, d)
      /\ \A N : StringsValid(w3, N) <=> StringsValid(w2, N) /\ (f3 # <<>> /\ 3 \in N => Utf8(val))
  BY <1>1, <1>5, OptionalField
<1> HIDE DEF w3
<1>7. StringsValid(w3, {2, 3}) <=> Utf8(key) /\ Utf8(val)
  <2>1. Utf8(EmptyString)
    BY EmptyStringIsUtf8
  <2>2. StringsValid(w1, {2, 3})
    BY <1>2, <1>4
  <2>3. StringsValid(w2, {2, 3}) <=> Utf8(key)
    BY <1>1, <1>5, <2>1, <2>2
  <2> QED
    BY <1>1, <1>6, <2>1, <2>3
<1>8. Int32At(w3, 1) = op
  <2>1. Latest(w3, 1, 0) = IF op = 0 THEN 0 ELSE Varint(op)
    BY <1>1, <1>2, <1>4, <1>5, <1>6
  <2> QED
    BY <2>1, FieldIsRead
<1>9. StringAt(w3, 2) = key /\ StringAt(w3, 3) = val
  <2> DEFINE e == EmptyString
  <2>1. Latest(w1, 2, e) = e /\ Latest(w1, 3, e) = e
    BY <1>2, <1>4
  <2>2. Latest(w2, 2, e) = key /\ Latest(w2, 3, e) = e
    BY <1>1, <1>5, <2>1
  <2>3. Latest(w3, 2, e) = key /\ Latest(w3, 3, e) = val
    BY <1>1, <1>6, <2>2
  <2> QED
    BY <2>3 DEF StringAt
<1> QED
  BY <1>3, <1>7, <1>8, <1>9 DEF ParseClientRequest, m

\* A server's answer is read as it was given, or not at all.
LEMMA ClientResponseArrives ==
    ASSUME NEW ok \in BOOLEAN, NEW val, NEW error, NEW leads \in BOOLEAN, NEW address
    PROVE  LET m == [success |-> ok, value |-> val, error |-> error,
                     is_leader |-> leads, leader_address |-> address]
           IN  ParseClientResponse(SerializeClientResponse(m)) =
                 IF Utf8(val) /\ Utf8(error) /\ Utf8(address) THEN m ELSE Malformed
<1> DEFINE m == [success |-> ok, value |-> val, error |-> error,
                 is_leader |-> leads, leader_address |-> address]
           S == [number : {1, 2, 3, 4, 5}, value : {1, val, error, address}]
           f1 == BoolField(1, ok)
           f2 == StringField(2, val)
           f3 == StringField(3, error)
           f4 == BoolField(4, leads)
           f5 == StringField(5, address)
           w0 == <<>>
           w1 == w0 \o f1
           w2 == w1 \o f2
           w3 == w2 \o f3
           w4 == w3 \o f4
           w5 == w4 \o f5
<1>1. /\ f1 = <<>> \/ (f1 = Field(1, 1) /\ [number |-> 1, value |-> 1] \in S)
      /\ f2 = <<>> \/ (f2 = Field(2, val) /\ [number |-> 2, value |-> val] \in S)
      /\ f3 = <<>> \/ (f3 = Field(3, error) /\ [number |-> 3, value |-> error] \in S)
      /\ f4 = <<>> \/ (f4 = Field(4, 1) /\ [number |-> 4, value |-> 1] \in S)
      /\ f5 = <<>> \/ (f5 = Field(5, address) /\ [number |-> 5, value |-> address] \in S)
      /\ f1 = <<>> <=> ~ok
      /\ f2 = <<>> <=> val = EmptyString
      /\ f3 = <<>> <=> error = EmptyString
      /\ f4 = <<>> <=> ~leads
      /\ f5 = <<>> <=> address = EmptyString
  BY FieldsAreOptional
<1>2. /\ w0 \in Seq(S)
      /\ \A k, d : Latest(w0, k, d) = d
      /\ \A N : StringsValid(w0, N)
  <2>1. <<>> \in Seq(S)
    OBVIOUS
  <2> QED
    BY <2>1, EmptyMessage
<1>3. SerializeClientResponse(m) = w5
  <2>1. SerializeClientResponse(m) = f1 \o f2 \o f3 \o f4 \o f5
    BY DEF SerializeClientResponse
  <2>2. <<>> \o f1 = f1
    BY <1>1 DEF Field
  <2> QED
    BY <2>1, <2>2
<1> HIDE DEF S, f1, f2, f3, f4, f5, w0
<1>4. /\ w1 \in Seq(S)
      /\ \A k, d : Latest(w1, k, d) = IF k = 1 /\ f1 # <<>> THEN 1 ELSE Latest(w0, k, d)
      /\ \A N : StringsValid(w1, N) <=> StringsValid(w0, N) /\ (f1 # <<>> /\ 1 \in N => Utf8(1))
  BY <1>1, <1>2, OptionalField
<1> HIDE DEF w1
<1>5. /\ w2 \in Seq(S)
      /\ \A k, d : Latest(w2, k, d) = IF k = 2 /\ f2 # <<>> THEN val ELSE Latest(w1, k, d)
      /\ \A N : StringsValid(w2, N) <=> StringsValid(w1, N) /\ (f2 # <<>> /\ 2 \in N => Utf8(val))
  BY <1>1, <1>4, OptionalField
<1> HIDE DEF w2
<1>6. /\ w3 \in Seq(S)
      /\ \A k, d : Latest(w3, k, d) = IF k = 3 /\ f3 # <<>> THEN error ELSE Latest(w2, k, d)
      /\ \A N : StringsValid(w3, N) <=> StringsValid(w2, N) /\ (f3 # <<>> /\ 3 \in N => Utf8(error))
  BY <1>1, <1>5, OptionalField
<1> HIDE DEF w3
<1>7. /\ w4 \in Seq(S)
      /\ \A k, d : Latest(w4, k, d) = IF k = 4 /\ f4 # <<>> THEN 1 ELSE Latest(w3, k, d)
      /\ \A N : StringsValid(w4, N) <=> StringsValid(w3, N) /\ (f4 # <<>> /\ 4 \in N => Utf8(1))
  BY <1>1, <1>6, OptionalField
<1> HIDE DEF w4
<1>8. /\ w5 \in Seq(S)
      /\ \A k, d : Latest(w5, k, d) = IF k = 5 /\ f5 # <<>> THEN address ELSE Latest(w4, k, d)
      /\ \A N : StringsValid(w5, N) <=> StringsValid(w4, N) /\ (f5 # <<>> /\ 5 \in N => Utf8(address))
  BY <1>1, <1>7, OptionalField
<1> HIDE DEF w5
<1>9. StringsValid(w5, {2, 3, 5}) <=> Utf8(val) /\ Utf8(error) /\ Utf8(address)
  <2>1. Utf8(EmptyString)
    BY EmptyStringIsUtf8
  <2>2. StringsValid(w3, {2, 3, 5}) <=> Utf8(val) /\ Utf8(error)
    BY <1>1, <1>2, <1>4, <1>5, <1>6, <2>1
  <2> QED
    BY <1>1, <1>7, <1>8, <2>1, <2>2
<1>10. BoolAt(w5, 1) = ok /\ BoolAt(w5, 4) = leads
  <2>1. Latest(w5, 1, 0) = Latest(w2, 1, 0) /\ Latest(w5, 4, 0) = (IF leads THEN 1 ELSE Latest(w2, 4, 0))
    BY <1>1, <1>6, <1>7, <1>8
  <2>2. Latest(w2, 1, 0) = (IF ok THEN 1 ELSE 0) /\ Latest(w2, 4, 0) = 0
    BY <1>1, <1>2, <1>4, <1>5
  <2> QED
    BY <2>1, <2>2, FieldIsRead
<1>11. StringAt(w5, 2) = val /\ StringAt(w5, 3) = error /\ StringAt(w5, 5) = address
  <2> DEFINE e == EmptyString
  <2>1. Latest(w5, 2, e) = Latest(w3, 2, e) /\ Latest(w5, 3, e) = Latest(w3, 3, e)
    BY <1>7, <1>8
  <2>2. Latest(w5, 5, e) = IF f5 # <<>> THEN address ELSE Latest(w3, 5, e)
    BY <1>7, <1>8
  <2>3. /\ Latest(w3, 2, e) = val /\ Latest(w3, 3, e) = error /\ Latest(w3, 5, e) = e
    BY <1>1, <1>2, <1>4, <1>5, <1>6
  <2> QED
    BY <1>1, <2>1, <2>2, <2>3 DEF StringAt
<1> QED
  BY <1>3, <1>9, <1>10, <1>11 DEF ParseClientResponse, m

\* An entry of the log is read as it was written, if its command is UTF-8.
LEMMA LogEntryArrives ==
    ASSUME NEW term \in Int32, NEW index \in Int32, NEW command, Utf8(command)
    PROVE  LET m == [term |-> term, index |-> index, command |-> command]
           IN  ParseLogEntryProto(SerializeLogEntryProto(m)) = m
<1> DEFINE m == [term |-> term, index |-> index, command |-> command]
           S == [number : {1, 2, 3}, value : {Varint(term), Varint(index), command}]
           f1 == Int32Field(1, term)
           f2 == Int32Field(2, index)
           f3 == StringField(3, command)
           w0 == <<>>
           w1 == w0 \o f1
           w2 == w1 \o f2
           w3 == w2 \o f3
<1>1. /\ f1 = <<>> \/ (f1 = Field(1, Varint(term)) /\ [number |-> 1, value |-> Varint(term)] \in S)
      /\ f2 = <<>> \/ (f2 = Field(2, Varint(index)) /\ [number |-> 2, value |-> Varint(index)] \in S)
      /\ f3 = <<>> \/ (f3 = Field(3, command) /\ [number |-> 3, value |-> command] \in S)
      /\ f1 = <<>> <=> term = 0
      /\ f2 = <<>> <=> index = 0
      /\ f3 = <<>> <=> command = EmptyString
  BY FieldsAreOptional
<1>2. /\ w0 \in Seq(S)
      /\ \A k, d : Latest(w0, k, d) = d
      /\ \A N : StringsValid(w0, N)
  <2>1. <<>> \in Seq(S)
    OBVIOUS
  <2> QED
    BY <2>1, EmptyMessage
<1>3. SerializeLogEntryProto(m) = w3
  <2>1. SerializeLogEntryProto(m) = f1 \o f2 \o f3
    BY DEF SerializeLogEntryProto
  <2>2. <<>> \o f1 = f1
    BY <1>1 DEF Field
  <2> QED
    BY <2>1, <2>2
<1> HIDE DEF S, f1, f2, f3, w0
<1>4. /\ w1 \in Seq(S)
      /\ \A k, d : Latest(w1, k, d) = IF k = 1 /\ f1 # <<>> THEN Varint(term) ELSE Latest(w0, k, d)
      /\ \A N : StringsValid(w1, N) <=> StringsValid(w0, N) /\ (f1 # <<>> /\ 1 \in N => Utf8(Varint(term)))
  BY <1>1, <1>2, OptionalField
<1> HIDE DEF w1
<1>5. /\ w2 \in Seq(S)
      /\ \A k, d : Latest(w2, k, d) = IF k = 2 /\ f2 # <<>> THEN Varint(index) ELSE Latest(w1, k, d)
      /\ \A N : StringsValid(w2, N) <=> StringsValid(w1, N) /\ (f2 # <<>> /\ 2 \in N => Utf8(Varint(index)))
  BY <1>1, <1>4, OptionalField
<1> HIDE DEF w2
<1>6. /\ w3 \in Seq(S)
      /\ \A k, d : Latest(w3, k, d) = IF k = 3 /\ f3 # <<>> THEN command ELSE Latest(w2, k, d)
      /\ \A N : StringsValid(w3, N) <=> StringsValid(w2, N) /\ (f3 # <<>> /\ 3 \in N => Utf8(command))
  BY <1>1, <1>5, OptionalField
<1> HIDE DEF w3
<1>7. StringsValid(w3, {3})
  <2>1. StringsValid(w2, {3})
    BY <1>2, <1>4, <1>5
  <2> QED
    BY <1>6, <2>1
<1>8. Int32At(w3, 1) = term /\ Int32At(w3, 2) = index
  <2>1. Latest(w2, 1, 0) = (IF term = 0 THEN 0 ELSE Varint(term))
    BY <1>1, <1>2, <1>4, <1>5
  <2>2. Latest(w2, 2, 0) = (IF index = 0 THEN 0 ELSE Varint(index))
    BY <1>1, <1>2, <1>4, <1>5
  <2>3. Latest(w3, 1, 0) = Latest(w2, 1, 0) /\ Latest(w3, 2, 0) = Latest(w2, 2, 0)
    BY <1>6
  <2> QED
    BY <2>1, <2>2, <2>3, FieldIsRead
<1>9. StringAt(w3, 3) = command
  <2> DEFINE e == EmptyString
  <2>1. Latest(w2, 3, e) = e
    BY <1>2, <1>4, <1>5
  <2>2. Latest(w3, 3, e) = command
    BY <1>1, <1>6, <2>1
  <2> QED
    BY <2>2 DEF StringAt
<1> QED
  BY <1>3, <1>7, <1>8, <1>9 DEF ParseLogEntryProto, m

\* A varint is a number.
LEMMA VarintIsNumber == \A v \in Int32 : Varint(v) \in Int
  BY Sizes DEF Varint, Int32

\* Up to four numbers, in fields 1 to 4, are read as they were written.
LEMMA NumbersArrive ==
    ASSUME NEW a \in Int32, NEW b \in Int32, NEW c \in Int32, NEW d \in Int32
    PROVE  LET w == Int32Field(1, a) \o Int32Field(2, b) \o Int32Field(3, c) \o Int32Field(4, d)
               written(v) == IF v = 0 THEN 0 ELSE Varint(v)
           IN  /\ w \in Seq([number : 1..4, value : Int])
               /\ Latest(w, 1, 0) = written(a) /\ Latest(w, 2, 0) = written(b)
               /\ Latest(w, 3, 0) = written(c) /\ Latest(w, 4, 0) = written(d)
<1> DEFINE S == [number : 1..4, value : Int]
           written(v) == IF v = 0 THEN 0 ELSE Varint(v)
           f1 == Int32Field(1, a)
           f2 == Int32Field(2, b)
           f3 == Int32Field(3, c)
           f4 == Int32Field(4, d)
           w0 == <<>>
           w1 == w0 \o f1
           w2 == w1 \o f2
           w3 == w2 \o f3
           w4 == w3 \o f4
<1>1. \A v \in Int32 : Varint(v) \in Int
  BY VarintIsNumber
<1>2. /\ f1 = <<>> \/ (f1 = Field(1, Varint(a)) /\ [number |-> 1, value |-> Varint(a)] \in S)
      /\ f2 = <<>> \/ (f2 = Field(2, Varint(b)) /\ [number |-> 2, value |-> Varint(b)] \in S)
      /\ f3 = <<>> \/ (f3 = Field(3, Varint(c)) /\ [number |-> 3, value |-> Varint(c)] \in S)
      /\ f4 = <<>> \/ (f4 = Field(4, Varint(d)) /\ [number |-> 4, value |-> Varint(d)] \in S)
      /\ f1 = <<>> <=> a = 0
      /\ f2 = <<>> <=> b = 0
      /\ f3 = <<>> <=> c = 0
      /\ f4 = <<>> <=> d = 0
  BY <1>1, FieldsAreOptional
<1>3. w0 \in Seq(S) /\ \A k : Latest(w0, k, 0) = 0
  <2>1. <<>> \in Seq(S)
    OBVIOUS
  <2> QED
    BY <2>1, EmptyMessage
<1>4. f1 \o f2 \o f3 \o f4 = w4
  <2>1. <<>> \o f1 = f1
    BY <1>2 DEF Field
  <2> QED
    BY <2>1
<1> HIDE DEF S, f1, f2, f3, f4, w0
<1>5. w1 \in Seq(S) /\ \A k : Latest(w1, k, 0) = IF k = 1 /\ f1 # <<>> THEN Varint(a) ELSE 0
  BY <1>2, <1>3, OptionalField
<1> HIDE DEF w1
<1>6. w2 \in Seq(S) /\ \A k : Latest(w2, k, 0) = IF k = 2 /\ f2 # <<>> THEN Varint(b) ELSE Latest(w1, k, 0)
  BY <1>2, <1>5, OptionalField
<1> HIDE DEF w2
<1>7. w3 \in Seq(S) /\ \A k : Latest(w3, k, 0) = IF k = 3 /\ f3 # <<>> THEN Varint(c) ELSE Latest(w2, k, 0)
  BY <1>2, <1>6, OptionalField
<1> HIDE DEF w3
<1>8. w4 \in Seq(S) /\ \A k : Latest(w4, k, 0) = IF k = 4 /\ f4 # <<>> THEN Varint(d) ELSE Latest(w3, k, 0)
  BY <1>2, <1>7, OptionalField
<1> HIDE DEF w4
<1>9. /\ Latest(w4, 1, 0) = written(a) /\ Latest(w4, 2, 0) = written(b)
      /\ Latest(w4, 3, 0) = written(c) /\ Latest(w4, 4, 0) = written(d)
  BY <1>2, <1>5, <1>6, <1>7, <1>8
<1> QED
  BY <1>4, <1>8, <1>9 DEF S, f1, f2, f3, f4

\* A truth value is written as a number.
LEMMA BoolFieldIsNumber ==
    ASSUME NEW n, NEW v \in BOOLEAN
    PROVE  LET x == IF v THEN 1 ELSE 0
           IN  BoolField(n, v) = Int32Field(n, x) /\ x \in Int32 /\ Varint(x) = x
  BY DEF BoolField, Int32Field, Varint, Int32

\* The messages of an election are read as they were written.
LEMMA VotesArrive ==
    /\ \A a, b, c, d \in Int32 :
         LET m == [term |-> a, candidate_id |-> b, last_log_index |-> c, last_log_term |-> d]
         IN  ParseRequestVoteRequest(SerializeRequestVoteRequest(m)) = m
    /\ \A a \in Int32, v \in BOOLEAN :
         LET m == [term |-> a, vote_granted |-> v]
         IN  ParseRequestVoteResponse(SerializeRequestVoteResponse(m)) = m
<1>1. ASSUME NEW a \in Int32, NEW b \in Int32, NEW c \in Int32, NEW d \in Int32
      PROVE  LET m == [term |-> a, candidate_id |-> b, last_log_index |-> c, last_log_term |-> d]
             IN  ParseRequestVoteRequest(SerializeRequestVoteRequest(m)) = m
  <2> DEFINE m == [term |-> a, candidate_id |-> b, last_log_index |-> c, last_log_term |-> d]
             w == Int32Field(1, a) \o Int32Field(2, b) \o Int32Field(3, c) \o Int32Field(4, d)
  <2>1. SerializeRequestVoteRequest(m) = w
    BY DEF SerializeRequestVoteRequest
  <2>2. Int32At(w, 1) = a /\ Int32At(w, 2) = b /\ Int32At(w, 3) = c /\ Int32At(w, 4) = d
    <3>1. /\ Latest(w, 1, 0) = (IF a = 0 THEN 0 ELSE Varint(a)) /\ Latest(w, 2, 0) = (IF b = 0 THEN 0 ELSE Varint(b))
          /\ Latest(w, 3, 0) = (IF c = 0 THEN 0 ELSE Varint(c)) /\ Latest(w, 4, 0) = (IF d = 0 THEN 0 ELSE Varint(d))
      BY NumbersArrive
    <3> HIDE DEF w
    <3> QED
      BY <3>1, FieldIsRead
  <2> QED
    BY <2>1, <2>2 DEF ParseRequestVoteRequest
<1>2. ASSUME NEW a \in Int32, NEW v \in BOOLEAN
      PROVE  LET m == [term |-> a, vote_granted |-> v]
             IN  ParseRequestVoteResponse(SerializeRequestVoteResponse(m)) = m
  <2> DEFINE m == [term |-> a, vote_granted |-> v]
             x == IF v THEN 1 ELSE 0
             w == Int32Field(1, a) \o Int32Field(2, x)
             w4 == Int32Field(1, a) \o Int32Field(2, x) \o Int32Field(3, 0) \o Int32Field(4, 0)
  <2>1. BoolField(2, v) = Int32Field(2, x) /\ x \in Int32 /\ Varint(x) = x /\ 0 \in Int32
    BY BoolFieldIsNumber DEF Int32
  <2>2. SerializeRequestVoteResponse(m) = w
    BY <2>1 DEF SerializeRequestVoteResponse
  <2>3. w4 = w
    <3> DEFINE S == [number : Int, value : Int]
               f1 == Int32Field(1, a)
               f2 == Int32Field(2, x)
    <3>1. Int32Field(3, 0) = <<>> /\ Int32Field(4, 0) = <<>>
      BY FieldsAreOptional
    <3>2. ASSUME NEW n \in Int, NEW y \in Int32
          PROVE  Int32Field(n, y) \in Seq(S)
      <4>1. Varint(y) \in Int
        BY <3>2, VarintIsNumber
      <4>2. <<>> \in Seq(S) /\ <<[number |-> n, value |-> Varint(y)]>> \in Seq(S)
        BY <4>1
      <4> QED
        BY <4>2, FieldsAreOptional DEF Field
    <3>3. f1 \in Seq(S) /\ f2 \in Seq(S)
      BY <2>1, <3>2
    <3> HIDE DEF f1, f2, S
    <3>4. f1 \o f2 \in Seq(S)
      BY <3>3
    <3>5. f1 \o f2 \o <<>> \o <<>> = f1 \o f2
      BY <3>4, ConcatEmptySeq
    <3> QED
      BY <3>1, <3>5 DEF f1, f2
  <2>4. Latest(w4, 1, 0) = (IF a = 0 THEN 0 ELSE Varint(a)) /\ Latest(w4, 2, 0) = (IF x = 0 THEN 0 ELSE Varint(x))
    <3> HIDE DEF x
    <3> QED
      BY <2>1, NumbersArrive
  <2>5. Int32At(w, 1) = a /\ BoolAt(w, 2) = v
    <3>1. Latest(w, 2, 0) = IF v THEN 1 ELSE 0
      BY <2>1, <2>3, <2>4
    <3> HIDE DEF w
    <3> QED
      BY <2>3, <2>4, <3>1, FieldIsRead
  <2> QED
    BY <2>2, <2>5 DEF ParseRequestVoteResponse
<1> QED
  BY <1>1, <1>2

\* So are the answers to AppendEntries, those with a conflict of -1 too.
LEMMA AppendReplyArrives ==
    ASSUME NEW a \in Int32, NEW v \in BOOLEAN, NEW c \in Int32, NEW d \in Int32
    PROVE  LET m == [term |-> a, success |-> v, conflict_index |-> c, conflict_term |-> d]
           IN  ParseAppendEntriesResponse(SerializeAppendEntriesResponse(m)) = m
<1> DEFINE m == [term |-> a, success |-> v, conflict_index |-> c, conflict_term |-> d]
           x == IF v THEN 1 ELSE 0
           w == Int32Field(1, a) \o Int32Field(2, x) \o Int32Field(3, c) \o Int32Field(4, d)
<1>1. BoolField(2, v) = Int32Field(2, x) /\ x \in Int32 /\ Varint(x) = x
  BY BoolFieldIsNumber
<1>2. SerializeAppendEntriesResponse(m) = w
  BY <1>1 DEF SerializeAppendEntriesResponse
<1>3. /\ Latest(w, 1, 0) = (IF a = 0 THEN 0 ELSE Varint(a)) /\ Latest(w, 2, 0) = (IF x = 0 THEN 0 ELSE Varint(x))
      /\ Latest(w, 3, 0) = (IF c = 0 THEN 0 ELSE Varint(c)) /\ Latest(w, 4, 0) = (IF d = 0 THEN 0 ELSE Varint(d))
  <2>1. x \in Int32
    BY <1>1
  <2> HIDE DEF x
  <2> QED
    BY <2>1, NumbersArrive
<1>4. Int32At(w, 1) = a /\ BoolAt(w, 2) = v /\ Int32At(w, 3) = c /\ Int32At(w, 4) = d
  <2>1. Latest(w, 2, 0) = IF v THEN 1 ELSE 0
    BY <1>1, <1>3
  <2> HIDE DEF w
  <2> QED
    BY <1>3, <2>1, FieldIsRead
<1> QED
  BY <1>2, <1>4 DEF ParseAppendEntriesResponse

\* Fields of another number change nothing.
LEMMA OtherFields ==
    ASSUME NEW S, NEW w \in Seq(S), NEW x \in Seq(S), NEW k, NEW d, \A i \in DOMAIN x : x[i].number # k
    PROVE  Latest(w \o x, k, d) = Latest(w, k, d)
<1> DEFINE y == w \o x
           found(z) == {i \in DOMAIN z : z[i].number = k}
<1>1. /\ DOMAIN w = 1..Len(w) /\ Len(w) \in Nat /\ DOMAIN y = 1..Len(w) + Len(x)
      /\ \A i \in 1..Len(w) : y[i] = w[i]
      /\ \A i \in Len(w) + 1..Len(w) + Len(x) : y[i] = x[i - Len(w)] /\ i - Len(w) \in DOMAIN x
  BY ConcatProperties
<1> HIDE DEF y
<1>2. found(y) = found(w)
  <2>1. \A i \in DOMAIN y : i \in DOMAIN w \/ i \in Len(w) + 1..Len(w) + Len(x)
    BY <1>1
  <2> QED
    BY <1>1, <2>1
<1>3. CASE found(w) = {}
  BY <1>2, <1>3 DEF Latest, y
<1>4. CASE found(w) # {}
  <2> DEFINE i == CHOOSE h \in found(w) : \A j \in found(w) : j <= h
             m == CHOOSE h \in found(y) : \A j \in found(y) : j <= h
  <2>1. m = i
    BY <1>2, Zenon
  <2>2. Latest(y, k, d) = y[m].value /\ Latest(w, k, d) = w[i].value
    BY <1>2, <1>4 DEF Latest
  <2>3. found(w) \in SUBSET Nat /\ \A z \in found(w) : z <= Len(w)
    BY <1>1
  <2>4. \E z \in found(w) : \A j \in found(w) : j <= z
    BY <1>1, <1>4, <2>3, MaxOfNaturals
  <2>5. i \in found(w)
    <3> HIDE DEF found
    <3> QED
      BY <2>4
  <2> QED
    BY <1>1, <2>1, <2>2, <2>5 DEF y
<1> QED
  BY <1>3, <1>4

\* What the fields of a message hold, in their order.
ValuesIn(x) == [k \in 1..Len(x) |-> x[k].value]

\* A repeated field is read as the sequence that was written.
LEMMA RepeatedFields ==
    ASSUME NEW S, NEW w \in Seq(S), NEW x \in Seq(S), NEW y \in Seq(S), NEW n,
           \A i \in DOMAIN w : w[i].number # n,
           \A i \in DOMAIN x : x[i].number = n,
           \A i \in DOMAIN y : y[i].number # n
    PROVE  Repeated(w \o x \o y, n) = ValuesIn(x)
<1> USE DEF ValuesIn
<1> DEFINE z == w \o x \o y
           a == Len(w)
           b == Len(x)
           c == Len(y)
           found == {i \in DOMAIN z : z[i].number = n}
<1>1. /\ DOMAIN w = 1..a /\ DOMAIN x = 1..b /\ DOMAIN y = 1..c /\ a \in Nat /\ b \in Nat /\ c \in Nat
      /\ DOMAIN z = 1..a + b + c
      /\ \A i \in 1..a : z[i] = w[i]
      /\ \A i \in a + 1..a + b : z[i] = x[i - a]
      /\ \A i \in a + b + 1..a + b + c : z[i] = y[i - a - b]
  <2> DEFINE v == w \o x
  <2>1. /\ v \in Seq(S) /\ Len(v) = a + b
        /\ \A i \in 1..a + b : v[i] = IF i <= a THEN w[i] ELSE x[i - a]
    BY ConcatProperties
  <2>2. /\ z \in Seq(S) /\ Len(z) = Len(v) + c
        /\ \A i \in 1..Len(v) + c : z[i] = IF i <= Len(v) THEN v[i] ELSE y[i - Len(v)]
    BY <2>1, ConcatProperties
  <2> HIDE DEF z, v, a, b, c
  <2>3. a \in Nat /\ b \in Nat /\ c \in Nat
    BY DEF a, b, c
  <2>4. DOMAIN w = 1..a /\ DOMAIN x = 1..b /\ DOMAIN y = 1..c
    BY DEF a, b, c
  <2>5. Len(z) = a + b + c /\ DOMAIN z = 1..a + b + c
    BY <2>1, <2>2
  <2>6. \A i \in 1..a + b : z[i] = v[i]
    BY <2>1, <2>2, <2>3
  <2>7. \A i \in 1..a : z[i] = w[i]
    BY <2>1, <2>3, <2>6
  <2>8. \A i \in a + 1..a + b : z[i] = x[i - a]
    BY <2>1, <2>3, <2>6
  <2>9. \A i \in a + b + 1..a + b + c : z[i] = y[i - a - b]
    <3> SUFFICES ASSUME NEW i \in a + b + 1..a + b + c PROVE z[i] = y[i - a - b]
      OBVIOUS
    <3>1. i \in 1..Len(v) + c /\ ~(i <= Len(v)) /\ i - Len(v) = i - a - b
      BY <2>1, <2>3
    <3> QED
      BY <2>2, <3>1
  <2> QED
    BY <2>3, <2>4, <2>5, <2>7, <2>8, <2>9
<1> HIDE DEF z, a, b, c
<1>2. found = a + 1..a + b
  <2>1. ASSUME NEW i \in DOMAIN z
        PROVE  z[i].number = n <=> i \in a + 1..a + b
    <3>1. CASE i <= a
      BY <1>1, <3>1
    <3>2. CASE a < i /\ i <= a + b
      <4>1. i - a \in DOMAIN x
        BY <1>1, <3>2
      <4> QED
        BY <1>1, <3>2, <4>1
    <3>3. CASE a + b < i
      <4>1. i - a - b \in DOMAIN y /\ i \in a + b + 1..a + b + c
        BY <1>1, <3>3
      <4> QED
        BY <1>1, <3>3, <4>1
    <3> QED
      BY <1>1, <3>1, <3>2, <3>3
  <2>2. a + 1..a + b \subseteq DOMAIN z
    BY <1>1
  <2> QED
    BY <2>1, <2>2
<1>3. Cardinality(found) = b
  <2>1. Cardinality(a + 1..a + b) = IF a + 1 > a + b THEN 0 ELSE (a + b) - (a + 1) + 1
    BY <1>1, FS_Interval
  <2>2. (IF a + 1 > a + b THEN 0 ELSE (a + b) - (a + 1) + 1) = b
    BY <1>1
  <2> QED
    BY <1>2, <2>1, <2>2
<1> HIDE DEF found
<1>4. ASSUME NEW k \in 1..b
      PROVE  z[CHOOSE i \in found : Cardinality({j \in found : j <= i}) = k] = x[k]
  <2>1. ASSUME NEW i \in found
        PROVE  Cardinality({j \in found : j <= i}) = i - a
    <3>1. {j \in found : j <= i} = a + 1..i /\ i \in a + 1..a + b
      BY <1>1, <1>2
    <3>2. Cardinality(a + 1..i) = IF a + 1 > i THEN 0 ELSE i - (a + 1) + 1
      BY <1>1, <3>1, FS_Interval
    <3>3. (IF a + 1 > i THEN 0 ELSE i - (a + 1) + 1) = i - a
      BY <1>1, <3>1
    <3> QED
      BY <3>1, <3>2, <3>3
  <2>2. a + k \in found /\ k \in Nat
    BY <1>1, <1>2
  <2>3. ASSUME NEW i \in found
        PROVE  Cardinality({j \in found : j <= i}) = k <=> i = a + k
    <3>1. i \in Int /\ (i - a = k <=> i = a + k)
      BY <1>1, <1>2, <2>2
    <3> QED
      BY <2>1, <3>1
  <2>4. (CHOOSE i \in found : Cardinality({j \in found : j <= i}) = k) = a + k
    BY <2>2, <2>3
  <2>5. a + k \in a + 1..a + b /\ (a + k) - a = k
    BY <1>1
  <2> QED
    BY <1>1, <2>4, <2>5
<1>5. Repeated(z, n) = [k \in 1..b |-> z[CHOOSE i \in found : Cardinality({j \in found : j <= i}) = k].value]
  BY <1>3 DEF Repeated, found
<1>6. Repeated(z, n) = [k \in 1..b |-> x[k].value]
  <2> DEFINE place(k) == CHOOSE i \in found : Cardinality({j \in found : j <= i}) = k
  <2>1. \A k \in 1..b : z[place(k)] = x[k]
    BY <1>4
  <2> HIDE DEF place
  <2>2. [k \in 1..b |-> z[place(k)].value] = [k \in 1..b |-> x[k].value]
    BY <2>1
  <2> QED
    BY <1>5, <2>2 DEF place
<1> QED
  BY <1>6 DEF z, b

\* Entries as a log holds them, whose commands are UTF-8.
AreEntries(entries) ==
    \A i \in 1..Len(entries) : \E t, x \in Int32 : \E s :
      Utf8(s) /\ entries[i] = [term |-> t, index |-> x, command |-> s]

\* A request with any number of entries is read as it was written, if their
\* commands are UTF-8.
LEMMA AppendRequestArrives ==
    ASSUME NEW a \in Int32, NEW b \in Int32, NEW c \in Int32, NEW d \in Int32, NEW g \in Int32,
           NEW T, NEW entries \in Seq(T),
           AreEntries(entries)
    PROVE  LET m == [term |-> a, leader_id |-> b, prev_log_index |-> c, prev_log_term |-> d,
                     entries |-> entries, leader_commit |-> g]
           IN  ParseAppendEntriesRequest(SerializeAppendEntriesRequest(m)) = m
<1> USE DEF AreEntries
<1> DEFINE m == [term |-> a, leader_id |-> b, prev_log_index |-> c, prev_log_term |-> d,
                 entries |-> entries, leader_commit |-> g]
           n == Len(entries)
           V == Int \cup {SerializeLogEntryProto(entries[i]) : i \in 1..n}
           S == [number : 1..6, value : V]
           w == Int32Field(1, a) \o Int32Field(2, b) \o Int32Field(3, c) \o Int32Field(4, d)
           x == [i \in DOMAIN entries |-> [number |-> 5, value |-> SerializeLogEntryProto(entries[i])]]
           y == Int32Field(6, g)
           written(v) == IF v = 0 THEN 0 ELSE Varint(v)
<1>1. /\ w \in Seq([number : 1..4, value : Int])
      /\ Latest(w, 1, 0) = written(a) /\ Latest(w, 2, 0) = written(b)
      /\ Latest(w, 3, 0) = written(c) /\ Latest(w, 4, 0) = written(d)
  BY NumbersArrive
<1>2. SerializeAppendEntriesRequest(m) = w \o x \o y
  BY DEF SerializeAppendEntriesRequest
<1>3. n \in Nat /\ DOMAIN entries = 1..n
  OBVIOUS
<1>4. x \in Seq(S) /\ Len(x) = n /\ DOMAIN x = 1..n /\ \A i \in 1..n : x[i].number = 5 /\ x[i].value = SerializeLogEntryProto(entries[i])
  <2>1. \A i \in 1..n : SerializeLogEntryProto(entries[i]) \in V
    OBVIOUS
  <2> HIDE DEF V
  <2>2. \A i \in 1..n : [number |-> 5, value |-> SerializeLogEntryProto(entries[i])] \in S
    BY <2>1
  <2> HIDE DEF S, n
  <2>3. x \in [1..n -> S]
    BY <1>3, <2>2
  <2>4. \A i \in 1..n : x[i] = [number |-> 5, value |-> SerializeLogEntryProto(entries[i])]
    BY <1>3
  <2> HIDE DEF x
  <2>5. x \in Seq(S) /\ Len(x) = n /\ DOMAIN x = 1..n
    BY <1>3, <2>3
  <2> QED
    BY <2>4, <2>5
<1>5. w \in Seq(S) /\ \A i \in DOMAIN w : w[i].number # 5 /\ w[i].number # 6
  <2> DEFINE R == [number : 1..4, value : Int]
  <2>1. \A e \in R : e \in S /\ e.number # 5 /\ e.number # 6
    OBVIOUS
  <2>2. w \in Seq(R)
    BY <1>1
  <2> HIDE DEF w, R, S
  <2>3. DOMAIN w = 1..Len(w) /\ \A i \in 1..Len(w) : w[i] \in R
    BY <2>2
  <2>4. w \in [1..Len(w) -> S] /\ Len(w) \in Nat
    BY <2>1, <2>2, <2>3
  <2> QED
    BY <2>1, <2>3, <2>4
<1>6. /\ y = <<>> \/ (y = Field(6, Varint(g)) /\ [number |-> 6, value |-> Varint(g)] \in S)
      /\ y = <<>> <=> g = 0
  <2>1. Varint(g) \in Int
    BY VarintIsNumber
  <2> QED
    BY <2>1, FieldsAreOptional
<1>7. y \in Seq(S) /\ \A i \in DOMAIN y : y[i].number = 6
  <2> HIDE DEF y, S
  <2>1. CASE y = <<>>
    BY <2>1
  <2>2. CASE y # <<>>
    <3>1. y = <<[number |-> 6, value |-> Varint(g)]>> /\ [number |-> 6, value |-> Varint(g)] \in S
      BY <1>6, <2>2 DEF Field
    <3> DEFINE e == [number |-> 6, value |-> Varint(g)]
    <3>2. e.number = 6
      OBVIOUS
    <3> HIDE DEF e
    <3>3. y = <<e>> /\ e \in S
      BY <3>1 DEF e
    <3>4. DOMAIN y = {1} /\ y[1] = e
      BY <3>3, ShortSequencesRead
    <3> QED
      BY <3>2, <3>3, <3>4
  <2> QED
    BY <2>1, <2>2
<1> HIDE DEF w, x, y, S, V, written
<1>8. /\ w \o x \in Seq(S)
      /\ \A k : k # 5 => Latest(w \o x, k, 0) = Latest(w, k, 0)
  <2>1. w \o x \in Seq(S)
    BY <1>4, <1>5
  <2>2. ASSUME NEW k, k # 5
        PROVE  Latest(w \o x, k, 0) = Latest(w, k, 0)
    BY <1>4, <1>5, <2>2, OtherFields
  <2> QED
    BY <2>1, <2>2
<1>9. Latest(w, 6, 0) = 0
  <2>1. {i \in DOMAIN w : w[i].number = 6} = {}
    BY <1>5
  <2> QED
    BY <2>1 DEF Latest
<1> DEFINE u == w \o x
           z == u \o y
<1>10. \A k : Latest(z, k, 0) = IF k = 6 /\ y # <<>> THEN Varint(g) ELSE Latest(u, k, 0)
  <2>1. u \in Seq(S)
    BY <1>8
  <2> HIDE DEF u
  <2> QED
    BY <1>6, <2>1, OptionalField
<1>11. /\ Latest(z, 1, 0) = written(a) /\ Latest(z, 2, 0) = written(b) /\ Latest(z, 3, 0) = written(c)
       /\ Latest(z, 4, 0) = written(d) /\ Latest(z, 6, 0) = written(g)
  <2>1. /\ Latest(z, 1, 0) = Latest(w, 1, 0) /\ Latest(z, 2, 0) = Latest(w, 2, 0)
        /\ Latest(z, 3, 0) = Latest(w, 3, 0) /\ Latest(z, 4, 0) = Latest(w, 4, 0)
        /\ Latest(z, 6, 0) = IF y # <<>> THEN Varint(g) ELSE 0
    <3> HIDE DEF z, u
    <3>1. \A k : k # 6 => Latest(z, k, 0) = Latest(u, k, 0)
      BY <1>10
    <3>2. \A k : k # 5 => Latest(u, k, 0) = Latest(w, k, 0)
      BY <1>8 DEF u
    <3>3. \A k : k # 5 /\ k # 6 => Latest(z, k, 0) = Latest(w, k, 0)
      BY <3>1, <3>2
    <3>4. Latest(z, 6, 0) = IF y # <<>> THEN Varint(g) ELSE 0
      BY <1>9, <1>10, <3>2
    <3> QED
      BY <3>3, <3>4
  <2> QED
    BY <1>1, <1>6, <2>1 DEF written
<1>12. Repeated(z, 5) = [k \in 1..n |-> SerializeLogEntryProto(entries[k])]
  <2>1. Repeated(z, 5) = [k \in 1..Len(x) |-> x[k].value]
    <3>1. \A i \in DOMAIN y : y[i].number # 5
      BY <1>7
    <3>2. \A i \in DOMAIN x : x[i].number = 5
      BY <1>4
    <3>3. w \in Seq(S) /\ x \in Seq(S) /\ y \in Seq(S) /\ \A i \in DOMAIN w : w[i].number # 5
      BY <1>4, <1>5, <1>7
    <3> HIDE DEF n
    <3>4. Repeated(w \o x \o y, 5) = ValuesIn(x)
      BY <3>1, <3>2, <3>3, RepeatedFields
    <3> QED
      BY <3>4 DEF z, u, ValuesIn
  <2> HIDE DEF n
  <2> QED
    BY <1>4, <2>1
<1> HIDE DEF z
<1>13. /\ Int32At(z, 1) = a /\ Int32At(z, 2) = b /\ Int32At(z, 3) = c /\ Int32At(z, 4) = d /\ Int32At(z, 6) = g
  BY <1>11, FieldIsRead DEF written
<1>14. \A i \in 1..n : ParseLogEntryProto(SerializeLogEntryProto(entries[i])) = entries[i] /\ entries[i] # Malformed
  <2> TAKE i \in 1..n
  <2>1. PICK t, h, s : t \in Int32 /\ h \in Int32 /\ Utf8(s) /\ entries[i] = [term |-> t, index |-> h, command |-> s]
    OBVIOUS
  <2>2. ParseLogEntryProto(SerializeLogEntryProto([term |-> t, index |-> h, command |-> s])) = [term |-> t, index |-> h, command |-> s]
    BY <2>1, LogEntryArrives
  <2>3. [term |-> t, index |-> h, command |-> s] # Malformed
    <3>1. DOMAIN [term |-> t, index |-> h, command |-> s] = {"term", "index", "command"} /\ DOMAIN Malformed = {"malformed"}
      BY DEF Malformed
    <3> QED
      BY <3>1
  <2> QED
    BY <2>1, <2>2, <2>3
<1> DEFINE parts == Repeated(z, 5)
           read == [i \in DOMAIN parts |-> ParseLogEntryProto(parts[i])]
<1>15. read = entries
  <2>1. DOMAIN parts = 1..n /\ \A i \in 1..n : parts[i] = SerializeLogEntryProto(entries[i])
    BY <1>12
  <2> HIDE DEF parts
  <2>2. DOMAIN read = 1..n /\ \A i \in 1..n : read[i] = entries[i]
    BY <1>14, <2>1
  <2>3. read = [i \in 1..n |-> entries[i]]
    BY <1>14, <2>1
  <2>4. entries = [i \in 1..n |-> entries[i]]
    OBVIOUS
  <2> QED
    BY <2>3, <2>4
<1>16. ParseAppendEntriesRequest(z) = IF \E i \in DOMAIN read : read[i] = Malformed THEN Malformed
        ELSE [term |-> Int32At(z, 1), leader_id |-> Int32At(z, 2),
              prev_log_index |-> Int32At(z, 3), prev_log_term |-> Int32At(z, 4),
              entries |-> read, leader_commit |-> Int32At(z, 6)]
  BY DEF ParseAppendEntriesRequest
<1> HIDE DEF read
<1>17. ParseAppendEntriesRequest(z) = m
  BY <1>3, <1>13, <1>14, <1>15, <1>16
<1> QED
  BY <1>2, <1>17 DEF z
=============================================================================
