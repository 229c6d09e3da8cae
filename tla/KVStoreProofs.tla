---------------------------- MODULE KVStoreProofs -----------------------------
(***************************************************************************)
(* The storage of a node (SkipList, KVStore), for any keys, values and     *)
(* levels: the skip list is a map, and the texts on the way to it lose     *)
(* nothing of a plain key and its value.                                   *)
(*                                                                         *)
(* The walks of the skip list are recursive functions.  What they compute  *)
(* follows from the order of the keys: a function that satisfies the       *)
(* recursion is given, and two such functions cannot differ, for there     *)
(* would be a last node, or a highest level, where they do.                *)
(***************************************************************************)
EXTENDS KVStore, DataProofs

\* Nodes of level l, in the list f of pointers.
On(f, l) == {n \in Node : l \in DOMAIN f[n]}

\* Level l is a list in the order of the keys.
Chained(f, l) ==
    \A n \in On(f, l) :
      \/ f[n][l] = Null /\ \A k \in On(f, l) : k <= n
      \/ f[n][l] \in On(f, l) /\ n < f[n][l] /\ \A k \in On(f, l) : n < k => f[n][l] <= k

\* p is the last node of level l before key.
IsLast(p, f, l, key) ==
    /\ p \in On(f, l) /\ p < key
    /\ \A k \in On(f, l) : k < key => k <= p

\* That node.
Last(f, l, key) == CHOOSE p : IsLast(p, f, l, key)

\* The part of the invariant that only the pointers are about.
Shape(f) ==
    /\ DOMAIN f = Node
    /\ DOMAIN f[Header] = 0..MAX_LEVEL
    /\ \A k \in Key : DOMAIN f[k] # {} => \E h \in 0..MAX_LEVEL-1 : DOMAIN f[k] = 0..h
    /\ \A l \in 0..MAX_LEVEL : Chained(f, l)

\* The highest level in use.
Tight(f, c) ==
    /\ c \in 0..MAX_LEVEL-1
    /\ c = 0 \/ f[Header][c] # Null
    /\ \A l \in c+1..MAX_LEVEL : f[Header][l] = Null

\* The list is whole: all nodes that are linked have a value, and are counted.
ListInv ==
    /\ Shape(forward) /\ Tight(forward, currentLevel)
    /\ value \in [Key -> Value \cup {NoValue}]
    /\ \A k \in Key : value[k] # NoValue <=> k \in Linked
    /\ size = Cardinality(Linked)
-----------------------------------------------------------------------------
(* Facts about keys and levels *)

\* Keys and the header are numbers; the null pointer is none.
LEMMA NodesAreNaturals ==
    /\ Node \subseteq Nat /\ Header \in Node /\ Header = 0
    /\ \A k \in Key : k \in Nat /\ k > 0 /\ k # Header /\ k \in Node
    /\ Null \notin Node /\ IsFiniteSet(Key)
    /\ \A n \in Node : n # Header => n \in Key
<1>1. Key \subseteq Nat \ {0} /\ IsFiniteSet(Key) /\ Null \notin Nat
  BY SkipListKeys
<1>2. Node = {0} \cup Key /\ Header = 0
  BY DEF Node, Header
<1>3. Node \subseteq Nat /\ Header \in Node
  BY <1>1, <1>2
<1>4. Null \notin Node
  BY <1>1, <1>3
<1>5. \A k \in Key : k \in Nat /\ k > 0 /\ k # Header /\ k \in Node
  BY <1>1, <1>2
<1>6. \A n \in Node : n # Header => n \in Key
  BY <1>2
<1> QED
  BY <1>1, <1>2, <1>3, <1>5, <1>6, <1>4

\* A bounded set of naturals has a greatest element.
LEMMA GreatestNatural ==
    ASSUME NEW S \in SUBSET Nat, S # {}, NEW b \in Nat, \A x \in S : x <= b
    PROVE  \E x \in S : \A y \in S : y <= x
  BY MaxOfNaturals

\* The levels of a node are the ones below any of its levels.
LEMMA LevelsBelow ==
    ASSUME NEW f, Shape(f), NEW n \in Node, NEW l \in DOMAIN f[n]
    PROVE  /\ l \in 0..MAX_LEVEL
           /\ \A m \in 0..l : m \in DOMAIN f[n]
<1>1. CASE n = Header
  BY <1>1, SkipListLevels DEF Shape
<1>2. CASE n # Header
  <2>1. PICK h \in 0..MAX_LEVEL-1 : DOMAIN f[n] = 0..h
    BY <1>2, NodesAreNaturals DEF Shape
  <2> QED
    BY <2>1, SkipListLevels
<1> QED
  BY <1>1, <1>2

\* The last node before a key exists and is unique.
LEMMA LastExists ==
    ASSUME NEW f, Shape(f), NEW l \in 0..MAX_LEVEL, NEW key \in Key
    PROVE  /\ IsLast(Last(f, l, key), f, l, key)
           /\ \A p : IsLast(p, f, l, key) => p = Last(f, l, key)
<1> DEFINE S == {k \in On(f, l) : k < key}
<1>1. Header \in S
  BY NodesAreNaturals DEF Shape, On
<1>2. S \in SUBSET Nat /\ \A x \in S : x <= key
  BY NodesAreNaturals DEF On
<1>3. \E x \in S : \A y \in S : y <= x
  BY <1>1, <1>2, GreatestNatural, NodesAreNaturals
<1>4. \E p : IsLast(p, f, l, key)
  BY <1>3 DEF IsLast
<1>5. IsLast(Last(f, l, key), f, l, key)
  BY <1>4 DEF Last
<1>6. ASSUME NEW p, NEW q, IsLast(p, f, l, key), IsLast(q, f, l, key)
      PROVE  p = q
  BY <1>6, NodesAreNaturals DEF IsLast, On
<1> QED
  BY <1>5, <1>6

\* What the last node before a key points to: the key, if it is on the level.
LEMMA AfterLast ==
    ASSUME NEW f, Shape(f), NEW l \in 0..MAX_LEVEL, NEW key \in Key
    PROVE  LET p == Last(f, l, key)
           IN  /\ f[p][l] = key <=> key \in On(f, l)
               /\ f[p][l] # Null => f[p][l] \in On(f, l) /\ key <= f[p][l]
<1> DEFINE p == Last(f, l, key)
<1>1. p \in On(f, l) /\ p < key /\ \A k \in On(f, l) : k < key => k <= p
  BY LastExists DEF IsLast
<1>2. Chained(f, l)
  BY DEF Shape
<1>3. On(f, l) \subseteq Nat /\ key \in Nat /\ Null \notin Nat
  BY NodesAreNaturals, SkipListKeys DEF On
<1> HIDE DEF p
<1>4. \/ f[p][l] = Null /\ \A k \in On(f, l) : k <= p
      \/ f[p][l] \in On(f, l) /\ p < f[p][l] /\ \A k \in On(f, l) : p < k => f[p][l] <= k
  BY <1>1, <1>2 DEF Chained
<1>5. /\ f[p][l] = key <=> key \in On(f, l)
      /\ f[p][l] # Null => f[p][l] \in On(f, l) /\ key <= f[p][l]
  BY <1>1, <1>3, <1>4
<1> QED
  BY <1>5 DEF p
-----------------------------------------------------------------------------
(* What the walks compute *)

\* The walk on a level ends at the last node before the key, from every node
\* before it.
LEMMA RightIsLast ==
    ASSUME Shape(forward), NEW l \in 0..MAX_LEVEL, NEW key \in Key,
           NEW n \in On(forward, l), n < key
    PROVE  Right(l, key)[n] = Last(forward, l, key)
<1> DEFINE p == Last(forward, l, key)
           goes(m) == l \in DOMAIN forward[m] /\ forward[m][l] # Null /\ forward[m][l] < key
           Walk(f) == f = [m \in Node |-> IF goes(m) THEN f[forward[m][l]] ELSE m]
           g == [m \in Node |-> IF m \in On(forward, l) /\ m < key THEN p ELSE m]
           move == Right(l, key)
<1>1. /\ p \in On(forward, l) /\ p < key
      /\ \A k \in On(forward, l) : k < key => k <= p
  BY LastExists DEF IsLast
<1>2. Chained(forward, l)
  BY DEF Shape
<1>3. /\ On(forward, l) \subseteq Node /\ On(forward, l) \subseteq Nat
      /\ Node \subseteq Nat /\ key \in Nat /\ p \in Nat
  BY <1>1, NodesAreNaturals DEF On
<1> HIDE DEF p
<1>4. ASSUME NEW m \in On(forward, l), goes(m)
      PROVE  forward[m][l] \in On(forward, l) /\ m < forward[m][l]
  BY <1>2, <1>4 DEF Chained
<1>5. ASSUME NEW m \in On(forward, l), ~goes(m), m < key
      PROVE  m = p
  <2>1. l \in DOMAIN forward[m]
    BY DEF On
  <2>2. CASE forward[m][l] = Null /\ \A k \in On(forward, l) : k <= m
    BY <1>1, <1>3, <1>5, <2>2
  <2>3. CASE /\ forward[m][l] \in On(forward, l) /\ m < forward[m][l]
             /\ \A k \in On(forward, l) : m < k => forward[m][l] <= k
    <3>1. forward[m][l] # Null
      BY <2>3, <1>3, NodesAreNaturals
    <3>2. m \in Nat /\ forward[m][l] \in Nat
      BY <2>3, <1>3
    <3>3. key <= forward[m][l]
      BY <3>1, <3>2, <2>1, <1>3, <1>5
    <3>4. ~(m < p)
      BY <2>3, <3>2, <3>3, <1>1, <1>3
    <3>5. m <= p
      BY <1>1, <1>5
    <3> QED
      BY <3>2, <3>4, <3>5, <1>3
  <2> QED
    BY <1>2, <2>2, <2>3 DEF Chained
<1>6. Walk(g)
  <2>1. ASSUME NEW m \in Node
        PROVE  g[m] = IF goes(m) THEN g[forward[m][l]] ELSE m
    <3>1. CASE m \in On(forward, l) /\ goes(m)
      <4>1. forward[m][l] \in On(forward, l) /\ m < forward[m][l] /\ forward[m][l] < key
        BY <1>4, <3>1
      <4>2. g[forward[m][l]] = p
        BY <4>1, <1>3
      <4>3. m < key
        BY <4>1, <1>3
      <4> QED
        BY <3>1, <4>2, <4>3
    <3>2. CASE m \in On(forward, l) /\ ~goes(m)
      BY <1>5, <3>2
    <3>3. CASE m \notin On(forward, l)
      BY <3>3 DEF On
    <3> QED
      BY <3>1, <3>2, <3>3
  <2> QED
    BY <2>1
<1>7. Walk(move)
  <2>1. move = CHOOSE f : Walk(f)
    BY DEF Right
  <2>2. Walk(CHOOSE f : Walk(f))
    <3> HIDE DEF Walk, g
    <3> QED
      BY <1>6
  <2> HIDE DEF Walk, move
  <2> QED
    BY <2>1, <2>2
<1> DEFINE wrong == {m \in On(forward, l) : m < key /\ move[m] # p}
<1>8. wrong = {}
  <2> SUFFICES ASSUME wrong # {} PROVE FALSE
    OBVIOUS
  <2> HIDE DEF move
  <2>1. wrong \in SUBSET Nat /\ \A x \in wrong : x <= key
    <3>1. wrong \subseteq Nat
      BY <1>3
    <3> QED
      BY <3>1, <1>3
  <2>2. PICK m \in wrong : \A y \in wrong : y <= m
    BY <1>3, <2>1, GreatestNatural
  <2>3. move[m] = IF goes(m) THEN move[forward[m][l]] ELSE m
    BY <1>3, <1>7
  <2>4. CASE goes(m)
    <3>1. forward[m][l] \in On(forward, l) /\ m < forward[m][l] /\ forward[m][l] < key
      BY <1>4, <2>4
    <3>2. forward[m][l] \in wrong
      BY <2>3, <2>4, <3>1
    <3>3. m \in Nat /\ forward[m][l] \in Nat
      BY <2>1, <3>2
    <3> QED
      BY <2>2, <3>1, <3>2, <3>3
  <2>5. CASE ~goes(m)
    BY <1>5, <2>3, <2>5
  <2> QED
    BY <2>4, <2>5
<1> QED
  BY <1>8 DEF p

\* The predecessors of a key are the last nodes before it, on every level in use.
LEMMA PredecessorsAreLast ==
    ASSUME Shape(forward), Tight(forward, currentLevel), NEW key \in Key
    PROVE  /\ DOMAIN Predecessors(key) = 0..currentLevel
           /\ \A l \in 0..currentLevel : Predecessors(key)[l] = Last(forward, l, key)
<1> DEFINE from(f, l) == IF l = currentLevel THEN Header ELSE f[l + 1]
           Down(f) == f = [l \in 0..currentLevel |-> Right(l, key)[from(f, l)]]
           g == [l \in 0..currentLevel |-> Last(forward, l, key)]
           update == Predecessors(key)
<1>1. currentLevel \in Nat /\ currentLevel <= MAX_LEVEL /\ 0..currentLevel \subseteq 0..MAX_LEVEL
  BY SkipListLevels DEF Tight
<1>2. ASSUME NEW l \in 0..currentLevel
      PROVE  Header \in On(forward, l) /\ Header < key
  BY <1>1, NodesAreNaturals DEF Shape, On
<1>3. ASSUME NEW l \in 0..currentLevel, l # currentLevel
      PROVE  Last(forward, l + 1, key) \in On(forward, l) /\ Last(forward, l + 1, key) < key
  <2>1. l + 1 \in 0..MAX_LEVEL /\ l \in 0..(l + 1)
    BY <1>1, <1>3
  <2>2. Last(forward, l + 1, key) \in On(forward, l + 1) /\ Last(forward, l + 1, key) < key
    BY <2>1, LastExists DEF IsLast
  <2> QED
    BY <2>1, <2>2, LevelsBelow DEF On
<1>4. Down(g)
  <2>1. ASSUME NEW l \in 0..currentLevel
        PROVE  g[l] = Right(l, key)[from(g, l)]
    <3>1. CASE l = currentLevel
      BY <1>1, <1>2, <3>1, RightIsLast
    <3>2. CASE l # currentLevel
      <4>1. l + 1 \in 0..currentLevel
        BY <1>1, <3>2
      <4>2. from(g, l) = Last(forward, l + 1, key)
        BY <3>2, <4>1
      <4>3. Right(l, key)[Last(forward, l + 1, key)] = Last(forward, l, key)
        BY <1>1, <1>3, <3>2, RightIsLast
      <4> QED
        BY <4>2, <4>3
    <3> QED
      BY <3>1, <3>2
  <2> QED
    BY <2>1
<1>5. Down(update)
  <2>1. update = CHOOSE f : Down(f)
    BY DEF Predecessors
  <2>2. Down(CHOOSE f : Down(f))
    <3> HIDE DEF Down, g
    <3> QED
      BY <1>4
  <2> HIDE DEF Down, update
  <2> QED
    BY <2>1, <2>2
<1> DEFINE wrong == {l \in 0..currentLevel : update[l] # g[l]}
<1> HIDE DEF update
<1>6. wrong = {}
  <2> SUFFICES ASSUME wrong # {} PROVE FALSE
    OBVIOUS
  <2>1. wrong \in SUBSET Nat /\ \A x \in wrong : x <= currentLevel
    BY <1>1
  <2>2. PICK l \in wrong : \A y \in wrong : y <= l
    BY <1>1, <2>1, GreatestNatural
  <2>3. update[l] = Right(l, key)[from(update, l)] /\ g[l] = Right(l, key)[from(g, l)]
    BY <1>4, <1>5
  <2>4. CASE l = currentLevel
    BY <2>3, <2>4
  <2>5. CASE l # currentLevel
    <3>1. l + 1 \in 0..currentLevel /\ l + 1 > l
      BY <1>1, <2>5
    <3>2. l + 1 \notin wrong
      BY <2>1, <2>2, <3>1
    <3>3. update[l + 1] = g[l + 1]
      BY <3>1, <3>2
    <3>4. from(update, l) = from(g, l)
      BY <2>5, <3>3
    <3> QED
      BY <2>3, <3>4
  <2> QED
    BY <2>4, <2>5
<1>7. DOMAIN update = 0..currentLevel
  BY <1>5
<1> QED
  BY <1>6, <1>7 DEF update
-----------------------------------------------------------------------------
(* One level of the list, when a node is linked, unlinked, or neither *)

\* A level that the node is not on.
LEMMA ChainedWithout ==
    ASSUME NEW f, Shape(f), NEW F, NEW l \in 0..MAX_LEVEL,
           On(F, l) = On(f, l), \A n \in On(f, l) : F[n][l] = f[n][l]
    PROVE  Chained(F, l)
  BY DEF Shape, Chained

\* A level on which the node is put behind its predecessor.
LEMMA ChainedLinked ==
    ASSUME NEW f, Shape(f), NEW F, NEW l \in 0..MAX_LEVEL, NEW key \in Key \ On(f, l),
           On(F, l) = On(f, l) \cup {key},
           F[key][l] = f[Last(f, l, key)][l], F[Last(f, l, key)][l] = key,
           \A n \in On(f, l) : n # Last(f, l, key) => F[n][l] = f[n][l]
    PROVE  Chained(F, l)
<1> DEFINE p == Last(f, l, key)
<1>1. /\ p \in On(f, l) /\ p < key
      /\ \A k \in On(f, l) : k < key => k <= p
  BY LastExists DEF IsLast
<1>2. Chained(f, l)
  BY DEF Shape
<1>3. On(f, l) \subseteq Nat /\ On(F, l) \subseteq Nat /\ key \in Nat /\ p \in Nat /\ p # key
  BY <1>1, NodesAreNaturals DEF On
<1>4. F[key][l] = f[p][l] /\ F[p][l] = key /\ \A n \in On(f, l) : n # p => F[n][l] = f[n][l]
  OBVIOUS
<1> HIDE DEF p
<1>5. \/ f[p][l] = Null /\ \A k \in On(f, l) : k <= p
      \/ f[p][l] \in On(f, l) /\ p < f[p][l] /\ \A k \in On(f, l) : p < k => f[p][l] <= k
  BY <1>1, <1>2 DEF Chained
<1>6. ASSUME NEW n \in On(F, l)
      PROVE  \/ F[n][l] = Null /\ \A k \in On(F, l) : k <= n
             \/ F[n][l] \in On(F, l) /\ n < F[n][l] /\ \A k \in On(F, l) : n < k => F[n][l] <= k
  <2>1. n \in Nat
    BY <1>3
  <2>2. CASE n = key
    <3>1. CASE f[p][l] = Null
      BY <1>1, <1>3, <1>4, <1>5, <2>2, <3>1, NodesAreNaturals
    <3>2. CASE /\ f[p][l] \in On(f, l) /\ p < f[p][l]
               /\ \A k \in On(f, l) : p < k => f[p][l] <= k
      <4>1. f[p][l] \in Nat /\ f[p][l] # key
        BY <1>3, <3>2
      <4>2. key < f[p][l]
        BY <1>1, <1>3, <3>2, <4>1
      <4>3. \A k \in On(F, l) : key < k => p < k /\ k \in On(f, l)
        BY <1>1, <1>3
      <4> QED
        BY <1>4, <2>2, <3>2, <4>2, <4>3
    <3> QED
      BY <1>5, <3>1, <3>2
  <2>3. CASE n = p
    <3>1. \A k \in On(F, l) : p < k => key <= k
      BY <1>1, <1>3
    <3> QED
      BY <1>1, <1>3, <1>4, <2>3, <3>1
  <2>4. CASE n # key /\ n # p
    <3>1. n \in On(f, l) /\ F[n][l] = f[n][l]
      BY <1>4, <2>4
    <3>2. \/ f[n][l] = Null /\ \A k \in On(f, l) : k <= n
          \/ f[n][l] \in On(f, l) /\ n < f[n][l] /\ \A k \in On(f, l) : n < k => f[n][l] <= k
      BY <1>2, <3>1 DEF Chained
    <3>3. CASE key < n
      <4>1. \A k \in On(F, l) : n < k => k \in On(f, l)
        BY <1>3, <2>1, <3>3
      <4> QED
        BY <1>3, <2>1, <3>1, <3>2, <3>3, <4>1
    <3>4. CASE n < key
      <4>1. n <= p /\ n < p
        BY <1>1, <1>3, <2>1, <2>4, <3>1, <3>4
      <4>2. f[n][l] \in On(f, l) /\ n < f[n][l] /\ f[n][l] <= p
        BY <1>1, <1>3, <2>1, <3>2, <4>1
      <4>3. f[n][l] \in Nat /\ f[n][l] <= key
        BY <1>1, <1>3, <4>2
      <4> QED
        BY <1>3, <3>1, <3>2, <4>1, <4>2, <4>3
    <3> QED
      BY <1>3, <2>1, <2>4, <3>3, <3>4
  <2> QED
    BY <2>2, <2>3, <2>4
<1> QED
  BY <1>6 DEF Chained

\* A level from which it is taken.
LEMMA ChainedUnlinked ==
    ASSUME NEW f, Shape(f), NEW F, NEW l \in 0..MAX_LEVEL, NEW key \in Key, key \in On(f, l),
           On(F, l) = On(f, l) \ {key},
           F[Last(f, l, key)][l] = f[key][l],
           \A n \in On(f, l) \ {key} : n # Last(f, l, key) => F[n][l] = f[n][l]
    PROVE  Chained(F, l)
<1> DEFINE p == Last(f, l, key)
<1>1. /\ p \in On(f, l) /\ p < key
      /\ \A k \in On(f, l) : k < key => k <= p
  BY LastExists DEF IsLast
<1>2. Chained(f, l)
  BY DEF Shape
<1>3. On(f, l) \subseteq Nat /\ key \in Nat /\ p \in Nat /\ p # key
  <2>1. On(f, l) \subseteq Node
    BY DEF On
  <2>2. On(f, l) \subseteq Nat /\ key \in Nat
    BY <2>1, NodesAreNaturals
  <2> QED
    BY <1>1, <2>2
<1>4. On(f, l) \subseteq Nat /\ On(F, l) \subseteq Nat /\ key \in Nat /\ p \in Nat /\ p # key
  BY <1>3
<1>5. F[p][l] = f[key][l] /\ \A n \in On(F, l) : n # p => F[n][l] = f[n][l]
  OBVIOUS
<1> HIDE DEF p
<1>6. \/ f[key][l] = Null /\ \A k \in On(f, l) : k <= key
      \/ /\ f[key][l] \in On(f, l) /\ key < f[key][l]
         /\ \A k \in On(f, l) : key < k => f[key][l] <= k
  BY <1>2 DEF Chained
<1>7. ASSUME NEW n \in On(F, l)
      PROVE  \/ F[n][l] = Null /\ \A k \in On(F, l) : k <= n
             \/ F[n][l] \in On(F, l) /\ n < F[n][l] /\ \A k \in On(F, l) : n < k => F[n][l] <= k
  <2>1. n \in Nat /\ n \in On(f, l) /\ n # key
    BY <1>4
  <2>2. CASE n = p
    <3>1. \A k \in On(F, l) : p < k => key < k
      BY <1>1, <1>4
    <3>2. CASE f[key][l] = Null /\ \A k \in On(f, l) : k <= key
      <4>1. \A k \in On(F, l) : k <= p
        BY <1>1, <1>4, <3>2
      <4> QED
        BY <1>5, <2>2, <3>2, <4>1
    <3>3. CASE /\ f[key][l] \in On(f, l) /\ key < f[key][l]
               /\ \A k \in On(f, l) : key < k => f[key][l] <= k
      <4>1. f[key][l] \in Nat /\ f[key][l] \in On(F, l) /\ p < f[key][l]
        BY <1>1, <1>4, <3>3
      <4> QED
        BY <1>5, <2>2, <3>1, <3>3, <4>1
    <3> QED
      BY <1>6, <3>2, <3>3
  <2>3. CASE n # p
    <3>1. F[n][l] = f[n][l]
      BY <1>5, <2>3
    <3>2. \/ f[n][l] = Null /\ \A k \in On(f, l) : k <= n
          \/ f[n][l] \in On(f, l) /\ n < f[n][l] /\ \A k \in On(f, l) : n < k => f[n][l] <= k
      BY <1>2, <2>1 DEF Chained
    <3>3. f[n][l] # key
      <4>1. CASE key < n
        <5>1. ~(n < key)
          BY <1>4, <2>1, <4>1
        <5> QED
          BY <3>2, <5>1, <1>4, NodesAreNaturals
      <4>2. CASE n < key
        <5>1. n < p
          BY <1>1, <1>4, <2>1, <2>3, <4>2
        <5>2. f[n][l] <= p /\ f[n][l] \in Nat
          BY <1>1, <1>4, <2>1, <3>2, <5>1
        <5> QED
          BY <1>1, <1>4, <5>2
      <4> QED
        BY <1>4, <2>1, <4>1, <4>2
    <3> QED
      BY <3>1, <3>2, <3>3
  <2> QED
    BY <2>2, <2>3
<1> QED
  BY <1>7 DEF Chained
-----------------------------------------------------------------------------
(* The operations keep the list *)

\* A level above the ones in use holds the header only.
LEMMA EmptyLevel ==
    ASSUME NEW f, Shape(f), NEW l \in 0..MAX_LEVEL, f[Header][l] = Null
    PROVE  On(f, l) = {Header} /\ \A key \in Key : Last(f, l, key) = Header
<1>1. Header \in On(f, l)
  BY NodesAreNaturals DEF Shape, On
<1>2. On(f, l) \subseteq Node
  BY DEF On
<1>3. \A k \in On(f, l) : k <= Header
  <2>1. \/ f[Header][l] = Null /\ \A k \in On(f, l) : k <= Header
        \/ f[Header][l] \in On(f, l)
    BY <1>1 DEF Shape, Chained
  <2> QED
    BY <1>2, <2>1, NodesAreNaturals
<1>4. On(f, l) = {Header}
  <2>1. ASSUME NEW k \in On(f, l)
        PROVE  k = Header
    <3>1. k \in Node /\ k \in Nat /\ Header = 0
      BY <1>2, NodesAreNaturals
    <3> QED
      BY <1>3, <3>1
  <2> QED
    BY <1>1, <2>1
<1>5. ASSUME NEW key \in Key
      PROVE  Last(f, l, key) = Header
  <2>1. IsLast(Header, f, l, key)
    BY <1>4, NodesAreNaturals DEF IsLast
  <2> QED
    BY <2>1, LastExists
<1> QED
  BY <1>4, <1>5

\* The list holds a key if and only if a search finds its node.
LEMMA CandidateIsKey ==
    ASSUME ListInv, NEW key \in Key
    PROVE  Candidate(Predecessors(key)) = key <=> key \in Linked
<1>1. Candidate(Predecessors(key)) = forward[Last(forward, 0, key)][0]
  <2>1. 0 \in 0..currentLevel
    BY SkipListLevels DEF ListInv, Tight
  <2> QED
    BY <2>1, PredecessorsAreLast DEF ListInv, Candidate
<1>2. 0 \in 0..MAX_LEVEL
  BY SkipListLevels
<1>3. Candidate(Predecessors(key)) = key <=> key \in On(forward, 0)
  BY <1>1, <1>2, AfterLast DEF ListInv
<1>4. key \in On(forward, 0) <=> key \in Linked
  <2>1. DOMAIN forward[key] # {} => \E h \in 0..MAX_LEVEL-1 : DOMAIN forward[key] = 0..h
    BY DEF ListInv, Shape
  <2>2. DOMAIN forward[key] # {} => 0 \in DOMAIN forward[key]
    BY <2>1, SkipListLevels
  <2> QED
    BY <2>2, NodesAreNaturals DEF On, Linked
<1> QED
  BY <1>3, <1>4

\* What a search returns is the value of the node.
LEMMA LookupIsValue ==
    ASSUME ListInv, NEW key \in Key
    PROVE  Lookup(key) = value[key]
  BY CandidateIsKey DEF Lookup, ListInv

\* There are finitely many nodes.
LEMMA LinkedIsFinite == IsFiniteSet(Linked) /\ Linked \subseteq Key
  BY FS_Subset, SkipListKeys DEF Linked

\* insert of a new key keeps the list whole, whatever level it draws.
LEMMA InsertNodeKeepsList ==
    ASSUME ListInv, NEW key \in Key, NEW v \in Value, NEW newLevel \in 0..MAX_LEVEL-1,
           key \notin Linked,
           InsertNode(key, v, Predecessors(key), newLevel)
    PROVE  ListInv'
<1> DEFINE f == forward
           F == forward'
           last(l) == Last(f, l, key)
<1>1. /\ Shape(f) /\ Tight(f, currentLevel) /\ MAX_LEVEL \in Nat /\ MAX_LEVEL > 0
      /\ newLevel \in Nat /\ newLevel < MAX_LEVEL /\ currentLevel \in Nat /\ currentLevel < MAX_LEVEL
  BY SkipListLevels DEF ListInv, Tight
<1>2. DOMAIN f[key] = {} /\ key \in Node /\ key # Header /\ \A l : key \notin On(f, l)
  BY NodesAreNaturals DEF Linked, On
<1>3. ASSUME NEW l \in 0..newLevel
      PROVE  (IF l <= currentLevel THEN Predecessors(key)[l] ELSE Header) = last(l)
  <2>1. CASE l <= currentLevel
    BY <1>1, <2>1, PredecessorsAreLast
  <2>2. CASE ~(l <= currentLevel)
    <3>1. l \in currentLevel+1..MAX_LEVEL /\ l \in 0..MAX_LEVEL
      BY <1>1, <2>2
    <3>2. f[Header][l] = Null
      BY <1>1, <3>1 DEF Tight
    <3> QED
      BY <1>1, <2>2, <3>1, <3>2, EmptyLevel
  <2> QED
    BY <2>1, <2>2
<1>4. /\ DOMAIN F = Node
      /\ DOMAIN F[key] = 0..newLevel
      /\ \A l \in 0..newLevel : F[key][l] = f[last(l)][l]
      /\ \A n \in Node \ {key} :
           /\ DOMAIN F[n] = DOMAIN f[n]
           /\ \A l \in DOMAIN f[n] :
                F[n][l] = IF l <= newLevel /\ last(l) = n THEN key ELSE f[n][l]
  <2> DEFINE pred(l) == IF l <= currentLevel THEN Predecessors(key)[l] ELSE Header
  <2>1. F = [n \in Node |->
               IF n = key THEN [l \in 0..newLevel |-> f[pred(l)][l]]
               ELSE [l \in DOMAIN f[n] |-> IF l <= newLevel /\ pred(l) = n THEN key ELSE f[n][l]]]
    BY DEF InsertNode
  <2>2. \A n \in Node : \A l \in DOMAIN f[n] : l \in Nat
    BY <1>1, LevelsBelow
  <2>3. \A l \in 0..newLevel : pred(l) = last(l)
    BY <1>3
  <2> HIDE DEF pred, last, f
  <2>4. DOMAIN F = Node /\ F[key] = [l \in 0..newLevel |-> f[pred(l)][l]]
    BY <1>2, <2>1
  <2>5. ASSUME NEW n \in Node \ {key}
        PROVE  F[n] = [l \in DOMAIN f[n] |-> IF l <= newLevel /\ pred(l) = n THEN key ELSE f[n][l]]
    BY <2>1
  <2>6. ASSUME NEW n \in Node \ {key}, NEW l \in DOMAIN f[n]
        PROVE  F[n][l] = IF l <= newLevel /\ last(l) = n THEN key ELSE f[n][l]
    <3>1. l \in Nat
      BY <2>2
    <3>2. l <= newLevel => pred(l) = last(l)
      BY <1>1, <2>3, <3>1
    <3>3. F[n][l] = IF l <= newLevel /\ pred(l) = n THEN key ELSE f[n][l]
      BY <2>5, Zenon
    <3> HIDE DEF F
    <3> QED
      BY <3>2, <3>3
  <2> QED
    BY <2>3, <2>4, <2>5, <2>6
<1> HIDE DEF last, F
<1>5. \A l \in Nat : On(F, l) = IF l <= newLevel THEN On(f, l) \cup {key} ELSE On(f, l)
  <2> SUFFICES ASSUME NEW l \in Nat
               PROVE  On(F, l) = IF l <= newLevel THEN On(f, l) \cup {key} ELSE On(f, l)
    OBVIOUS
  <2>1. key \in On(F, l) <=> l <= newLevel
    BY <1>1, <1>2, <1>4 DEF On
  <2>2. \A n : n # key => (n \in On(F, l) <=> n \in On(f, l))
    BY <1>4 DEF On
  <2> QED
    BY <1>2, <2>1, <2>2
<1>6. ASSUME NEW l \in 0..MAX_LEVEL
      PROVE  Chained(F, l)
  <2>1. \A n \in On(f, l) : n \in Node \ {key} /\ l \in DOMAIN f[n]
    BY <1>2 DEF On
  <2>2. last(l) \in On(f, l)
    BY <1>1, LastExists DEF IsLast, last
  <2>3. CASE l <= newLevel
    <3>1. F[key][l] = f[last(l)][l] /\ F[last(l)][l] = key
      BY <1>1, <1>4, <2>1, <2>2, <2>3
    <3>2. \A n \in On(f, l) : n # last(l) => F[n][l] = f[n][l]
      BY <1>4, <2>1
    <3>3. On(F, l) = On(f, l) \cup {key}
      BY <1>5, <2>3
    <3>4. key \in Key \ On(f, l)
      BY <1>2
    <3> HIDE DEF f
    <3> QED
      BY <1>1, <3>1, <3>2, <3>3, <3>4, ChainedLinked DEF last
  <2>4. CASE ~(l <= newLevel)
    <3>1. On(F, l) = On(f, l)
      BY <1>5, <2>4
    <3>2. \A n \in On(f, l) : F[n][l] = f[n][l]
      BY <1>4, <2>1, <2>4
    <3> HIDE DEF f
    <3> QED
      BY <1>1, <3>1, <3>2, ChainedWithout
  <2> QED
    BY <2>3, <2>4
<1>7. Shape(F)
  <2>1. DOMAIN F[Header] = 0..MAX_LEVEL
    BY <1>1, <1>2, <1>4, NodesAreNaturals DEF Shape
  <2>2. ASSUME NEW k \in Key, DOMAIN F[k] # {}
        PROVE  \E h \in 0..MAX_LEVEL-1 : DOMAIN F[k] = 0..h
    <3>1. CASE k = key
      BY <1>4, <3>1
    <3>2. CASE k # key
      BY <1>1, <1>4, <2>2, <3>2, NodesAreNaturals DEF Shape
    <3> QED
      BY <3>1, <3>2
  <2> QED
    BY <1>4, <1>6, <2>1, <2>2 DEF Shape
<1>8. Tight(F, currentLevel')
  <2>1. currentLevel' = IF newLevel > currentLevel THEN newLevel ELSE currentLevel
    BY DEF InsertNode
  <2>2. ASSUME NEW l \in 0..MAX_LEVEL
        PROVE  /\ F[Header][l] = IF l <= newLevel /\ last(l) = Header THEN key ELSE f[Header][l]
               /\ l > currentLevel => last(l) = Header /\ f[Header][l] = Null
    <3>1. l \in DOMAIN f[Header] /\ Header \in Node \ {key}
      BY <1>1, <1>2, NodesAreNaturals DEF Shape
    <3>2. l > currentLevel => l \in currentLevel+1..MAX_LEVEL
      BY <1>1
    <3>3. l > currentLevel => f[Header][l] = Null
      BY <1>1, <3>2 DEF Tight
    <3>4. f[Header][l] = Null => last(l) = Header
      BY <1>1, EmptyLevel DEF last
    <3> QED
      BY <1>4, <3>1, <3>3, <3>4
  <2>3. key # Null
    BY NodesAreNaturals
  <2>4. CASE newLevel > currentLevel
    <3>1. F[Header][newLevel] = key
      BY <1>1, <2>2, <2>4
    <3>2. \A l \in newLevel+1..MAX_LEVEL : F[Header][l] = Null
      BY <1>1, <2>2, <2>4
    <3> QED
      BY <1>1, <2>1, <2>3, <2>4, <3>1, <3>2 DEF Tight
  <2>5. CASE ~(newLevel > currentLevel)
    <3>1. currentLevel = 0 \/ F[Header][currentLevel] # Null
      BY <1>1, <2>2, <2>3 DEF Tight
    <3>2. \A l \in currentLevel+1..MAX_LEVEL : F[Header][l] = Null
      BY <1>1, <2>2, <2>5
    <3> QED
      BY <1>1, <2>1, <2>5, <3>1, <3>2 DEF Tight
  <2> QED
    BY <2>4, <2>5
<1>9. Linked' = Linked \cup {key}
  <2>1. Linked' = {k \in Key : DOMAIN F[k] # {}}
    BY DEF Linked, F
  <2>2. DOMAIN F[key] # {}
    BY <1>1, <1>4
  <2>3. \A k \in Key : k # key => DOMAIN F[k] = DOMAIN f[k]
    BY <1>4, NodesAreNaturals
  <2> QED
    BY <2>1, <2>2, <2>3 DEF Linked
<1>10. value' = [value EXCEPT ![key] = v] /\ size' = size + 1
  BY DEF InsertNode
<1>11. value' \in [Key -> Value \cup {NoValue}]
  BY <1>10 DEF ListInv
<1>12. \A k \in Key : value'[k] # NoValue <=> k \in Linked'
  BY <1>9, <1>10, NoValueIsNone DEF ListInv
<1>13. size' = Cardinality(Linked')
  BY <1>9, <1>10, LinkedIsFinite, FS_AddElement DEF ListInv
<1> QED
  BY <1>7, <1>8, <1>11, <1>12, <1>13 DEF ListInv, F

\* A node is only on levels in use.
LEMMA LevelsInUse ==
    ASSUME NEW f, Shape(f), NEW c, Tight(f, c), NEW key \in Key, NEW l, key \in On(f, l)
    PROVE  l \in 0..c
<1>1. l \in 0..MAX_LEVEL /\ c \in 0..MAX_LEVEL-1 /\ MAX_LEVEL \in Nat
  BY LevelsBelow, SkipListLevels DEF On, Tight
<1>2. f[Header][l] # Null
  BY <1>1, EmptyLevel, NodesAreNaturals
<1>3. ~(l \in c+1..MAX_LEVEL)
  BY <1>2 DEF Tight
<1> QED
  BY <1>1, <1>3

\* So does remove of a key that is there.
LEMMA RemoveKeepsList ==
    ASSUME ListInv, NEW key \in Key, key \in Linked,
           Unlink(key, Predecessors(key)), LowerLevel,
           value' = [value EXCEPT ![key] = NoValue], size' = size - 1
    PROVE  ListInv'
<1> DEFINE f == forward
           F == forward'
           last(l) == Last(f, l, key)
           levels == DOMAIN f[key]
<1>1. /\ Shape(f) /\ Tight(f, currentLevel) /\ MAX_LEVEL \in Nat /\ MAX_LEVEL > 0
      /\ currentLevel \in Nat /\ currentLevel < MAX_LEVEL
  BY SkipListLevels DEF ListInv, Tight
<1>2. key \in Node /\ key # Header
  BY NodesAreNaturals
<1>3. PICK h \in 0..MAX_LEVEL-1 : levels = 0..h
  BY <1>1 DEF Linked, Shape
<1>4. levels \subseteq 0..currentLevel /\ h <= currentLevel
  <2>1. \A l \in levels : l \in 0..currentLevel
    BY <1>1, <1>2, LevelsInUse DEF On
  <2>2. h \in levels
    BY <1>3
  <2>3. h \in 0..currentLevel
    BY <2>1, <2>2
  <2> QED
    BY <1>1, <2>1, <2>3
<1> DEFINE update == Predecessors(key)
           unlinked == {l \in 0..currentLevel : \A m \in 0..l : f[update[m]][m] = key}
<1>5. \A l \in 0..currentLevel : update[l] = last(l)
  BY <1>1, PredecessorsAreLast
<1>6. \A l \in 0..currentLevel : f[update[l]][l] = key <=> l \in levels
  <2>1. ASSUME NEW l \in 0..currentLevel
        PROVE  f[last(l)][l] = key <=> key \in On(f, l)
    BY <1>1, AfterLast
  <2>2. \A l : key \in On(f, l) <=> l \in levels
    BY <1>2 DEF On
  <2> QED
    BY <1>5, <2>1, <2>2
<1>7. unlinked = levels
  <2>1. ASSUME NEW l \in unlinked
        PROVE  l \in levels
    <3>1. l \in 0..currentLevel /\ l \in 0..l
      BY <1>1
    <3> QED
      BY <1>6, <3>1
  <2>2. ASSUME NEW l \in levels
        PROVE  l \in unlinked
    <3>1. l \in 0..currentLevel /\ \A m \in 0..l : m \in levels /\ m \in 0..currentLevel
      BY <1>1, <1>3, <1>4
    <3> QED
      BY <1>6, <3>1
  <2> QED
    BY <2>1, <2>2
<1>8. /\ DOMAIN F = Node /\ DOMAIN F[key] = {}
      /\ \A n \in Node \ {key} :
           /\ DOMAIN F[n] = DOMAIN f[n]
           /\ \A l \in DOMAIN f[n] :
                F[n][l] = IF l \in levels /\ last(l) = n THEN f[key][l] ELSE f[n][l]
  <2> DEFINE links(n) == [l \in DOMAIN f[n] |->
                            IF l \in unlinked /\ update[l] = n THEN f[key][l] ELSE f[n][l]]
  <2>1. F = [n \in Node |-> IF n = key THEN Deleted ELSE links(n)]
    BY DEF Unlink
  <2>2. DOMAIN F = Node /\ DOMAIN F[key] = {}
    BY <1>2, <2>1 DEF Deleted
  <2>3. ASSUME NEW n \in Node \ {key}
        PROVE  F[n] = links(n)
    BY <2>1
  <2> HIDE DEF last, f, update, unlinked, levels
  <2>4. ASSUME NEW n \in Node \ {key}, NEW l \in DOMAIN f[n]
        PROVE  F[n][l] = IF l \in levels /\ last(l) = n THEN f[key][l] ELSE f[n][l]
    <3>1. l \in levels => update[l] = last(l)
      BY <1>4, <1>5
    <3> HIDE DEF F
    <3>2. F[n][l] = IF l \in unlinked /\ update[l] = n THEN f[key][l] ELSE f[n][l]
      <4>1. F[n] = links(n)
        BY <2>3
      <4>2. links(n)[l] = IF l \in unlinked /\ update[l] = n THEN f[key][l] ELSE f[n][l]
        OBVIOUS
      <4> HIDE DEF links
      <4> QED
        BY <4>1, <4>2, Zenon
    <3> QED
      BY <1>7, <3>1, <3>2
  <2> QED
    BY <2>2, <2>3, <2>4
<1> HIDE DEF last, F
<1>9. \A l : On(F, l) = On(f, l) \ {key}
  BY <1>8 DEF On
<1>10. ASSUME NEW l \in 0..MAX_LEVEL
       PROVE  Chained(F, l)
  <2>1. \A n \in On(f, l) \ {key} : n \in Node \ {key} /\ l \in DOMAIN f[n]
    BY DEF On
  <2>2. last(l) \in On(f, l) \ {key}
    BY <1>1, LastExists, NodesAreNaturals DEF IsLast, last
  <2>3. On(F, l) = On(f, l) \ {key}
    BY <1>9
  <2>4. CASE l \in levels
    <3>1. key \in On(f, l) /\ F[last(l)][l] = f[key][l]
      BY <1>2, <1>8, <2>1, <2>2, <2>4 DEF On
    <3>2. \A n \in On(f, l) \ {key} : n # last(l) => F[n][l] = f[n][l]
      BY <1>8, <2>1
    <3> HIDE DEF f
    <3> QED
      BY <1>1, <2>3, <3>1, <3>2, ChainedUnlinked DEF last
  <2>5. CASE l \notin levels
    <3>1. On(F, l) = On(f, l)
      BY <2>3, <2>5 DEF On
    <3>2. \A n \in On(f, l) : F[n][l] = f[n][l]
      BY <1>8, <2>1, <2>3, <2>5, <3>1
    <3> HIDE DEF f
    <3> QED
      BY <1>1, <3>1, <3>2, ChainedWithout
  <2> QED
    BY <2>4, <2>5
<1>11. Shape(F)
  <2>1. DOMAIN F[Header] = 0..MAX_LEVEL
    BY <1>1, <1>2, <1>8, NodesAreNaturals DEF Shape
  <2>2. ASSUME NEW k \in Key, DOMAIN F[k] # {}
        PROVE  \E g \in 0..MAX_LEVEL-1 : DOMAIN F[k] = 0..g
    BY <1>1, <1>8, <2>2, NodesAreNaturals DEF Shape
  <2> QED
    BY <1>8, <1>10, <2>1, <2>2 DEF Shape
<1>12. Tight(F, currentLevel')
  <2> DEFINE Top(l) == /\ l = 0 \/ F[Header][l] # Null
                       /\ \A m \in l+1..currentLevel : F[Header][m] = Null
             used == {l \in 0..currentLevel : l = 0 \/ F[Header][l] # Null}
  <2>1. used \in SUBSET Nat /\ 0 \in used /\ \A x \in used : x <= currentLevel
    BY <1>1
  <2>2. PICK l \in used : \A y \in used : y <= l
    BY <1>1, <2>1, GreatestNatural
  <2>3. Top(l) /\ l \in 0..currentLevel
    <3>1. ASSUME NEW m \in l+1..currentLevel
          PROVE  F[Header][m] = Null
      <4>1. m \in 0..currentLevel /\ ~(m <= l)
        BY <1>1, <2>1
      <4>2. m \notin used
        BY <2>2, <4>1
      <4> QED
        BY <4>1, <4>2
    <3> QED
      BY <3>1
  <2>4. currentLevel' = CHOOSE m \in 0..currentLevel : Top(m)
    BY DEF LowerLevel, F
  <2>5. currentLevel' \in 0..currentLevel /\ Top(currentLevel')
    <3> HIDE DEF Top
    <3> QED
      BY <2>3, <2>4
  <2>6. currentLevel' \in Nat /\ currentLevel' <= currentLevel
    <3> HIDE DEF Top
    <3> QED
      BY <1>1, <2>5
  <2>7. ASSUME NEW m \in currentLevel'+1..MAX_LEVEL
        PROVE  F[Header][m] = Null
    <3>1. CASE m <= currentLevel
      <4> DEFINE c == currentLevel'
      <4>1. m \in c+1..MAX_LEVEL /\ c \in Nat
        BY <2>6
      <4>2. m \in c+1..currentLevel
        <5> HIDE DEF c, Top, used, unlinked, update, levels, f
        <5> QED
          BY <1>1, <4>1, <3>1
      <4> QED
        BY <2>5, <4>2
    <3>2. CASE m > currentLevel
      <4>1. m \in currentLevel+1..MAX_LEVEL /\ m \notin levels
        BY <1>1, <1>4, <2>5, <3>2
      <4>2. f[Header][m] = Null
        BY <1>1, <4>1 DEF Tight
      <4>3. m \in DOMAIN f[Header] /\ Header \in Node \ {key}
        BY <1>1, <1>2, <4>1, NodesAreNaturals DEF Shape
      <4> QED
        BY <1>8, <4>1, <4>2, <4>3
    <3> QED
      BY <1>1, <2>5, <3>1, <3>2
  <2> QED
    BY <1>1, <2>5, <2>7 DEF Tight
<1>13. Linked' = Linked \ {key}
  <2>1. Linked' = {k \in Key : DOMAIN F[k] # {}}
    BY DEF Linked, F
  <2>2. \A k \in Key : k # key => DOMAIN F[k] = DOMAIN f[k]
    BY <1>8, NodesAreNaturals
  <2> QED
    BY <1>8, <2>1, <2>2 DEF Linked
<1>14. value' \in [Key -> Value \cup {NoValue}]
  BY DEF ListInv
<1>15. \A k \in Key : value'[k] # NoValue <=> k \in Linked'
  BY <1>13 DEF ListInv
<1>16. size' = Cardinality(Linked')
  BY <1>13, LinkedIsFinite, FS_RemoveElement DEF ListInv
<1> QED
  BY <1>11, <1>12, <1>14, <1>15, <1>16 DEF ListInv, F
-----------------------------------------------------------------------------
(* The operations *)

\* insert of a key that is there changes its value only.
LEMMA UpdateKeepsList ==
    ASSUME ListInv, NEW key \in Key, NEW v \in Value, key \in Linked, Update(key, v)
    PROVE  ListInv'
<1>1. Linked' = Linked /\ Shape(forward)' /\ Tight(forward, currentLevel)' /\ size' = size
  BY DEF Update, Linked, ListInv, Shape, Tight, Chained, On
<1>2. value' = [value EXCEPT ![key] = v]
  BY DEF Update
<1>3. value' \in [Key -> Value \cup {NoValue}]
  BY <1>2 DEF ListInv
<1>4. \A k \in Key : value'[k] # NoValue <=> k \in Linked
  BY <1>2, NoValueIsNone DEF ListInv
<1> QED
  BY <1>1, <1>3, <1>4 DEF ListInv

\* Nothing changes.
LEMMA NothingKeepsList ==
    ASSUME ListInv, UNCHANGED <<forward, value, currentLevel, size>>
    PROVE  ListInv'
  BY DEF ListInv, Linked, Shape, Tight, Chained, On

\* search, insert and remove, seen from outside.
LEMMA SearchIsGet ==
    ASSUME ListInv, NEW key \in Key, search(key)
    PROVE  ListInv' /\ value' = value /\ size' = size /\ ret' = <<"get", value[key]>>
  BY NothingKeepsList, LookupIsValue DEF search

\* insert is put of the map.
LEMMA InsertIsPut ==
    ASSUME ListInv, NEW key \in Key, NEW v \in Value, insert(key, v)
    PROVE  /\ ListInv' /\ value' = [value EXCEPT ![key] = v]
           /\ ret' = <<"put", value[key] = NoValue>>
<1>1. CASE key \in Linked
  <2>1. Update(key, v)
    BY <1>1, CandidateIsKey DEF insert
  <2>2. value[key] # NoValue
    BY <1>1 DEF ListInv
  <2> QED
    BY <1>1, <2>1, <2>2, UpdateKeepsList DEF Update
<1>2. CASE key \notin Linked
  <2>1. PICK newLevel \in 0..MAX_LEVEL-1 : InsertNode(key, v, Predecessors(key), newLevel)
    BY <1>2, CandidateIsKey DEF insert
  <2>2. value[key] = NoValue
    BY <1>2 DEF ListInv
  <2>3. value' = [value EXCEPT ![key] = v] /\ ret' = <<"put", TRUE>>
    BY <2>1 DEF InsertNode
  <2> QED
    BY <1>2, <2>1, <2>2, <2>3, InsertNodeKeepsList
<1> QED
  BY <1>1, <1>2

\* remove is remove of the map.
LEMMA RemoveIsRemove ==
    ASSUME ListInv, NEW key \in Key, remove(key)
    PROVE  /\ ListInv' /\ value' = [value EXCEPT ![key] = NoValue]
           /\ ret' = <<"remove", value[key] # NoValue>>
<1>1. CASE key \in Linked
  <2>1. /\ Unlink(key, Predecessors(key)) /\ LowerLevel
        /\ value' = [value EXCEPT ![key] = NoValue] /\ size' = size - 1 /\ ret' = <<"remove", TRUE>>
    BY <1>1, CandidateIsKey DEF remove
  <2>2. value[key] # NoValue
    BY <1>1 DEF ListInv
  <2> QED
    BY <1>1, <2>1, <2>2, RemoveKeepsList
<1>2. CASE key \notin Linked
  <2>1. ret' = <<"remove", FALSE>> /\ UNCHANGED <<forward, value, currentLevel, size>>
    BY <1>2, CandidateIsKey DEF remove
  <2>2. value[key] = NoValue /\ [value EXCEPT ![key] = NoValue] = value
    BY <1>2 DEF ListInv
  <2> QED
    BY <2>1, <2>2, NothingKeepsList
<1> QED
  BY <1>1, <1>2

\* The list that is made by the constructor.
LEMMA InitIsList ==
    ASSUME Init
    PROVE  ListInv
<1>1. /\ forward[Header] = [l \in 0..MAX_LEVEL |-> Null] /\ DOMAIN forward = Node
      /\ \A k \in Key : DOMAIN forward[k] = {}
  BY NodesAreNaturals DEF Init, Deleted
<1>2. Linked = {}
  BY <1>1 DEF Linked
<1>3. \A l \in 0..MAX_LEVEL : On(forward, l) = {Header} /\ forward[Header][l] = Null
  BY <1>1, NodesAreNaturals DEF On, Node
<1>4. \A l \in 0..MAX_LEVEL : Chained(forward, l)
  BY <1>3, NodesAreNaturals DEF Chained
<1>5. Shape(forward)
  BY <1>1, <1>4 DEF Shape
<1>6. Tight(forward, currentLevel)
  <2>1. currentLevel = 0 /\ \A l \in 0+1..MAX_LEVEL : l \in 0..MAX_LEVEL
    BY SkipListLevels DEF Init
  <2> QED
    BY <1>3, <2>1, SkipListLevels DEF Tight
<1>7. Cardinality(Linked) = 0
  BY <1>2, FS_EmptySet
<1> QED
  BY <1>2, <1>5, <1>6, <1>7 DEF Init, ListInv
-----------------------------------------------------------------------------
(* What the invariant says in the words of SkipList *)

\* The invariants that SkipList states.
LEMMA ListInvIsSkipListInv ==
    ASSUME ListInv
    PROVE  TypeOK /\ LevelsAreLists /\ LevelIsTight
<1>1. TypeOK
  <2>1. \A k \in Linked : \E h \in 0..MAX_LEVEL-1 : DOMAIN forward[k] = 0..h
    BY DEF ListInv, Shape, Linked
  <2>2. size \in Nat
    BY LinkedIsFinite, FS_CardinalityType DEF ListInv
  <2> QED
    BY <2>1, <2>2 DEF TypeOK, ListInv, Shape, Tight
<1>2. LevelsAreLists
  <2> SUFFICES ASSUME NEW n \in {Header} \cup Linked, NEW l \in DOMAIN forward[n]
               PROVE  LET after == {k \in Linked : l \in DOMAIN forward[k] /\ n < k}
                      IN  IF after = {} THEN forward[n][l] = Null
                          ELSE forward[n][l] \in after /\ \A k \in after : forward[n][l] <= k
    BY DEF LevelsAreLists
  <2> DEFINE after == {k \in Linked : l \in DOMAIN forward[k] /\ n < k}
  <2>1. n \in Node /\ n \in On(forward, l)
    BY NodesAreNaturals DEF Linked, On
  <2>2. l \in 0..MAX_LEVEL
    BY <2>1, LevelsBelow DEF ListInv
  <2>3. \/ forward[n][l] = Null /\ \A k \in On(forward, l) : k <= n
        \/ /\ forward[n][l] \in On(forward, l) /\ n < forward[n][l]
           /\ \A k \in On(forward, l) : n < k => forward[n][l] <= k
    BY <2>1, <2>2 DEF ListInv, Shape, Chained
  <2>4. after = {k \in On(forward, l) : n < k}
    <3>1. \A k \in after : k \in On(forward, l) /\ n < k
      BY NodesAreNaturals DEF Linked, On
    <3>2. ASSUME NEW k \in On(forward, l), n < k
          PROVE  k \in after
      <4>1. k \in Node /\ l \in DOMAIN forward[k] /\ n \in Nat /\ k \in Nat
        BY <2>1, NodesAreNaturals DEF On
      <4>2. k \in Key
        BY <3>2, <4>1, NodesAreNaturals
      <4> QED
        BY <3>2, <4>1, <4>2 DEF Linked
    <3> QED
      BY <3>1, <3>2
  <2>5. On(forward, l) \subseteq Nat /\ n \in Nat
    BY <2>1, NodesAreNaturals DEF On
  <2> HIDE DEF after
  <2>6. CASE forward[n][l] = Null /\ \A k \in On(forward, l) : k <= n
    <3>1. after = {}
      BY <2>4, <2>5, <2>6
    <3> QED
      BY <2>6, <3>1 DEF after
  <2>7. CASE /\ forward[n][l] \in On(forward, l) /\ n < forward[n][l]
             /\ \A k \in On(forward, l) : n < k => forward[n][l] <= k
    <3>1. forward[n][l] \in after /\ \A k \in after : forward[n][l] <= k
      BY <2>4, <2>7
    <3> QED
      BY <3>1 DEF after
  <2> QED
    BY <2>3, <2>6, <2>7
<1>3. LevelIsTight
  BY DEF LevelIsTight, ListInv, Tight
<1> QED
  BY <1>1, <1>2, <1>3

\* What is looked up are the values, the map that the list implements is the
\* values, and size is the number of its keys.
Mirrored ==
    /\ \A key \in Key : Lookup(key) = value[key]
    /\ [k \in Key |-> Lookup(k)] = value
    /\ size = Cardinality({m \in Key : value[m] # NoValue})

\* They agree in the invariant.
LEMMA ListInvMirrors == ListInv => Mirrored
<1> SUFFICES ASSUME ListInv PROVE Mirrored
  OBVIOUS
<1>1. \A k \in Key : Lookup(k) = value[k]
  BY LookupIsValue
<1>2. [k \in Key |-> Lookup(k)] = value
  <2>1. value \in [Key -> Value \cup {NoValue}]
    BY DEF ListInv
  <2>2. [k \in Key |-> Lookup(k)] = [k \in Key |-> value[k]]
    BY <1>1
  <2> QED
    BY <2>1, <2>2
<1>3. {m \in Key : value[m] # NoValue} = Linked
  BY DEF ListInv, Linked
<1> QED
  BY <1>1, <1>2, <1>3 DEF ListInv, Mirrored

\* The same after a step.
LEMMA NextListInvMirrors == ListInv' => Mirrored'
  BY ListInvMirrors, PTL

\* Each operation on the list is the operation of the map.
LEMMA OperationsAreOfTheMap ==
    ASSUME ListInv, NEW key \in Key
    PROVE  /\ search(key) => Contents!Get(key)
           /\ \A v \in Value : insert(key, v) => Contents!Put(key, v)
           /\ remove(key) => Contents!Remove(key)
<1>1. [k \in Key |-> Lookup(k)] = value /\ \A S : Contents!Cardinality(S) = Cardinality(S)
  BY ListInvMirrors DEF Mirrored, Contents!Cardinality, Cardinality
<1>2. value[key] = Lookup(key)
  BY LookupIsValue
<1> DEFINE store == [k \in Key |-> Lookup(k)]
<1>3. ASSUME search(key)
      PROVE  Contents!Get(key)
  <2>1. ListInv' /\ value' = value /\ size' = size /\ ret' = <<"get", value[key]>>
    BY <1>3, SearchIsGet
  <2>2. [k \in Key |-> Lookup(k)]' = value'
    BY <2>1, NextListInvMirrors DEF Mirrored
  <2> QED
    BY <1>1, <2>1, <2>2 DEF Contents!Get
<1>4. ASSUME NEW v \in Value, insert(key, v)
      PROVE  Contents!Put(key, v)
  <2>1. ListInv' /\ value' = [value EXCEPT ![key] = v] /\ ret' = <<"put", value[key] = NoValue>>
    BY <1>4, InsertIsPut
  <2>2. [k \in Key |-> Lookup(k)]' = value'
    BY <2>1, NextListInvMirrors DEF Mirrored
  <2>3. size' = Cardinality({m \in Key : value'[m] # NoValue})
    BY <2>1, NextListInvMirrors DEF Mirrored
  <2> QED
    BY <1>1, <2>1, <2>2, <2>3 DEF Contents!Put
<1>5. ASSUME remove(key)
      PROVE  Contents!Remove(key)
  <2>1. ListInv' /\ value' = [value EXCEPT ![key] = NoValue] /\ ret' = <<"remove", value[key] # NoValue>>
    BY <1>5, RemoveIsRemove
  <2>2. [k \in Key |-> Lookup(k)]' = value'
    BY <2>1, NextListInvMirrors DEF Mirrored
  <2>3. size' = Cardinality({m \in Key : value'[m] # NoValue})
    BY <2>1, NextListInvMirrors DEF Mirrored
  <2> QED
    BY <1>1, <2>1, <2>2, <2>3 DEF Contents!Remove
<1> QED
  BY <1>3, <1>4, <1>5
-----------------------------------------------------------------------------
(* Keys, commands and their text *)

\* A key whose first part may be stored has a number, an even one if it is plain.
LEMMA KeyNumbers ==
    ASSUME NEW s, s[1] \in KeyPart
    PROVE  /\ KeyNumber(s) \in Key
           /\ Len(s) = 1 => KeyNumber(s) % 2 = 0
<1> DEFINE c == Cardinality(KeyPart)
           places == {f \in [KeyPart -> 1..c] : \A p, q \in KeyPart : f[p] = f[q] => p = q}
<1>1. c \in Nat
  BY KeyParts, FS_CardinalityType
<1>2. PartNumber \in places
  <2>1. \E f : ExistsBijection(1..c, KeyPart)
    BY KeyParts, FS_NatBijection, FS_CardinalityType
  <2>2. PICK f \in Bijection(1..c, KeyPart) : TRUE
    BY <2>1 DEF ExistsBijection
  <2>3. \E g : g \in places
    <3> DEFINE g == [p \in KeyPart |-> CHOOSE i \in 1..c : f[i] = p]
    <3>1. \A p \in KeyPart : \E i \in 1..c : f[i] = p
      BY <2>2 DEF Bijection, Surjection
    <3>2. \A p \in KeyPart : g[p] \in 1..c /\ f[g[p]] = p
      BY <3>1
    <3>3. g \in [KeyPart -> 1..c] /\ \A p, q \in KeyPart : g[p] = g[q] => p = q
      BY <3>2
    <3> QED
      BY <3>3
  <2>4. PartNumber = CHOOSE f_1 \in [KeyPart -> 1..c] : \A p, q \in KeyPart : f_1[p] = f_1[q] => p = q
    BY DEF PartNumber
  <2> QED
    BY <2>3, <2>4
<1>3. PartNumber[s[1]] \in 1..c
  BY <1>2
<1> DEFINE m == PartNumber[s[1]]
<1> HIDE DEF c, m
<1>4. KeyNumber(s) = 2 * m + (IF Len(s) > 1 THEN 1 ELSE 0) /\ m \in 1..c
  BY <1>3 DEF KeyNumber, m
<1>5. KeyNumber(s) \in 2..(2 * c + 1)
  BY <1>1, <1>4
<1>6. Len(s) = 1 => KeyNumber(s) = 2 * m
  BY <1>4
<1>7. \A x \in Nat : (2 * x) % 2 = 0
  OBVIOUS
<1> QED
  BY <1>1, <1>4, <1>5, <1>6, <1>7, KeysOfParts DEF c

\* A command is not an exception.
LEMMA CommandIsNotThrown == \A t, k, v : Command(t, k, v) # Thrown
<1> SUFFICES ASSUME NEW t, NEW k, NEW v PROVE Command(t, k, v) # Thrown
  OBVIOUS
<1>1. DOMAIN Command(t, k, v) = {"type", "key", "value"} /\ DOMAIN Thrown = {"thrown"}
  BY DEF Command, Thrown
<1>2. "thrown" \notin {"type", "key", "value"}
  OBVIOUS
<1> QED
  BY <1>1, <1>2

\* The rest of a sequence after two elements.
LEMMA AfterTwo ==
    ASSUME NEW S, NEW s \in Seq(S)
    PROVE  /\ Len(s) = 3 => SubSeq(s, 3, 3) = <<s[3]>>
           /\ Len(s) = 4 => SubSeq(s, 3, 4) = <<s[3], s[4]>>
<1>1. ASSUME Len(s) = 3
      PROVE  SubSeq(s, 3, 3) = <<s[3]>>
  <2> DEFINE t == SubSeq(s, 3, 3)
  <2>1. t \in Seq(S) /\ Len(t) = 1 /\ t[1] = s[3]
    BY <1>1, SubSeqProperties
  <2> HIDE DEF t
  <2>2. t = <<t[1]>>
    BY <2>1, ShortSequences
  <2> QED
    BY <2>1, <2>2 DEF t
<1>2. ASSUME Len(s) = 4
      PROVE  SubSeq(s, 3, 4) = <<s[3], s[4]>>
  <2> DEFINE t == SubSeq(s, 3, 4)
  <2>1. \A i \in 3..4 : s[i] \in S
    BY <1>2
  <2>2. t \in Seq(S) /\ Len(t) = 2 /\ \A i \in 1..2 : t[i] = s[3 + i - 1]
    BY <2>1, SubSeqProperties
  <2>3. t[1] = s[3] /\ t[2] = s[4]
    BY <2>2
  <2> HIDE DEF t
  <2>4. t = <<t[1], t[2]>>
    BY <2>2, ShortSequences
  <2> QED
    BY <2>3, <2>4 DEF t
<1> QED
  BY <1>1, <1>2

\* deserialize by the kind of text.
LEMMA Deserialized ==
    ASSUME NEW s, Len(s) \in Nat
    PROVE  /\ s[1] \in {"GET", "DELETE"} /\ Len(s) >= 2 =>
                deserialize(s) = IF Tail(s) = EmptyString THEN Thrown ELSE Command(s[1], Tail(s), EmptyString)
           /\ s[1] = "PUT" /\ Len(s) >= 3 =>
                deserialize(s) = IF <<s[2]>> = EmptyString THEN Thrown
                                 ELSE Command("PUT", <<s[2]>>, SubSeq(s, 3, Len(s)))
<1>1. ASSUME s[1] \in {"GET", "DELETE"}, Len(s) >= 2
      PROVE  deserialize(s) = IF Tail(s) = EmptyString THEN Thrown ELSE Command(s[1], Tail(s), EmptyString)
  <2>1. ~(Len(s) < 2) /\ s[1] \in {"PUT", "GET", "DELETE"} /\ s[1] # "PUT"
    BY <1>1
  <2> QED
    BY <2>1, Zenon DEF deserialize
<1>2. ASSUME s[1] = "PUT", Len(s) >= 3
      PROVE  deserialize(s) = IF <<s[2]>> = EmptyString THEN Thrown
                              ELSE Command("PUT", <<s[2]>>, SubSeq(s, 3, Len(s)))
  <2>1. ~(Len(s) < 2) /\ ~(Len(s) < 3) /\ s[1] \in {"PUT", "GET", "DELETE"}
    BY <1>2
  <2> QED
    BY <1>2, <2>1, Zenon DEF deserialize
<1> QED
  BY <1>1, <1>2

\* Neither the first part of a key that may be stored nor two parts are empty.
LEMMA PairIsNotEmpty ==
    ASSUME NEW p, NEW q
    PROVE  /\ <<p, q>> # EmptyString
           /\ p \in KeyPart => <<p>> # EmptyString
<1>1. \A x : <<p, q>> # <<x>> /\ (<<p>> = <<x>> => p = x)
  OBVIOUS
<1>2. p \in KeyPart => p # ""
  BY KeyParts, Zenon
<1> QED
  BY <1>1, <1>2, Zenon DEF EmptyString

\* The texts that requests become, and what is read of them.
LEMMA TextsAreRead ==
    ASSUME NEW p, NEW q, NEW v
    PROVE  /\ \A t \in {"GET", "DELETE"} :
                /\ deserialize(<<t, p>>) = IF <<p>> = EmptyString THEN Thrown ELSE Command(t, <<p>>, EmptyString)
                /\ deserialize(<<t, p, q>>) = Command(t, <<p, q>>, EmptyString)
           /\ deserialize(<<"PUT", p, v>>) = IF <<p>> = EmptyString THEN Thrown ELSE Command("PUT", <<p>>, <<v>>)
<1>1. <<p, q>> # EmptyString
  BY PairIsNotEmpty
<1>2. ASSUME NEW t \in {"GET", "DELETE"}
      PROVE  /\ deserialize(<<t, p>>) = IF <<p>> = EmptyString THEN Thrown ELSE Command(t, <<p>>, EmptyString)
             /\ deserialize(<<t, p, q>>) = Command(t, <<p, q>>, EmptyString)
  <2>1. Tail(<<t, p>>) = <<p>> /\ Len(<<t, p>>) = 2 /\ <<t, p>>[1] = t
    OBVIOUS
  <2>2. Tail(<<t, p, q>>) = <<p, q>> /\ Len(<<t, p, q>>) = 3 /\ <<t, p, q>>[1] = t
    OBVIOUS
  <2>3. deserialize(<<t, p>>) = IF <<p>> = EmptyString THEN Thrown ELSE Command(t, <<p>>, EmptyString)
    <3> DEFINE s == <<t, p>>
    <3>1. Tail(s) = <<p>> /\ Len(s) = 2 /\ s[1] = t
      BY <2>1
    <3> HIDE DEF s
    <3>2. Len(s) \in Nat /\ s[1] \in {"GET", "DELETE"} /\ Len(s) >= 2
      BY <3>1
    <3>3. deserialize(s) = IF Tail(s) = EmptyString THEN Thrown ELSE Command(s[1], Tail(s), EmptyString)
      BY <3>2, Deserialized
    <3> QED
      BY <3>1, <3>3 DEF s
  <2>4. deserialize(<<t, p, q>>) = IF <<p, q>> = EmptyString THEN Thrown ELSE Command(t, <<p, q>>, EmptyString)
    <3> DEFINE s == <<t, p, q>>
    <3>1. Tail(s) = <<p, q>> /\ Len(s) = 3 /\ s[1] = t
      BY <2>2
    <3> HIDE DEF s
    <3>2. Len(s) \in Nat /\ s[1] \in {"GET", "DELETE"} /\ Len(s) >= 2
      BY <3>1
    <3>3. deserialize(s) = IF Tail(s) = EmptyString THEN Thrown ELSE Command(s[1], Tail(s), EmptyString)
      BY <3>2, Deserialized
    <3> QED
      BY <3>1, <3>3 DEF s
  <2> QED
    BY <1>1, <2>3, <2>4
<1>3. deserialize(<<"PUT", p, v>>) = IF <<p>> = EmptyString THEN Thrown ELSE Command("PUT", <<p>>, <<v>>)
  <2> DEFINE s == <<"PUT", p, v>>
  <2>1. Len(s) = 3 /\ s[1] = "PUT" /\ s[2] = p /\ s[3] = v /\ s \in Seq({"PUT", p, v})
    OBVIOUS
  <2> HIDE DEF s
  <2>2. SubSeq(s, 3, Len(s)) = <<v>>
    BY <2>1, AfterTwo
  <2>3. Len(s) \in Nat /\ s[1] = "PUT" /\ Len(s) >= 3
    BY <2>1
  <2>4. deserialize(s) = IF <<s[2]>> = EmptyString THEN Thrown ELSE Command("PUT", <<s[2]>>, SubSeq(s, 3, Len(s)))
    BY <2>3, Deserialized
  <2> QED
    BY <2>1, <2>2, <2>4 DEF s
<1> QED
  BY <1>2, <1>3

\* PUT cuts the text at the second colon only.
LEMMA LongTextIsRead ==
    ASSUME NEW p, NEW q, NEW v
    PROVE  deserialize(<<"PUT", p, q, v>>) = IF <<p>> = EmptyString THEN Thrown ELSE Command("PUT", <<p>>, <<q, v>>)
<1> DEFINE s == <<"PUT", p, q, v>>
<1>1. Len(s) = 4 /\ s[1] = "PUT" /\ s[2] = p /\ s[3] = q /\ s[4] = v /\ s \in Seq({"PUT", p, q, v})
  OBVIOUS
<1> HIDE DEF s
<1>2. SubSeq(s, 3, Len(s)) = <<q, v>>
  BY <1>1, AfterTwo
<1>3. Len(s) \in Nat /\ s[1] = "PUT" /\ Len(s) >= 3
  BY <1>1
<1>4. deserialize(s) = IF <<s[2]>> = EmptyString THEN Thrown ELSE Command("PUT", <<s[2]>>, SubSeq(s, 3, Len(s)))
  BY <1>3, Deserialized
<1> QED
  BY <1>1, <1>2, <1>4 DEF s

\* The requests: an operation, a key of one or two parts, a value of one part.
LEMMA RequestForms ==
    ASSUME NEW m \in Request
    PROVE  /\ m.operation \in 0..3
           /\ \E p : /\ p \in KeyPart \/ <<p>> = EmptyString \/ p = NotUtf8
                     /\ m.key = <<p>> \/ (p # NotUtf8 /\ m.key = <<p, MorePart>>)
           /\ m.value \in Value /\ <<MorePart>> \o m.value \in Value
           /\ \E v : m.value = <<v>> /\ v # NotUtf8
<1>1. m.operation \in 0..3 /\ m.key \in RequestKey /\ m.value \in {EmptyString, <<ValuePart>>}
  BY DEF Request
<1>2. m.value \in StoredValue /\ <<MorePart>> \o m.value \in StoredValue
  BY DEF StoredValue
<1>3. PICK e : EmptyString = <<e>> /\ e # NotUtf8 /\ RequestKey = {EmptyString, <<e, MorePart>>, <<NotUtf8>>}
                         \cup {<<p>> : p \in KeyPart} \cup {<<p, MorePart>> : p \in KeyPart}
  BY Zenon DEF RequestKey, EmptyString, NotUtf8
<1>4. \E p : /\ p \in KeyPart \/ <<p>> = EmptyString \/ p = NotUtf8
             /\ m.key = <<p>> \/ (p # NotUtf8 /\ m.key = <<p, MorePart>>)
  <2>1. CASE m.key \in {EmptyString, <<NotUtf8>>}
    BY <1>3, <2>1
  <2>2. CASE m.key = <<e, MorePart>>
    BY <1>3, <2>2
  <2>3. CASE m.key \in {<<p>> : p \in KeyPart}
    BY <2>3
  <2>4. CASE m.key \in {<<p, MorePart>> : p \in KeyPart}
    <3>1. NotUtf8 \notin KeyPart
      BY KeyParts, Zenon
    <3> QED
      BY <2>4, <3>1
  <2> QED
    BY <1>1, <1>3, <2>1, <2>2, <2>3, <2>4
<1>5. \E v : m.value = <<v>> /\ v # NotUtf8
  BY <1>1, <1>3, OtherPartsAreUtf8
<1> QED
  BY <1>1, <1>2, <1>4, <1>5, ValuesAreOfRequests

\* The text of a request's command.
LEMMA TextOfRequest ==
    ASSUME NEW m \in Request, m.operation \in 0..2
    PROVE  LET t == OperationName[m.operation + 1]
           IN  /\ t = (IF m.operation = 0 THEN "PUT" ELSE IF m.operation = 1 THEN "GET" ELSE "DELETE")
               /\ \A p, q, v :
                    /\ m.key = <<p>> /\ m.value = <<v>> =>
                         CommandText(m) = IF t = "PUT" THEN <<t, p, v>> ELSE <<t, p>>
                    /\ m.key = <<p, q>> /\ m.value = <<v>> =>
                         CommandText(m) = IF t = "PUT" THEN <<t, p, q, v>> ELSE <<t, p, q>>
<1> DEFINE t == OperationName[m.operation + 1]
<1>1. t = (IF m.operation = 0 THEN "PUT" ELSE IF m.operation = 1 THEN "GET" ELSE "DELETE")
  BY DEF OperationName
<1>2. CommandText(m) = <<t>> \o m.key \o (IF t = "PUT" THEN m.value ELSE <<>>)
  BY DEF CommandText, serialize, Command
<1> HIDE DEF t
<1>3. ASSUME NEW p, NEW q, NEW v
      PROVE  /\ <<t>> \o <<p>> \o <<v>> = <<t, p, v>> /\ <<t>> \o <<p>> \o <<>> = <<t, p>>
             /\ <<t>> \o <<p, q>> \o <<>> = <<t, p, q>>
  <2>1. <<t>> \o <<p>> = <<t, p>> /\ <<t>> \o <<p, q>> = <<t, p, q>>
    BY ShortSequencesJoined
  <2>2. <<t, p>> \o <<v>> = <<t, p, v>> /\ <<t, p>> \o <<>> = <<t, p>>
    BY ShortSequencesJoined
  <2>3. <<t, p, q>> \o <<>> = <<t, p, q>>
    BY ShortSequencesJoined
  <2> QED
    BY <2>1, <2>2, <2>3
<1>4. ASSUME NEW p, NEW q, NEW v, m.value = <<v>>
      PROVE  /\ m.key = <<p>> => CommandText(m) = IF t = "PUT" THEN <<t, p, v>> ELSE <<t, p>>
             /\ m.key = <<p, q>> => CommandText(m) = IF t = "PUT" THEN <<t, p, q, v>> ELSE <<t, p, q>>
  <2>1. CASE t = "PUT"
    <3>1. CommandText(m) = <<t>> \o m.key \o <<v>>
      BY <1>2, <1>4, <2>1
    <3>2. m.key = <<p>> => CommandText(m) = <<t, p, v>>
      BY <1>3, <3>1, Zenon
    <3>3. m.key = <<p, q>> => CommandText(m) = <<t, p, q, v>>
      <4>1. <<t>> \o <<p, q>> = <<t, p, q>>
        BY ShortSequencesJoined
      <4>2. <<t, p, q>> \o <<v>> = <<t, p, q, v>>
        BY ShortSequencesJoinedToFour
      <4> QED
        BY <3>1, <4>1, <4>2
    <3> QED
      BY <2>1, <3>2, <3>3
  <2>2. CASE t # "PUT"
    <3>1. CommandText(m) = <<t>> \o m.key \o <<>>
      BY <1>2, <2>2
    <3>2. /\ m.key = <<p>> => CommandText(m) = <<t, p>>
          /\ m.key = <<p, q>> => CommandText(m) = <<t, p, q>>
      BY <1>3, <3>1, Zenon
    <3> QED
      BY <2>2, <3>2, Zenon
  <2> QED
    BY <2>1, <2>2
<1> QED
  BY <1>1, <1>4 DEF t

\* What becomes of a request's command: it cannot be read, its key can belong to
\* no node, or it is about a key of the store, a plain one if it is to be stored.
\* A plain key arrives as it is, and so does the value to be stored.
LEMMA CommandOfRequest ==
    ASSUME NEW m \in Request, m.operation \in 0..2
    PROVE  LET t == OperationName[m.operation + 1]
               c == deserialize(CommandText(m))
           IN  /\ \/ c = Thrown
                  \/ /\ c # Thrown /\ c.type = t
                     /\ ~Absent(c) => /\ c.key[1] \in KeyPart
                                      /\ t = "PUT" => Len(c.key) = 1 /\ c.value \in Value
               /\ Plain(m.key) =>
                    /\ m.key[1] \in KeyPart
                    /\ c = Command(t, m.key, IF t = "PUT" THEN m.value ELSE EmptyString)
<1> DEFINE t == OperationName[m.operation + 1]
           c == deserialize(CommandText(m))
<1>1. t \in {"PUT", "GET", "DELETE"}
  BY TextOfRequest
<1>2. PICK p, v : /\ p \in KeyPart \/ <<p>> = EmptyString \/ p = NotUtf8
                  /\ m.key = <<p>> \/ m.key = <<p, MorePart>>
                  /\ m.value = <<v>>
  BY RequestForms
<1>3. m.value \in Value /\ <<MorePart, v>> \in Value
  <2>1. <<MorePart>> \o <<v>> = <<MorePart, v>>
    BY ShortSequencesJoined
  <2> QED
    BY <1>2, <2>1, RequestForms
<1>4. Plain(m.key) => m.key = <<p>> /\ p \in KeyPart
  <2>1. <<p>>[1] = p /\ Len(<<p>>) = 1 /\ Len(<<p, MorePart>>) = 2 /\ 1 \in DOMAIN <<p>>
    BY ShortSequencesRead
  <2>2. p = NotUtf8 => ~Utf8(<<p>>)
    BY <2>1 DEF Utf8
  <2>3. m.key = <<p, MorePart>> => Len(m.key) # 1
    <3>1. m.key = <<p, MorePart>> => Len(m.key) = 2
      BY <2>1, Zenon
    <3> QED
      BY <3>1
  <2>4. ASSUME Plain(m.key)
        PROVE  m.key = <<p>>
    BY <1>2, <2>3, <2>4 DEF Plain
  <2>5. ASSUME Plain(m.key)
        PROVE  <<p>> # EmptyString /\ p # NotUtf8
    BY <2>2, <2>4, <2>5 DEF Plain
  <2> QED
    BY <1>2, <2>4, <2>5
<1>5. CASE m.key = <<p>>
  <2>1. CommandText(m) = IF t = "PUT" THEN <<t, p, v>> ELSE <<t, p>>
    BY <1>2, <1>5, TextOfRequest
  <2> DEFINE d == Command(t, m.key, IF t = "PUT" THEN m.value ELSE EmptyString)
  <2>2. c = IF <<p>> = EmptyString THEN Thrown ELSE d
    <3> HIDE DEF t
    <3> QED
      BY <1>1, <1>2, <1>5, <2>1, TextsAreRead
  <2>3. /\ d # Thrown /\ d.type = t /\ d.key = m.key
        /\ t = "PUT" => d.value = m.value
    BY CommandIsNotThrown DEF Command
  <2>4. Len(m.key) = 1 /\ m.key[1] = p
    BY <1>5, ShortSequencesRead
  <2> HIDE DEF t, c, d
  <2>5. \/ c = Thrown
        \/ /\ c # Thrown /\ c.type = t
           /\ ~Absent(c) => /\ c.key[1] \in KeyPart
                            /\ t = "PUT" => Len(c.key) = 1 /\ c.value \in Value
    BY <1>3, <2>2, <2>3, <2>4 DEF Absent
  <2>6. Plain(m.key) => m.key[1] \in KeyPart /\ c = d
    BY <1>4, <2>2, <2>4, PairIsNotEmpty
  <2> QED
    BY <2>5, <2>6 DEF t, c, d
<1>6. CASE m.key = <<p, MorePart>>
  <2>1. CommandText(m) = IF t = "PUT" THEN <<t, p, MorePart, v>> ELSE <<t, p, MorePart>>
    BY <1>2, <1>6, TextOfRequest
  <2> DEFINE d == IF t = "PUT" THEN Command(t, <<p>>, <<MorePart, v>>)
                  ELSE Command(t, <<p, MorePart>>, EmptyString)
  <2>2. c = IF t = "PUT" /\ <<p>> = EmptyString THEN Thrown ELSE d
    <3> HIDE DEF t
    <3>1. CASE t = "PUT"
      <4>1. CommandText(m) = <<"PUT", p, MorePart, v>>
        BY <2>1, <3>1, Zenon
      <4>2. c = IF <<p>> = EmptyString THEN Thrown ELSE Command("PUT", <<p>>, <<MorePart, v>>)
        BY <4>1, LongTextIsRead
      <4> QED
        BY <3>1, <4>2, Zenon
    <3>2. CASE t # "PUT"
      BY <1>1, <2>1, <3>2, TextsAreRead
    <3> QED
      BY <3>1, <3>2
  <2>3. /\ d # Thrown /\ d.type = t
        /\ t = "PUT" => d.value = <<MorePart, v>> /\ d.key = <<p>>
    BY CommandIsNotThrown DEF Command
  <2>4. Len(<<p>>) = 1
    BY ShortSequencesRead
  <2>5. ~Plain(m.key)
    <3>1. Len(<<p, MorePart>>) = 2
      BY ShortSequencesRead
    <3>2. Len(m.key) = 2
      BY <1>6, <3>1, Zenon
    <3> QED
      BY <3>2 DEF Plain
  <2> HIDE DEF t, c, d
  <2>6. \/ c = Thrown
        \/ /\ c # Thrown /\ c.type = t
           /\ ~Absent(c) => /\ c.key[1] \in KeyPart
                            /\ t = "PUT" => Len(c.key) = 1 /\ c.value \in Value
    BY <1>3, <2>2, <2>3, <2>4 DEF Absent
  <2> QED
    BY <2>5, <2>6 DEF t, c
<1> QED
  BY <1>2, <1>5, <1>6

\* A value that a request can store is a string of UTF-8, and is found after
\* "VALUE:" in the text of a result.
LEMMA ValueIsRead ==
    ASSUME NEW x \in Value
    PROVE  /\ Utf8(x)
           /\ LET r == <<"VALUE">> \o x
              IN  r # NoResult /\ r # <<"NOT_FOUND">> /\ r[1] = "VALUE" /\ Len(r) > 1 /\ Tail(r) = x
<1> DEFINE r == <<"VALUE">> \o x
<1>1. \E v : v # NotUtf8 /\ (x = <<v>> \/ x = <<MorePart, v>>)
  <2>1. PICK m \in Request : x = m.value \/ x = <<MorePart>> \o m.value
    BY ValuesAreOfRequests DEF StoredValue
  <2>2. PICK v : m.value = <<v>> /\ v # NotUtf8
    BY RequestForms
  <2>3. <<MorePart>> \o <<v>> = <<MorePart, v>>
    BY ShortSequencesJoined
  <2> QED
    BY <2>1, <2>2, <2>3
<1>2. PICK v : v # NotUtf8 /\ (x = <<v>> \/ x = <<MorePart, v>>)
  BY <1>1
<1>3. Utf8(x)
  <2>1. CASE x = <<v>>
    BY <1>2, <2>1 DEF Utf8
  <2>2. CASE x = <<MorePart, v>>
    <3>1. DOMAIN x = {1, 2} /\ x[1] = MorePart /\ x[2] = v
      BY <2>2
    <3> QED
      BY <1>2, <3>1, OtherPartsAreUtf8 DEF Utf8
  <2> QED
    BY <1>2, <2>1, <2>2
<1>4. r = <<"VALUE", v>> \/ r = <<"VALUE", MorePart, v>>
  <2>1. CASE x = <<v>>
    BY <2>1, ShortSequencesJoined
  <2>2. CASE x = <<MorePart, v>>
    BY <2>2, ShortSequencesJoined
  <2> QED
    BY <1>2, <2>1, <2>2, Zenon
<1>5. r # <<>> /\ r # <<"NOT_FOUND">> /\ r[1] = "VALUE" /\ Len(r) > 1 /\ Tail(r) = x
  <2> HIDE DEF r
  <2>1. ASSUME NEW q
        PROVE  /\ <<"VALUE", q>> # <<>> /\ <<"VALUE", q>> # <<"NOT_FOUND">> /\ <<"VALUE", q>>[1] = "VALUE"
               /\ Len(<<"VALUE", q>>) > 1 /\ Tail(<<"VALUE", q>>) = <<q>>
    OBVIOUS
  <2>2. ASSUME NEW q, NEW p
        PROVE  /\ <<"VALUE", p, q>> # <<>> /\ <<"VALUE", p, q>> # <<"NOT_FOUND">> /\ <<"VALUE", p, q>>[1] = "VALUE"
               /\ Len(<<"VALUE", p, q>>) > 1 /\ Tail(<<"VALUE", p, q>>) = <<p, q>>
    OBVIOUS
  <2>3. CASE x = <<v>>
    <3>1. r = <<"VALUE", v>>
      BY <2>3, ShortSequencesJoined DEF r
    <3> QED
      BY <2>1, <2>3, <3>1
  <2>4. CASE x = <<MorePart, v>>
    <3>1. r = <<"VALUE", MorePart, v>>
      BY <2>4, ShortSequencesJoined DEF r
    <3> QED
      BY <2>2, <2>4, <3>1
  <2> QED
    BY <1>2, <2>3, <2>4
<1> QED
  BY <1>3, <1>5 DEF NoResult

\* A command about a key of the store does to the store what it says.
LEMMA CommandIsExecuted ==
    ASSUME ListInv, NEW c, Execute(c), c.type \in {"PUT", "GET", "DELETE"}, ~Absent(c),
           c.type = "PUT" => c.value \in Value
    PROVE  LET k == KeyNumber(c.key)
           IN  /\ k \in Key /\ ListInv'
               /\ c.type = "PUT" => /\ Contents!Put(k, c.value)
                                    /\ value' = [value EXCEPT ![k] = c.value]
               /\ c.type = "GET" => /\ Contents!Get(k)
                                    /\ value' = value /\ ret' = <<"get", value[k]>>
               /\ c.type = "DELETE" => /\ Contents!Remove(k)
                                       /\ value' = [value EXCEPT ![k] = NoValue]
                                       /\ ret' = <<"remove", value[k] # NoValue>>
<1> DEFINE k == KeyNumber(c.key)
<1>1. k \in Key
  BY KeyNumbers DEF Absent
<1> HIDE DEF k
<1>2. CASE c.type = "PUT"
  <2>1. insert(k, c.value)
    BY <1>2 DEF Execute, k
  <2> QED
    BY <1>1, <1>2, <2>1, InsertIsPut, OperationsAreOfTheMap DEF k
<1>3. CASE c.type = "GET"
  <2>1. search(k)
    BY <1>3 DEF Execute, k
  <2> QED
    BY <1>1, <1>3, <2>1, SearchIsGet, OperationsAreOfTheMap DEF k
<1>4. CASE c.type = "DELETE"
  <2>1. remove(k)
    BY <1>4 DEF Execute, k
  <2> QED
    BY <1>1, <1>4, <2>1, RemoveIsRemove, OperationsAreOfTheMap DEF k
<1> QED
  BY <1>2, <1>3, <1>4

\* Where nothing happens to the list, nothing happens to the map.
LEMMA NothingIsStutter ==
    ASSUME ListInv, UNCHANGED vars
    PROVE  ListInv' /\ UNCHANGED Contents!vars
<1>1. ListInv'
  BY NothingKeepsList DEF vars
<1>2. [k \in Key |-> Lookup(k)] = value /\ [k \in Key |-> Lookup(k)]' = value'
  BY <1>1, ListInvMirrors, NextListInvMirrors DEF Mirrored
<1> QED
  BY <1>1, <1>2 DEF vars, Contents!vars

\* The command of a request takes the store to another store, with plain keys
\* only, in one operation of the map or none.
LEMMA RequestIsApplied ==
    ASSUME ListInv, StoredKeysArePlain,
           NEW m \in Request, m.operation \in 0..2, applyCommand(CommandText(m))
    PROVE  ListInv' /\ StoredKeysArePlain' /\ (Contents!Next \/ UNCHANGED Contents!vars)
<1> DEFINE t == OperationName[m.operation + 1]
           c == deserialize(CommandText(m))
<1>1. \/ c = Thrown
      \/ /\ c # Thrown /\ c.type = t
         /\ ~Absent(c) => /\ c.key[1] \in KeyPart
                          /\ t = "PUT" => Len(c.key) = 1 /\ c.value \in Value
  BY CommandOfRequest
<1>2. t \in {"PUT", "GET", "DELETE"}
  BY TextOfRequest
<1>3. IF c = Thrown THEN UNCHANGED vars ELSE Execute(c)
  BY DEF applyCommand
<1> HIDE DEF t, c
<1>4. CASE c = Thrown \/ Absent(c)
  <2>1. UNCHANGED vars
    BY <1>3, <1>4 DEF Execute
  <2>2. StoredKeysArePlain'
    BY <2>1 DEF vars, StoredKeysArePlain, Linked
  <2> QED
    BY <2>1, <2>2, NothingIsStutter
<1>5. CASE ~(c = Thrown \/ Absent(c))
  <2> DEFINE k == KeyNumber(c.key)
  <2>1. /\ c.type = t /\ c.key[1] \in KeyPart /\ Execute(c)
        /\ t = "PUT" => Len(c.key) = 1 /\ c.value \in Value
    BY <1>1, <1>3, <1>5
  <2>2. /\ k \in Key /\ ListInv'
        /\ t = "PUT" => /\ Contents!Put(k, c.value)
                        /\ value' = [value EXCEPT ![k] = c.value]
        /\ t = "GET" => Contents!Get(k) /\ value' = value
        /\ t = "DELETE" => /\ Contents!Remove(k)
                           /\ value' = [value EXCEPT ![k] = NoValue]
    BY <1>2, <1>5, <2>1, CommandIsExecuted
  <2>3. t = "PUT" => k % 2 = 0
    BY <2>1, KeyNumbers
  <2> HIDE DEF k
  <2>4. Contents!Next
    BY <1>2, <2>1, <2>2 DEF Contents!Next
  <2>5. \A j \in Key : value'[j] # NoValue => value[j] # NoValue \/ (t = "PUT" /\ j = k)
    BY <1>2, <2>2 DEF ListInv
  <2>6. \A j \in Key : j \in Linked' => value'[j] # NoValue
    BY <2>2 DEF ListInv
  <2>7. \A j \in Key : value[j] # NoValue => j % 2 = 0
    BY DEF ListInv, StoredKeysArePlain
  <2>8. \A j \in Linked' : j \in Key
    BY DEF Linked
  <2>9. \A j \in Linked' : j % 2 = 0
    BY <2>3, <2>5, <2>6, <2>7, <2>8
  <2> QED
    BY <2>2, <2>4, <2>9 DEF StoredKeysArePlain
<1> QED
  BY <1>4, <1>5

\* The leader's responses, which name no other leader.
LeaderResponse(ok, val, error) ==
    [success |-> ok, value |-> val, error |-> error, is_leader |-> TRUE, leader_address |-> EmptyString]

\* The fields of a response.
ResponseFields == {"success", "value", "error", "is_leader", "leader_address"}

\* A response is known by its fields.
LEMMA SameResponses ==
    ASSUME NEW x, NEW ok, NEW val, NEW error, NEW leads, NEW address,
           DOMAIN x = ResponseFields, x = [f \in DOMAIN x |-> x[f]],
           x.success = ok, x.value = val, x.error = error, x.is_leader = leads, x.leader_address = address
    PROVE  x = [success |-> ok, value |-> val, error |-> error, is_leader |-> leads, leader_address |-> address]
<1> DEFINE y == [success |-> ok, value |-> val, error |-> error, is_leader |-> leads, leader_address |-> address]
<1>1. /\ DOMAIN y = ResponseFields /\ y = [f \in DOMAIN y |-> y[f]]
      /\ y.success = ok /\ y.value = val /\ y.error = error /\ y.is_leader = leads /\ y.leader_address = address
  BY DEF ResponseFields
<1> HIDE DEF y
<1>2. x = y
  BY <1>1 DEF ResponseFields
<1> QED
  BY <1>2 DEF y

\* The default response with some of its fields set.
LEMMA ResponsesOfLeader ==
    ASSUME NEW val
    PROVE  LET ok == [ClientResponse EXCEPT !.success = TRUE, !.is_leader = TRUE]
           IN  /\ ok = LeaderResponse(TRUE, EmptyString, EmptyString)
               /\ [ok EXCEPT !.value = val] = LeaderResponse(TRUE, val, EmptyString)
               /\ [ok EXCEPT !.success = FALSE, !.error = val] = LeaderResponse(FALSE, EmptyString, val)
               /\ [ClientResponse EXCEPT !.is_leader = TRUE, !.error = val] = LeaderResponse(FALSE, EmptyString, val)
<1> DEFINE ok == [ClientResponse EXCEPT !.success = TRUE, !.is_leader = TRUE]
           x == [ok EXCEPT !.value = val]
           y == [ok EXCEPT !.success = FALSE, !.error = val]
           z == [ClientResponse EXCEPT !.is_leader = TRUE, !.error = val]
<1>1. /\ DOMAIN ClientResponse = ResponseFields /\ ClientResponse = [f \in DOMAIN ClientResponse |-> ClientResponse[f]]
      /\ ClientResponse.success = FALSE /\ ClientResponse.value = EmptyString /\ ClientResponse.error = EmptyString
      /\ ClientResponse.leader_address = EmptyString
  BY DEF ClientResponse, ResponseFields
<1>2. /\ DOMAIN ok = ResponseFields /\ ok = [f \in DOMAIN ok |-> ok[f]]
      /\ ok.success = TRUE /\ ok.value = EmptyString /\ ok.error = EmptyString /\ ok.is_leader = TRUE
      /\ ok.leader_address = EmptyString
  BY <1>1 DEF ResponseFields
<1>3. /\ DOMAIN z = ResponseFields /\ z = [f \in DOMAIN z |-> z[f]]
      /\ z.success = FALSE /\ z.value = EmptyString /\ z.error = val /\ z.is_leader = TRUE
      /\ z.leader_address = EmptyString
  BY <1>1 DEF ResponseFields
<1> HIDE DEF ok
<1>4. /\ DOMAIN x = ResponseFields /\ x = [f \in DOMAIN x |-> x[f]]
      /\ x.success = TRUE /\ x.value = val /\ x.error = EmptyString /\ x.is_leader = TRUE
      /\ x.leader_address = EmptyString
  BY <1>2 DEF ResponseFields
<1>5. /\ DOMAIN y = ResponseFields /\ y = [f \in DOMAIN y |-> y[f]]
      /\ y.success = FALSE /\ y.value = EmptyString /\ y.error = val /\ y.is_leader = TRUE
      /\ y.leader_address = EmptyString
  BY <1>2 DEF ResponseFields
<1> HIDE DEF x, y, z
<1>6. ok = LeaderResponse(TRUE, EmptyString, EmptyString)
  BY <1>2, SameResponses DEF LeaderResponse
<1>7. x = LeaderResponse(TRUE, val, EmptyString)
  BY <1>4, SameResponses DEF LeaderResponse
<1>8. y = LeaderResponse(FALSE, EmptyString, val)
  BY <1>5, SameResponses DEF LeaderResponse
<1>9. z = LeaderResponse(FALSE, EmptyString, val)
  BY <1>3, SameResponses DEF LeaderResponse
<1> QED
  BY <1>6, <1>7, <1>8, <1>9 DEF ok, x, y, z

\* A response whose strings are UTF-8 is received as it was sent.
LEMMA ResponseIsReceived ==
    ASSUME NEW ok \in BOOLEAN, NEW val, NEW error, Utf8(val), Utf8(error), Respond(LeaderResponse(ok, val, error))
    PROVE  response' = LeaderResponse(ok, val, error)
  BY ClientResponseArrives, EmptyStringIsUtf8 DEF Respond, LeaderResponse

\* The errors and the text of a result are UTF-8, and are told apart.
LEMMA TextsAreUtf8 ==
    /\ Utf8(<<"Key not found">>) /\ Utf8(<<"NOT_FOUND">>) /\ Utf8(<<"Unknown operation">>)
    /\ Utf8(<<"Command execution failed or timeout">>)
    /\ <<"NOT_FOUND">> # NoResult /\ <<"OK">> # NoResult /\ <<"NOT_FOUND">>[1] # "VALUE"
<1>1. ASSUME NEW p, p # NotUtf8
      PROVE  Utf8(<<p>>)
  <2>1. DOMAIN <<p>> = {1} /\ <<p>>[1] = p
    OBVIOUS
  <2> QED
    BY <1>1, <2>1 DEF Utf8
<1>2. /\ "Key not found" # NotUtf8 /\ "NOT_FOUND" # NotUtf8 /\ "Unknown operation" # NotUtf8
      /\ "Command execution failed or timeout" # NotUtf8
  BY DEF NotUtf8
<1>3. <<"NOT_FOUND">> # NoResult /\ <<"OK">> # NoResult /\ <<"NOT_FOUND">>[1] # "VALUE"
  BY DEF NoResult
<1> QED
  BY <1>1, <1>2, <1>3

\* What the leader answers is UTF-8, and it is the truth about a plain key.
LEMMA RequestIsAnswered ==
    ASSUME ListInv, NEW m \in Request, m.operation \in 0..2, applyCommandWithResult(CommandText(m))
    PROVE  LET result == Result(deserialize(CommandText(m)))
               answer == IF result = NoResult THEN TimedOut ELSE Answer(m, result)
               k == KeyNumber(m.key)
           IN  \E ok \in BOOLEAN : \E val, error :
                 /\ Utf8(val) /\ Utf8(error) /\ answer = LeaderResponse(ok, val, error)
                 /\ Plain(m.key) =>
                      /\ k \in Key
                      /\ m.operation = 0 => ok /\ value'[k] = m.value
                      /\ m.operation = 1 => (ok <=> value[k] # NoValue) /\ (ok => val = value[k])
                      /\ m.operation = 2 => ok /\ value'[k] = NoValue
<1> DEFINE t == OperationName[m.operation + 1]
           c == deserialize(CommandText(m))
           result == Result(c)
           answer == IF result = NoResult THEN TimedOut ELSE Answer(m, result)
           found(ok, val) == LET k == KeyNumber(m.key) IN
                      /\ k \in Key
                      /\ m.operation = 0 => ok /\ value'[k] = m.value
                      /\ m.operation = 1 => (ok <=> value[k] # NoValue) /\ (ok => val = value[k])
                      /\ m.operation = 2 => ok /\ value'[k] = NoValue
<1> SUFFICES \E ok \in BOOLEAN : \E val, error :
               /\ Utf8(val) /\ Utf8(error) /\ answer = LeaderResponse(ok, val, error)
               /\ Plain(m.key) => found(ok, val)
  OBVIOUS
<1>1. /\ \/ c = Thrown
         \/ /\ c # Thrown /\ c.type = t
            /\ ~Absent(c) => /\ c.key[1] \in KeyPart
                             /\ t = "PUT" => Len(c.key) = 1 /\ c.value \in Value
      /\ Plain(m.key) =>
           /\ m.key[1] \in KeyPart
           /\ c = Command(t, m.key, IF t = "PUT" THEN m.value ELSE EmptyString)
  BY CommandOfRequest
<1>2. t = (IF m.operation = 0 THEN "PUT" ELSE IF m.operation = 1 THEN "GET" ELSE "DELETE")
  BY TextOfRequest
<1>3. IF c = Thrown THEN UNCHANGED vars ELSE Execute(c)
  BY DEF applyCommandWithResult, applyCommand
<1>4. Plain(m.key) => c # Thrown /\ ~Absent(c) /\ c.key = m.key /\ (t = "PUT" => c.value = m.value)
  <2>1. \A v : Command(t, m.key, v).key = m.key /\ Command(t, m.key, v).value = v
    BY DEF Command
  <2> HIDE DEF t, c
  <2> QED
    BY <1>1, <2>1, CommandIsNotThrown DEF Absent
<1> DEFINE ok == [ClientResponse EXCEPT !.success = TRUE, !.is_leader = TRUE]
<1>5. /\ ok = LeaderResponse(TRUE, EmptyString, EmptyString)
      /\ \A val : [ok EXCEPT !.value = val] = LeaderResponse(TRUE, val, EmptyString)
      /\ \A error : [ok EXCEPT !.success = FALSE, !.error = error] = LeaderResponse(FALSE, EmptyString, error)
      /\ TimedOut = LeaderResponse(FALSE, EmptyString, <<"Command execution failed or timeout">>)
  BY ResponsesOfLeader DEF TimedOut
<1>6. Answer(m, result) = IF m.operation # 1 THEN ok
        ELSE IF result[1] = "VALUE" /\ Len(result) > 1 THEN [ok EXCEPT !.value = Tail(result)]
        ELSE IF result = <<"NOT_FOUND">>
             THEN [ok EXCEPT !.success = FALSE, !.error = <<"Key not found">>]
             ELSE [ok EXCEPT !.value = result]
  BY DEF Answer
<1> HIDE DEF ok, t, c, found, answer
<1>7. result = <<"NOT_FOUND">> /\ m.operation = 1 =>
        answer = LeaderResponse(FALSE, EmptyString, <<"Key not found">>)
  BY <1>5, <1>6, TextsAreUtf8 DEF answer
<1>8. m.operation # 1 /\ result # NoResult => answer = LeaderResponse(TRUE, EmptyString, EmptyString)
  BY <1>5, <1>6 DEF answer
<1>9. CASE c = Thrown
  <2>1. answer = LeaderResponse(FALSE, EmptyString, <<"Command execution failed or timeout">>)
    BY <1>5, <1>9 DEF answer, Result
  <2> QED
    BY <1>4, <1>9, <2>1, EmptyStringIsUtf8, TextsAreUtf8
<1>10. CASE c # Thrown /\ Absent(c)
  <2>1. result = <<"NOT_FOUND">>
    BY <1>10 DEF Result
  <2> HIDE DEF result
  <2> QED
    BY <1>4, <1>7, <1>8, <1>10, <2>1, EmptyStringIsUtf8, TextsAreUtf8
<1>11. CASE c # Thrown /\ ~Absent(c)
  <2> DEFINE k == KeyNumber(c.key)
  <2>1. /\ c.type = t /\ c.key[1] \in KeyPart /\ Execute(c)
        /\ t = "PUT" => Len(c.key) = 1 /\ c.value \in Value
    BY <1>1, <1>3, <1>11
  <2>2. t \in {"PUT", "GET", "DELETE"}
    BY <1>2
  <2>3. /\ k \in Key
        /\ t = "PUT" => value' = [value EXCEPT ![k] = c.value]
        /\ t = "GET" => value' = value /\ ret' = <<"get", value[k]>>
        /\ t = "DELETE" => /\ value' = [value EXCEPT ![k] = NoValue]
                           /\ ret' = <<"remove", value[k] # NoValue>>
    BY <1>11, <2>1, <2>2, CommandIsExecuted
  <2>4. value \in [Key -> Value \cup {NoValue}]
    BY DEF ListInv
  <2>5. Plain(m.key) => KeyNumber(m.key) = k
    BY <1>4
  <2>6. result = CASE t = "PUT" -> <<"OK">>
                   [] t = "GET" -> IF ret'[2] = NoValue THEN <<"NOT_FOUND">> ELSE <<"VALUE">> \o ret'[2]
                   [] t = "DELETE" -> IF ret'[2] THEN <<"OK">> ELSE <<"NOT_FOUND">>
    BY <1>11, <2>1 DEF Result
  <2> HIDE DEF result, k
  <2>7. CASE m.operation = 0
    <3>1. t = "PUT" /\ result = <<"OK">>
      BY <1>2, <2>6, <2>7
    <3>2. answer = LeaderResponse(TRUE, EmptyString, EmptyString)
      <4>1. result # NoResult
        BY <3>1, TextsAreUtf8, Zenon
      <4> QED
        BY <1>8, <2>7, <4>1
    <3>3. Plain(m.key) => found(TRUE, EmptyString)
      BY <1>4, <2>3, <2>4, <2>5, <2>7, <3>1 DEF found
    <3> QED
      BY <3>2, <3>3, EmptyStringIsUtf8
  <2>8. CASE m.operation = 1
    <3>1. t = "GET" /\ ret' = <<"get", value[k]>>
      BY <1>2, <2>3, <2>8
    <3>2. result = IF value[k] = NoValue THEN <<"NOT_FOUND">> ELSE <<"VALUE">> \o value[k]
      BY <2>6, <3>1
    <3>3. CASE value[k] = NoValue
      <4>1. answer = LeaderResponse(FALSE, EmptyString, <<"Key not found">>)
        BY <1>7, <2>8, <3>2, <3>3
      <4>2. Plain(m.key) => found(FALSE, EmptyString)
        BY <2>3, <2>5, <2>8, <3>3 DEF found
      <4> QED
        BY <4>1, <4>2, EmptyStringIsUtf8, TextsAreUtf8
    <3>4. CASE value[k] # NoValue
      <4>1. value[k] \in Value
        BY <2>3, <2>4, <3>4
      <4>2. /\ Utf8(value[k]) /\ result # NoResult
            /\ result[1] = "VALUE" /\ Len(result) > 1 /\ Tail(result) = value[k]
        BY <3>2, <3>4, <4>1, ValueIsRead
      <4>3. answer = LeaderResponse(TRUE, value[k], EmptyString)
        BY <1>5, <1>6, <2>8, <4>2 DEF answer
      <4>4. Plain(m.key) => found(TRUE, value[k])
        BY <2>3, <2>5, <2>8, <3>4 DEF found
      <4> QED
        BY <4>2, <4>3, <4>4, EmptyStringIsUtf8
    <3> QED
      BY <3>3, <3>4
  <2>9. CASE m.operation = 2
    <3>1. t = "DELETE" /\ (result = <<"OK">> \/ result = <<"NOT_FOUND">>)
      BY <1>2, <2>6, <2>9
    <3>2. answer = LeaderResponse(TRUE, EmptyString, EmptyString)
      <4>1. result # NoResult
        BY <3>1, TextsAreUtf8, Zenon
      <4> QED
        BY <1>8, <2>9, <4>1
    <3>3. Plain(m.key) => found(TRUE, EmptyString)
      BY <2>3, <2>4, <2>5, <2>9, <3>1 DEF found
    <3> QED
      BY <3>2, <3>3, EmptyStringIsUtf8
  <2> QED
    BY <2>7, <2>8, <2>9
<1> QED
  BY <1>9, <1>10, <1>11

\* A request is malformed, unknown, or answered: the response says what came of it.
LEMMA RequestIsHandled ==
    ASSUME ListInv, StoredKeysArePlain, NEW m \in Request, CallHandleRequest(m)
    PROVE  /\ request' = m
           /\ ListInv' /\ StoredKeysArePlain' /\ (Contents!Next \/ UNCHANGED Contents!vars)
           /\ ~Utf8(m.key) => response' = Malformed
           /\ Utf8(m.key) => \E ok \in BOOLEAN : \E val, error :
                /\ response' = LeaderResponse(ok, val, error)
                /\ m.operation \notin 0..2 => ~ok
                /\ m.operation \in 0..2 /\ Plain(m.key) =>
                     LET k == KeyNumber(m.key)
                     IN  /\ k \in Key
                         /\ m.operation = 0 => ok /\ value'[k] = m.value
                         /\ m.operation = 1 => (ok <=> value[k] # NoValue) /\ (ok => val = value[k])
                         /\ m.operation = 2 => ok /\ value'[k] = NoValue
<1> DEFINE received == ParseClientRequest(SerializeClientRequest(m))
           truth(ok, val) ==
                m.operation \in 0..2 /\ Plain(m.key) =>
                     LET k == KeyNumber(m.key)
                     IN  /\ k \in Key
                         /\ m.operation = 0 => ok /\ value'[k] = m.value
                         /\ m.operation = 1 => (ok <=> value[k] # NoValue) /\ (ok => val = value[k])
                         /\ m.operation = 2 => ok /\ value'[k] = NoValue
<1>1. received = IF Utf8(m.key) THEN m ELSE Malformed
  <2>1. m = [operation |-> m.operation, key |-> m.key, value |-> m.value] /\ m.operation \in 0..3
    BY DEF Request
  <2>2. m.operation \in Int32
    BY <2>1 DEF Int32
  <2>3. Utf8(m.value)
    BY RequestForms DEF Utf8
  <2> DEFINE op == m.operation
             key == m.key
             val == m.value
  <2>4. ParseClientRequest(SerializeClientRequest([operation |-> op, key |-> key, value |-> val])) =
          IF Utf8(key) /\ Utf8(val) THEN [operation |-> op, key |-> key, value |-> val] ELSE Malformed
    BY <2>2, ClientRequestArrives
  <2> QED
    BY <2>1, <2>3, <2>4
<1>2. m # Malformed
  <2>1. DOMAIN m = {"operation", "key", "value"} /\ DOMAIN Malformed = {"malformed"}
    BY DEF Request, Malformed
  <2> QED
    BY <2>1
<1>3. request' = m /\ (received = Malformed => UNCHANGED vars /\ response' = Malformed)
      /\ (received # Malformed => HandleRequest(received))
  BY DEF CallHandleRequest
<1> HIDE DEF received
<1>4. UNCHANGED vars => ListInv' /\ StoredKeysArePlain' /\ UNCHANGED Contents!vars
  <2>1. UNCHANGED vars => StoredKeysArePlain'
    BY DEF vars, StoredKeysArePlain, Linked
  <2> QED
    BY <2>1, NothingIsStutter
<1>5. CASE ~Utf8(m.key)
  BY <1>1, <1>3, <1>4, <1>5
<1>6. CASE Utf8(m.key) /\ m.operation \notin 0..2
  <2>1. HandleRequest(m)
    BY <1>1, <1>2, <1>3, <1>6
  <2>2. UNCHANGED vars /\ Respond([ClientResponse EXCEPT !.is_leader = TRUE, !.error = <<"Unknown operation">>])
    BY <1>6, <2>1 DEF HandleRequest
  <2>3. Respond(LeaderResponse(FALSE, EmptyString, <<"Unknown operation">>))
    BY <2>2, ResponsesOfLeader
  <2>4. response' = LeaderResponse(FALSE, EmptyString, <<"Unknown operation">>)
    BY <2>3, ResponseIsReceived, EmptyStringIsUtf8, TextsAreUtf8
  <2> QED
    BY <1>3, <1>4, <1>6, <2>2, <2>4
<1>7. CASE Utf8(m.key) /\ m.operation \in 0..2
  <2> DEFINE text == CommandText(m)
             result == Result(deserialize(text))
             answer == IF result = NoResult THEN TimedOut ELSE Answer(m, result)
  <2>1. HandleRequest(m)
    BY <1>1, <1>2, <1>3, <1>7
  <2>2. applyCommandWithResult(text) /\ Respond(answer)
    BY <1>7, <2>1 DEF HandleRequest
  <2>3. ListInv' /\ StoredKeysArePlain' /\ (Contents!Next \/ UNCHANGED Contents!vars)
    BY <1>7, <2>2, RequestIsApplied DEF applyCommandWithResult
  <2>4. \E ok \in BOOLEAN : \E val, error :
          Utf8(val) /\ Utf8(error) /\ answer = LeaderResponse(ok, val, error) /\ truth(ok, val)
    BY <1>7, <2>2, RequestIsAnswered
  <2> HIDE DEF answer, truth
  <2>5. PICK ok, val, error :
          ok \in BOOLEAN /\ Utf8(val) /\ Utf8(error) /\ answer = LeaderResponse(ok, val, error) /\ truth(ok, val)
    BY <2>4
  <2>6. response' = LeaderResponse(ok, val, error)
    BY <2>2, <2>5, ResponseIsReceived
  <2> QED
    BY <1>3, <1>7, <2>3, <2>5, <2>6 DEF truth
<1> QED
  BY <1>5, <1>6, <1>7
-----------------------------------------------------------------------------
(* The theorems *)

\* The inductive invariant: the list is whole and mirrors the values, its keys
\* are plain, and the last request and its response are of their types.
KVInductive ==
    /\ ListInv /\ StoredKeysArePlain
    /\ request \in Request \cup {ClientRequest}
    /\ response = Malformed \/ DOMAIN response = DOMAIN ClientResponse

\* The empty store is one, and the empty map.
LEMMA KVInitInductive == KVInit => KVInductive /\ Contents!Init
<1> SUFFICES ASSUME KVInit PROVE KVInductive /\ Contents!Init
  OBVIOUS
<1>1. ListInv /\ Mirrored
  BY InitIsList, ListInvMirrors DEF KVInit
<1>2. StoredKeysArePlain
  BY <1>1 DEF KVInit, Init, ListInv, StoredKeysArePlain, Linked
<1>3. Contents!Init
  BY <1>1 DEF KVInit, Init, Mirrored, Contents!Init
<1> QED
  BY <1>1, <1>2, <1>3 DEF KVInit, KVInductive

\* Every step keeps the invariant and is a step of the map or none.
LEMMA KVNextInductive ==
    KVInductive /\ [KVNext]_kvVars => KVInductive' /\ [Contents!Next]_(Contents!vars)
<1> SUFFICES ASSUME KVInductive, [KVNext]_kvVars
             PROVE  KVInductive' /\ [Contents!Next]_(Contents!vars)
  OBVIOUS
<1>1. ASSUME NEW m \in Request, CallHandleRequest(m)
      PROVE  KVInductive' /\ [Contents!Next]_(Contents!vars)
  <2>1. /\ request' = m
        /\ ListInv' /\ StoredKeysArePlain' /\ (Contents!Next \/ UNCHANGED Contents!vars)
        /\ ~Utf8(m.key) => response' = Malformed
        /\ Utf8(m.key) => \E ok \in BOOLEAN : \E val, error : response' = LeaderResponse(ok, val, error)
    BY <1>1, RequestIsHandled DEF KVInductive
  <2>2. \A ok, val, error : DOMAIN LeaderResponse(ok, val, error) = DOMAIN ClientResponse
    BY DEF LeaderResponse, ClientResponse
  <2>3. response' = Malformed \/ DOMAIN response' = DOMAIN ClientResponse
    BY <2>1, <2>2
  <2> QED
    BY <2>1, <2>3 DEF KVInductive
<1>2. ASSUME NEW m \in Request, ApplyAtFollower(m) \/ ApplyDirectly(m)
      PROVE  KVInductive' /\ [Contents!Next]_(Contents!vars)
  <2>1. m.operation \in 0..2 /\ applyCommand(CommandText(m)) /\ UNCHANGED <<request, response>>
    BY <1>2 DEF ApplyAtFollower, ApplyDirectly, applyCommandWithResult
  <2>2. ListInv' /\ StoredKeysArePlain' /\ (Contents!Next \/ UNCHANGED Contents!vars)
    BY <2>1, RequestIsApplied DEF KVInductive
  <2> QED
    BY <2>1, <2>2 DEF KVInductive
<1>3. ASSUME UNCHANGED kvVars
      PROVE  KVInductive' /\ [Contents!Next]_(Contents!vars)
  <2>1. UNCHANGED vars /\ UNCHANGED <<request, response>>
    BY <1>3 DEF kvVars
  <2>2. ListInv' /\ UNCHANGED Contents!vars
    BY <2>1, NothingIsStutter DEF KVInductive
  <2>3. StoredKeysArePlain'
    BY <2>1 DEF vars, StoredKeysArePlain, Linked, KVInductive
  <2> QED
    BY <2>1, <2>2, <2>3 DEF KVInductive
<1> QED
  BY <1>1, <1>2, <1>3 DEF KVNext

\* After any requests, applied by any node, the skip list is whole on every
\* level and only plain keys are in it (insert, remove, deserialize).
THEOREM StorageIsSound == KVSpec => []KVInv
<1>1. KVInit => KVInductive
  BY KVInitInductive
<1>2. KVInductive /\ [KVNext]_kvVars => KVInductive'
  BY KVNextInductive
<1>3. KVInductive => KVInv
  BY ListInvIsSkipListInv DEF KVInductive, KVInv, KVTypeOK
<1> QED
  BY <1>1, <1>2, <1>3, PTL DEF KVSpec

\* The skip list is a map: what the walks of search, insert and remove find,
\* change and return is what the three operations of a map would (skiplist.h).
THEOREM SkipListImplementsMap == KVSpec => ImplementsMap
<1>1. KVInit => KVInductive /\ Contents!Init
  BY KVInitInductive
<1>2. KVInductive /\ [KVNext]_kvVars => KVInductive' /\ [Contents!Next]_(Contents!vars)
  BY KVNextInductive
<1> QED
  BY <1>1, <1>2, PTL DEF KVSpec, ImplementsMap, Contents!Spec

\* The command of a request whose key is UTF-8 is UTF-8.
LEMMA CommandTextIsUtf8 ==
    ASSUME NEW m \in Request, m.operation \in 0..2, Utf8(m.key)
    PROVE  Utf8(CommandText(m))
<1> DEFINE t == OperationName[m.operation + 1]
<1>1. PICK p, v : /\ m.key = <<p>> \/ (p # NotUtf8 /\ m.key = <<p, MorePart>>)
                  /\ m.value = <<v>> /\ v # NotUtf8
  BY RequestForms
<1>2. /\ t = (IF m.operation = 0 THEN "PUT" ELSE IF m.operation = 1 THEN "GET" ELSE "DELETE")
      /\ m.key = <<p>> => CommandText(m) = IF t = "PUT" THEN <<t, p, v>> ELSE <<t, p>>
      /\ m.key = <<p, MorePart>> => CommandText(m) = IF t = "PUT" THEN <<t, p, MorePart, v>> ELSE <<t, p, MorePart>>
  BY <1>1, TextOfRequest
<1>3. t # NotUtf8
  <2>1. t \in {"PUT", "GET", "DELETE"}
    BY <1>2
  <2> HIDE DEF t
  <2> QED
    BY <2>1 DEF NotUtf8
<1>4. p # NotUtf8
  <2>1. ASSUME m.key = <<p>>
        PROVE  p # NotUtf8
    <3>1. DOMAIN <<p>> = {1} /\ <<p>>[1] = p
      BY ShortSequencesRead
    <3>2. Utf8(<<p>>)
      BY <2>1
    <3> QED
      BY <3>1, <3>2 DEF Utf8
  <2> QED
    BY <1>1, <2>1
<1> HIDE DEF t
<1>5. ASSUME NEW a, NEW b, a # NotUtf8, b # NotUtf8
      PROVE  Utf8(<<a, b>>)
  <2>1. DOMAIN <<a, b>> = {1, 2} /\ <<a, b>>[1] = a /\ <<a, b>>[2] = b
    OBVIOUS
  <2> QED
    BY <1>5, <2>1 DEF Utf8
<1>6. ASSUME NEW a, NEW b, NEW c, a # NotUtf8, b # NotUtf8, c # NotUtf8
      PROVE  Utf8(<<a, b, c>>)
  <2>1. DOMAIN <<a, b, c>> = {1, 2, 3} /\ <<a, b, c>>[1] = a /\ <<a, b, c>>[2] = b /\ <<a, b, c>>[3] = c
    OBVIOUS
  <2> QED
    BY <1>6, <2>1 DEF Utf8
<1>7. ASSUME NEW a, NEW b, NEW c, NEW d, a # NotUtf8, b # NotUtf8, c # NotUtf8, d # NotUtf8
      PROVE  Utf8(<<a, b, c, d>>)
  <2>1. /\ DOMAIN <<a, b, c, d>> = {1, 2, 3, 4} /\ <<a, b, c, d>>[1] = a /\ <<a, b, c, d>>[2] = b
        /\ <<a, b, c, d>>[3] = c /\ <<a, b, c, d>>[4] = d
    OBVIOUS
  <2> QED
    BY <1>7, <2>1 DEF Utf8
<1>8. CASE m.key = <<p>>
  <2>1. CommandText(m) = IF t = "PUT" THEN <<t, p, v>> ELSE <<t, p>>
    BY <1>2, <1>8
  <2>2. Utf8(<<t, p, v>>) /\ Utf8(<<t, p>>)
    BY <1>1, <1>3, <1>4, <1>5, <1>6
  <2> QED
    BY <2>1, <2>2, Zenon
<1>9. CASE m.key = <<p, MorePart>>
  <2>1. CommandText(m) = IF t = "PUT" THEN <<t, p, MorePart, v>> ELSE <<t, p, MorePart>>
    BY <1>2, <1>9, Zenon
  <2>2. MorePart # NotUtf8
    BY OtherPartsAreUtf8
  <2>3. Utf8(<<t, p, MorePart, v>>) /\ Utf8(<<t, p, MorePart>>)
    BY <1>1, <1>3, <1>4, <1>6, <1>7, <2>2
  <2> QED
    BY <2>1, <2>3, Zenon
<1> QED
  BY <1>1, <1>8, <1>9, Zenon

\* What a leader accepts parses at every follower, so it can be replicated, and
\* what it answers parses at the client (HandleRequest, raft.pb.cc).
THEOREM AcceptedCommandsCanBeReplicated == KVSpec => AcceptedCanBeReplicated
<1>1. ASSUME KVInductive, NEW m \in Request, CallHandleRequest(m)
      PROVE  \/ response' = Malformed /\ ~Utf8(m.key)
             \/ /\ response' # Malformed
                /\ m.operation \in 0..2 =>
                     LET e == [LogEntryProto EXCEPT !.command = CommandText(m)]
                     IN  ParseLogEntryProto(SerializeLogEntryProto(e)) = e
  <2>1. CASE ~Utf8(m.key)
    BY <1>1, <2>1, RequestIsHandled DEF KVInductive
  <2>2. CASE Utf8(m.key)
    <3>1. response' # Malformed
      <4>1. PICK ok, val, error : response' = LeaderResponse(ok, val, error)
        BY <1>1, <2>2, RequestIsHandled DEF KVInductive
      <4>2. DOMAIN LeaderResponse(ok, val, error) = ResponseFields /\ DOMAIN Malformed = {"malformed"}
        BY DEF LeaderResponse, ResponseFields, Malformed
      <4>3. ResponseFields # {"malformed"}
        BY DEF ResponseFields
      <4> QED
        BY <4>1, <4>2, <4>3
    <3>2. ASSUME m.operation \in 0..2
          PROVE  LET e == [LogEntryProto EXCEPT !.command = CommandText(m)]
                 IN  ParseLogEntryProto(SerializeLogEntryProto(e)) = e
      <4> DEFINE command == CommandText(m)
                 e == [LogEntryProto EXCEPT !.command = command]
      <4>1. Utf8(command)
        BY <2>2, <3>2, CommandTextIsUtf8
      <4> HIDE DEF command
      <4>2. e = [term |-> 0, index |-> 0, command |-> command]
        BY DEF LogEntryProto
      <4>3. 0 \in Int32
        BY DEF Int32
      <4> QED
        BY <4>1, <4>2, <4>3, LogEntryArrives DEF command
    <3> QED
      BY <3>1, <3>2
  <2> QED
    BY <2>1, <2>2
<1>2. KVInductive /\ [KVNext]_kvVars => 
        [\A m \in Request : CallHandleRequest(m) =>
         \/ response' = Malformed /\ ~Utf8(m.key)
         \/ /\ response' # Malformed
            /\ m.operation \in 0..2 =>
                 LET e == [LogEntryProto EXCEPT !.command = CommandText(m)]
                 IN  ParseLogEntryProto(SerializeLogEntryProto(e)) = e]_kvVars
  BY <1>1
<1>3. KVInit => KVInductive
  BY KVInitInductive
<1>4. KVInductive /\ [KVNext]_kvVars => KVInductive'
  BY KVNextInductive
<1> QED
  BY <1>2, <1>3, <1>4, PTL DEF KVSpec, AcceptedCanBeReplicated

\* A client whose key has no colon gets the truth about it (HandleRequest,
\* deserialize, applyCommandWithResult).
THEOREM PlainKeysGetTheTruth == KVSpec => PlainKeysAnsweredTruly
<1>1. ASSUME KVInductive, NEW m \in Request, CallHandleRequest(m), Plain(m.key)
      PROVE  CASE m.operation = 0 -> response'.success /\ Stored(m.key)' = m.value
               [] m.operation = 1 -> /\ response'.success <=> Stored(m.key) # NoValue
                                     /\ response'.success => response'.value = Stored(m.key)
               [] m.operation = 2 -> response'.success /\ Stored(m.key)' = NoValue
               [] OTHER -> ~response'.success
  <2> DEFINE k == KeyNumber(m.key)
  <2>1. PICK ok, val, error :
                /\ ok \in BOOLEAN /\ response' = LeaderResponse(ok, val, error)
                /\ m.operation \notin 0..2 => ~ok
                /\ m.operation \in 0..2 /\ Plain(m.key) =>
                         /\ k \in Key
                         /\ m.operation = 0 => ok /\ value'[k] = m.value
                         /\ m.operation = 1 => (ok <=> value[k] # NoValue) /\ (ok => val = value[k])
                         /\ m.operation = 2 => ok /\ value'[k] = NoValue
    BY <1>1, RequestIsHandled DEF KVInductive, Plain
  <2>2. Mirrored /\ Mirrored'
    BY <1>1, RequestIsHandled, ListInvMirrors, NextListInvMirrors DEF KVInductive
  <2>3. k \in Key => Stored(m.key) = value[k] /\ Stored(m.key)' = value'[k]
    BY <2>2 DEF Mirrored, Stored
  <2>4. response'.success = ok /\ response'.value = val
    BY <2>1 DEF LeaderResponse
  <2> HIDE DEF k
  <2>5. m.operation \in 0..3
    BY RequestForms
  <2>6. CASE m.operation = 0
    BY <1>1, <2>1, <2>3, <2>4, <2>6
  <2>7. CASE m.operation = 1
    BY <1>1, <2>1, <2>3, <2>4, <2>7
  <2>8. CASE m.operation = 2
    BY <1>1, <2>1, <2>3, <2>4, <2>8
  <2>9. CASE m.operation = 3
    BY <1>1, <2>1, <2>4, <2>9
  <2> QED
    BY <2>5, <2>6, <2>7, <2>8, <2>9
<1>2. KVInductive /\ [KVNext]_kvVars => 
       [\A m \in Request : CallHandleRequest(m) /\ Plain(m.key) =>
         CASE m.operation = 0 -> response'.success /\ Stored(m.key)' = m.value
           [] m.operation = 1 -> /\ response'.success <=> Stored(m.key) # NoValue
                                 /\ response'.success => response'.value = Stored(m.key)
           [] m.operation = 2 -> response'.success /\ Stored(m.key)' = NoValue
           [] OTHER -> ~response'.success]_kvVars
  BY <1>1
<1>3. KVInit => KVInductive
  BY KVInitInductive
<1>4. KVInductive /\ [KVNext]_kvVars => KVInductive'
  BY KVNextInductive
<1> QED
  BY <1>2, <1>3, <1>4, PTL DEF KVSpec, PlainKeysAnsweredTruly
=============================================================================
