------------------------------ MODULE SkipList -------------------------------
(***************************************************************************)
(* The skip list of include/storage/skiplist.h under the lock of KVStore   *)
(* (src/storage/kv_store.cpp), pointer by pointer.                         *)
(*                                                                         *)
(* A node is named by its key, which never changes while it is linked; the *)
(* levels of a deleted node are gone, so that following a dangling pointer *)
(* is an error of the model.  The random level of a new node is any level. *)
(***************************************************************************)
EXTENDS Naturals, FiniteSets

CONSTANTS
    Key,        \* keys: positive numbers, for their order
    Value, NoValue,
    Null,       \* nullptr
    MAX_LEVEL

ASSUME SkipListKeys == Key \subseteq Nat \ {0} /\ IsFiniteSet(Key) /\ Null \notin Nat
ASSUME SkipListLevels == MAX_LEVEL \in Nat \ {0}
ASSUME NoValueIsNone == NoValue \notin Value

VARIABLES
    forward,       \* node -> level -> next node
    value,         \* of the nodes
    currentLevel,
    size,
    ret            \* the last operation and what it returned

vars == <<forward, value, currentLevel, size, ret>>

Header == 0
Node == {Header} \cup Key
Deleted == [l \in {} |-> Null]
Linked == {k \in Key : DOMAIN forward[k] # {}}

Init ==
    /\ forward = [n \in Node |-> IF n = Header THEN [l \in 0..MAX_LEVEL |-> Null] ELSE Deleted]
    /\ value = [k \in Key |-> NoValue]
    /\ currentLevel = 0
    /\ size = 0
    /\ ret = <<"none">>
-----------------------------------------------------------------------------
\* Mutant: the walk passes the key it looks for.
RightThroughEqual(l, key) ==
    LET move[n \in Node] ==
          LET next == forward[n][l]
          IN  IF l \in DOMAIN forward[n] /\ next # Null /\ next <= key THEN move[next] ELSE n
    IN  move

\* Where the walk to the right on level l ends, from each node; one that is not
\* on the level cannot be left.
Right(l, key) ==
    LET move[n \in Node] ==
          LET next == forward[n][l]
          IN  IF l \in DOMAIN forward[n] /\ next # Null /\ next < key THEN move[next] ELSE n
    IN  move

\* The vector update: the predecessors of key, from the highest level down.
Predecessors(key) ==
    LET update[l \in 0..currentLevel] ==
          Right(l, key)[IF l = currentLevel THEN Header ELSE update[l + 1]]
    IN  update

\* The node after the predecessor on level 0, which is key's if key is there.
Candidate(update) == forward[update[0]][0]

Lookup(key) == IF Candidate(Predecessors(key)) = key THEN value[key] ELSE NoValue

search(key) ==
    /\ ret' = <<"get", Lookup(key)>>
    /\ UNCHANGED <<forward, value, currentLevel, size>>
-----------------------------------------------------------------------------
\* insert of a key that is there: the value is replaced.
Update(key, v) ==
    /\ value' = [value EXCEPT ![key] = v]
    /\ ret' = <<"put", FALSE>>
    /\ UNCHANGED <<forward, currentLevel, size>>

\* Mutant: the header is not made a predecessor on the levels that are new.
InsertNodeLow(key, v, update, newLevel) ==
    LET top == IF newLevel > currentLevel THEN currentLevel ELSE newLevel
    IN  /\ currentLevel' = IF newLevel > currentLevel THEN newLevel ELSE currentLevel
        /\ forward' = [n \in Node |->
             IF n = key
             THEN [l \in 0..newLevel |-> IF l <= top THEN forward[update[l]][l] ELSE Null]
             ELSE [l \in DOMAIN forward[n] |->
                     IF l <= top /\ update[l] = n THEN key ELSE forward[n][l]]]
        /\ value' = [value EXCEPT ![key] = v]
        /\ size' = size + 1
        /\ ret' = <<"put", TRUE>>

\* A new node is linked on levels 0..newLevel.
InsertNode(key, v, update, newLevel) ==
    LET pred(l) == IF l <= currentLevel THEN update[l] ELSE Header
    IN  /\ currentLevel' = IF newLevel > currentLevel THEN newLevel ELSE currentLevel
        /\ forward' = [n \in Node |->
             IF n = key
             THEN [l \in 0..newLevel |-> forward[pred(l)][l]]
             ELSE [l \in DOMAIN forward[n] |->
                     IF l <= newLevel /\ pred(l) = n THEN key ELSE forward[n][l]]]
        /\ value' = [value EXCEPT ![key] = v]
        /\ size' = size + 1
        /\ ret' = <<"put", TRUE>>

\* randomLevel returns a level below MAX_LEVEL.
insert(key, v) ==
    LET update == Predecessors(key)
    IN  IF Candidate(update) = key
        THEN Update(key, v)
        ELSE \E newLevel \in 0..MAX_LEVEL-1 : InsertNode(key, v, update, newLevel)
-----------------------------------------------------------------------------
\* remove of a key that is there: the node is unlinked from level 0 up to the
\* first level where it is not the next node, then deleted.
Unlink(key, update) ==
    LET unlinked == {l \in 0..currentLevel :
                       \A m \in 0..l : forward[update[m]][m] = key}
        links(n) == [l \in DOMAIN forward[n] |->
                       IF l \in unlinked /\ update[l] = n THEN forward[key][l] ELSE forward[n][l]]
    IN  forward' = [n \in Node |-> IF n = key THEN Deleted ELSE links(n)]

\* Levels that are empty now are given up.
LowerLevel ==
    currentLevel' = CHOOSE l \in 0..currentLevel :
                      /\ l = 0 \/ forward'[Header][l] # Null
                      /\ \A m \in l+1..currentLevel : forward'[Header][m] = Null

remove(key) ==
    LET update == Predecessors(key)
    IN  IF Candidate(update) = key
        THEN /\ Unlink(key, update)
             /\ LowerLevel
             /\ value' = [value EXCEPT ![key] = NoValue]
             /\ size' = size - 1
             /\ ret' = <<"remove", TRUE>>
        ELSE /\ ret' = <<"remove", FALSE>>
             /\ UNCHANGED <<forward, value, currentLevel, size>>

Next ==
    \E k \in Key : search(k) \/ remove(k) \/ \E v \in Value : insert(k, v)

Spec == Init /\ [][Next]_vars
-----------------------------------------------------------------------------
\* Every node has the levels 0..h of its random level, the header has all.
TypeOK ==
    /\ DOMAIN forward = Node
    /\ DOMAIN forward[Header] = 0..MAX_LEVEL
    /\ \A k \in Linked : \E h \in 0..MAX_LEVEL-1 : DOMAIN forward[k] = 0..h
    /\ value \in [Key -> Value \cup {NoValue}]
    /\ currentLevel \in 0..MAX_LEVEL-1
    /\ size \in Nat

\* On every level each pointer leads to the next node of that level in the
\* order of the keys, so every level is sorted, is a sublist of the one below,
\* loses no node and never leads to a deleted one (what validate() was meant to
\* check; skiplist.h, insert and remove).
LevelsAreLists ==
    \A n \in {Header} \cup Linked : \A l \in DOMAIN forward[n] :
      LET after == {k \in Linked : l \in DOMAIN forward[k] /\ n < k}
      IN  IF after = {} THEN forward[n][l] = Null
          ELSE forward[n][l] \in after /\ \A k \in after : forward[n][l] <= k

\* currentLevel is the highest level in use after every insert and remove: no
\* search starts below a node's top level or on an empty level.
LevelIsTight ==
    /\ currentLevel = 0 \/ forward[Header][currentLevel] # Null
    /\ \A l \in currentLevel+1..MAX_LEVEL : forward[Header][l] = Null

Contents == INSTANCE KVMap WITH store <- [k \in Key |-> Lookup(k)]

\* Whatever levels the nodes were given, the list behaves as a map: what a
\* search from the top level finds is what the last insert and remove of that
\* key left, the other keys are not touched, and size and return values agree.
ImplementsMap == Contents!Spec
=============================================================================
