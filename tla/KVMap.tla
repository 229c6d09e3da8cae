-------------------------------- MODULE KVMap --------------------------------
(***************************************************************************)
(* What the storage of a node promises: a map from keys to values with the *)
(* three operations of KVStore (include/storage/kv_store.h) and the number *)
(* of its keys.  Each operation is a whole section locked by mtx_.         *)
(***************************************************************************)
EXTENDS Naturals, FiniteSets

CONSTANTS Key, Value, NoValue

VARIABLES
    store,  \* key -> value, or NoValue
    size,
    ret     \* the last operation and what it returned

vars == <<store, size, ret>>

Init == store = [k \in Key |-> NoValue] /\ size = 0 /\ ret = <<"none">>

\* TRUE for a new key, FALSE for an update.
Put(k, v) ==
    /\ ret' = <<"put", store[k] = NoValue>>
    /\ store' = [store EXCEPT ![k] = v]
    /\ size' = Cardinality({m \in Key : store'[m] # NoValue})

Get(k) == ret' = <<"get", store[k]>> /\ UNCHANGED <<store, size>>

\* TRUE if the key was there.
Remove(k) ==
    /\ ret' = <<"remove", store[k] # NoValue>>
    /\ store' = [store EXCEPT ![k] = NoValue]
    /\ size' = Cardinality({m \in Key : store'[m] # NoValue})

Next == \E k \in Key : Get(k) \/ Remove(k) \/ \E v \in Value : Put(k, v)

Spec == Init /\ [][Next]_vars
=============================================================================
