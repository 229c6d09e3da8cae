------------------------------ MODULE AtomicSave -----------------------------
(***************************************************************************)
(* What RaftNode takes for granted of its persister: a handler changes the *)
(* persistent members and the file in one step, appendLogEntry the members *)
(* alone, the persistence thread writes all there is, and a restarted      *)
(* process holds exactly what the file does (RaftNode: PersistState,       *)
(* AppendLogEntry, PersistThread, Restart).                                *)
(***************************************************************************)
CONSTANT Change

VARIABLES
    members,  \* the changes the persistent members reflect
    saved,    \* the changes the file reflects
    answered, \* the changes reflected when some handler answered
    intact    \* no save has failed

vars == <<members, saved, answered, intact>>

Init == members = {} /\ saved = {} /\ answered = {} /\ intact = TRUE

\* A handler: change, persistState, answer.
UpdateState ==
    /\ \E c \in Change : members' = members \cup {c}
    /\ saved' = members'
    /\ answered' = answered \cup members'
    /\ UNCHANGED intact

\* A handler whose save fails answers all the same.
UpdateUnsaved ==
    /\ \E c \in Change : members' = members \cup {c}
    /\ answered' = answered \cup members'
    /\ intact' = FALSE
    /\ UNCHANGED saved

AppendLogEntry ==
    /\ \E c \in Change : members' = members \cup {c}
    /\ UNCHANGED <<saved, answered, intact>>

\* The persistence thread saves all there is, or fails.
PersistThread ==
    /\ \/ saved' = members /\ UNCHANGED intact
       \/ intact' = FALSE /\ UNCHANGED saved
    /\ UNCHANGED <<members, answered>>

Restart == members' = saved /\ UNCHANGED <<saved, answered, intact>>

Next == UpdateState \/ UpdateUnsaved \/ AppendLogEntry \/ PersistThread \/ Restart

Spec == Init /\ [][Next]_vars
=============================================================================
