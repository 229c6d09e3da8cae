----------------------------- MODULE Persistence ----------------------------
(***************************************************************************)
(* How one node's persistent members reach its file: persistState and      *)
(* persistThreadFunc (src/raft/raft_node.cpp), Persister                   *)
(* (src/storage/persister.cpp) and the shutdown of the server process      *)
(* (src/raft_node_server.cpp), step by step.  RaftNode takes all this as   *)
(* one atomic write.                                                       *)
(*                                                                         *)
(* The contents of the term, the vote and the log play no part here: the   *)
(* members stand for the set of changes made to them so far.               *)
(***************************************************************************)
EXTENDS Naturals, FiniteSets

CONSTANTS
    Handler,     \* threads that run RaftNode's handlers
    Saver,       \* the persistence thread
    Nobody,      \* no thread
    Torn,        \* the content of a file that is empty or half written
    MaxChanges,  \* bound: changes of the persistent members
    MaxRestarts, \* bound: starts of the process after the first
    SavesFail,   \* may the file system fail (full, read-only)?
    Stops        \* may the process be asked to stop (SIGINT, SIGTERM)?

ASSUME ThreadsDistinct == Saver \notin Handler /\ Nobody \notin Handler \cup {Saver}
ASSUME TornIsNoState == \A s \in SUBSET (1..MaxChanges) : s # Torn
ASSUME PersistenceBounds == MaxChanges \in Nat /\ MaxRestarts \in Nat
ASSUME PersistenceFlags == {SavesFail, Stops} \subseteq BOOLEAN

VARIABLES
    members,      \* the changes currentTerm_, votedFor_ and log_ reflect
    mutex,        \* the thread that holds RaftNode::mutex_
    needsPersist, \* needsPersist_
    running,      \* persistThreadRunning_
    finishing,    \* the persistence thread has left its loop
    pc,           \* where each thread is
    stateFile,    \* raft_state.dat
    tempFile,     \* raft_state.dat.tmp
    server,       \* the process: "up", "stopped" (the gRPC server), "destroying", "down"
    restarts,
    made,         \* history: changes made so far
    answered,     \* history: what the members reflected when a handler that calls
                  \* persistState returned
    intact        \* history: no call of persistState has failed

files == <<stateFile, tempFile>>
process == <<running, server, restarts>>
vars == <<members, mutex, needsPersist, finishing, pc, files, process, made, answered, intact>>

Thread == Handler \cup {Saver}
Change == 1..MaxChanges
Content == {Torn} \cup SUBSET Change
SavePC == {"save", "write", "rename"}

Init ==
    /\ members = {}
    /\ mutex = Nobody
    /\ needsPersist = FALSE
    /\ running = TRUE /\ finishing = FALSE
    /\ pc = [t \in Thread |-> IF t = Saver THEN "loop" ELSE "idle"]
    /\ stateFile = {} /\ tempFile = Torn
    /\ server = "up"
    /\ restarts = 0
    /\ made = 0
    /\ answered = {}
    /\ intact = TRUE
-----------------------------------------------------------------------------
(* The handlers *)

ChangeMembers ==
    /\ made < MaxChanges
    /\ made' = made + 1
    /\ members' = members \cup {made + 1}

\* handleRequestVote, handleAppendEntries, startElection, ... : lock, change,
\* then persistState before the lock is released.
UpdateState(t) ==
    /\ pc[t] = "idle" /\ mutex = Nobody
    /\ server # "down"
    /\ ChangeMembers
    /\ mutex' = t
    /\ pc' = [pc EXCEPT ![t] = "save"]
    /\ UNCHANGED <<needsPersist, finishing, files, process, answered, intact>>

\* appendLogEntry, a whole locked section.
AppendLogEntry(t) ==
    /\ pc[t] = "idle" /\ mutex = Nobody
    /\ server = "up"
    /\ ChangeMembers
    /\ needsPersist' = TRUE
    /\ UNCHANGED <<mutex, finishing, pc, files, process, answered, intact>>
-----------------------------------------------------------------------------
(* persistState, called with mutex_ held: Persister::saveRaftState *)

\* persistState returns, with or without success (a failure is only printed):
\* the caller releases mutex_.
Return(t) ==
    /\ mutex' = Nobody
    /\ \/ /\ t = Saver
          /\ pc' = [pc EXCEPT ![t] = IF finishing THEN "exited" ELSE "clear"]
          /\ UNCHANGED answered
       \/ /\ t # Saver
          /\ pc' = [pc EXCEPT ![t] = "idle"]
          /\ answered' = answered \cup members

\* main destroys its locals in reverse order: the Persister goes first, while
\* RaftNode still holds a pointer to it.
PersisterGone == server \in {"destroying", "down"}

\* A call of a destroyed Persister may do its work, or anything else.
SaveFails(t) ==
    /\ pc[t] \in SavePC
    /\ SavesFail \/ PersisterGone
    /\ Return(t)
    /\ intact' = FALSE
    /\ UNCHANGED <<members, needsPersist, finishing, files, process, made>>

\* Mutant: the file itself is opened for writing.
OpenStateFile(t) ==
    /\ pc[t] = "save"
    /\ stateFile' = Torn
    /\ pc' = [pc EXCEPT ![t] = "write"]
    /\ UNCHANGED <<members, mutex, needsPersist, finishing, tempFile, process, made, answered, intact>>

\* The temporary file is opened: it is empty now.
OpenTemp(t) ==
    /\ pc[t] = "save"
    /\ tempFile' = Torn
    /\ pc' = [pc EXCEPT ![t] = "write"]
    /\ UNCHANGED <<members, mutex, needsPersist, finishing, stateFile, process, made, answered, intact>>

\* serializeState, write and flush.
WriteTemp(t) ==
    /\ pc[t] = "write"
    /\ tempFile' = members
    /\ pc' = [pc EXCEPT ![t] = "rename"]
    /\ UNCHANGED <<members, mutex, needsPersist, finishing, stateFile, process, made, answered, intact>>

Rename(t) ==
    /\ pc[t] = "rename"
    /\ stateFile' = tempFile
    /\ tempFile' = Torn
    /\ Return(t)
    /\ UNCHANGED <<members, needsPersist, finishing, process, made, intact>>

Save(t) == SaveFails(t) \/ OpenTemp(t) \/ WriteTemp(t) \/ Rename(t)
-----------------------------------------------------------------------------
(* persistThreadFunc *)

\* Mutant: persistThreadRunning_ is looked at only when something was saved.
SaverLoopUntilSaved ==
    /\ pc[Saver] = "loop" /\ needsPersist
    /\ \/ running /\ pc' = [pc EXCEPT ![Saver] = "lock"] /\ UNCHANGED finishing
       \/ ~running /\ pc' = [pc EXCEPT ![Saver] = "final"] /\ finishing' = TRUE
    /\ UNCHANGED <<members, mutex, needsPersist, files, process, made, answered, intact>>

\* The loop tests persistThreadRunning_, then needsPersist_, and sleeps.
SaverLoop ==
    /\ pc[Saver] = "loop"
    /\ \/ running /\ ~needsPersist /\ UNCHANGED <<pc, finishing>>
       \/ running /\ needsPersist /\ pc' = [pc EXCEPT ![Saver] = "lock"] /\ UNCHANGED finishing
       \/ ~running /\ pc' = [pc EXCEPT ![Saver] = "final"] /\ finishing' = TRUE
    /\ UNCHANGED <<members, mutex, needsPersist, files, process, made, answered, intact>>

\* Mutant: the thread ends without a last save.
SaverFinalSkipped ==
    /\ pc[Saver] = "final"
    /\ pc' = [pc EXCEPT ![Saver] = "exited"]
    /\ UNCHANGED <<members, mutex, needsPersist, finishing, files, process, made, answered, intact>>

\* After the loop: the test before the final save.
SaverFinal ==
    /\ pc[Saver] = "final"
    /\ pc' = [pc EXCEPT ![Saver] = IF needsPersist THEN "lock" ELSE "exited"]
    /\ UNCHANGED <<members, mutex, needsPersist, finishing, files, process, made, answered, intact>>

\* Mutant: the save does not wait for the handlers.
SaverSaveUnlocked ==
    /\ pc[Saver] = "lock"
    /\ pc' = [pc EXCEPT ![Saver] = "save"]
    /\ UNCHANGED <<members, mutex, needsPersist, finishing, files, process, made, answered, intact>>

SaverLock ==
    /\ pc[Saver] = "lock" /\ mutex = Nobody
    /\ mutex' = Saver
    /\ pc' = [pc EXCEPT ![Saver] = "save"]
    /\ UNCHANGED <<members, needsPersist, finishing, files, process, made, answered, intact>>

\* needsPersist_ is cleared after mutex_ has been released.
SaverClear ==
    /\ pc[Saver] = "clear"
    /\ needsPersist' = FALSE
    /\ pc' = [pc EXCEPT ![Saver] = "loop"]
    /\ UNCHANGED <<members, mutex, finishing, files, process, made, answered, intact>>
-----------------------------------------------------------------------------
(* The process *)

\* main after its loop: the gRPC server is stopped, the RPC pool is not.
StopServer ==
    /\ Stops /\ server = "up"
    /\ server' = "stopped"
    /\ UNCHANGED <<members, mutex, needsPersist, finishing, pc, files, running, restarts, made, answered, intact>>

\* The end of main's try block: the Persister is destroyed, then ~RaftNode
\* clears persistThreadRunning_ and joins the thread.
DestroyPersister ==
    /\ server = "stopped"
    /\ server' = "destroying"
    /\ UNCHANGED <<members, mutex, needsPersist, finishing, pc, files, running, restarts, made, answered, intact>>

DestroyNode ==
    /\ server = "destroying" /\ running
    /\ running' = FALSE
    /\ UNCHANGED <<members, mutex, needsPersist, finishing, pc, files, server, restarts, made, answered, intact>>

JoinSaver ==
    /\ server = "destroying" /\ pc[Saver] = "exited" /\ mutex = Nobody
    /\ server' = "down"
    /\ UNCHANGED <<members, mutex, needsPersist, finishing, pc, files, running, restarts, made, answered, intact>>

\* loadRaftState: a file that cannot be read leaves the node as new.
LoadRaftState == IF stateFile = Torn THEN {} ELSE stateFile

\* The process dies, or has ended, and is started again: restoreState.
Restart ==
    /\ restarts < MaxRestarts
    /\ restarts' = restarts + 1
    /\ members' = LoadRaftState
    /\ mutex' = Nobody
    /\ needsPersist' = FALSE
    /\ running' = TRUE /\ finishing' = FALSE
    /\ pc' = [t \in Thread |-> IF t = Saver THEN "loop" ELSE "idle"]
    /\ server' = "up"
    /\ UNCHANGED <<files, made, answered, intact>>

SaverStep == SaverLoop \/ SaverFinal \/ SaverLock \/ SaverClear \/ Save(Saver)

Next ==
    \/ \E t \in Handler : UpdateState(t) \/ AppendLogEntry(t) \/ Save(t)
    \/ SaverStep
    \/ StopServer \/ DestroyPersister \/ DestroyNode \/ JoinSaver
    \/ Restart

\* Threads that can run do run; a shutdown that has begun goes on.
Fairness ==
    /\ \A t \in Handler : WF_vars(Save(t))
    /\ SF_vars(SaverLock)
    /\ WF_vars(SaverStep)
    /\ WF_vars(DestroyPersister) /\ WF_vars(DestroyNode) /\ WF_vars(JoinSaver)

Spec == Init /\ [][Next]_vars /\ Fairness
-----------------------------------------------------------------------------
HandlerPC == {"idle"} \cup SavePC
SaverPC == {"loop", "lock", "clear", "final", "exited"} \cup SavePC

\* The members reflect changes that were made, and exactly the holder of mutex_
\* is inside persistState.
TypeOK ==
    /\ made \in 0..MaxChanges /\ members \subseteq 1..made /\ answered \subseteq 1..made
    /\ mutex \in Thread \cup {Nobody}
    /\ needsPersist \in BOOLEAN /\ running \in BOOLEAN /\ finishing \in BOOLEAN
    /\ pc \in [Thread -> HandlerPC \cup SaverPC]
    /\ pc[Saver] \in SaverPC /\ \A t \in Handler : pc[t] \in HandlerPC
    /\ \A t \in Thread : pc[t] \in SavePC <=> mutex = t
    /\ stateFile \in Content /\ tempFile \in Content
    /\ server \in {"up", "stopped", "destroying", "down"}
    /\ restarts \in 0..MaxRestarts
    /\ intact \in BOOLEAN

\* Memory is never behind the file, and what is about to be renamed is the
\* present state: no thread can slip a change between the write and the rename.
SaveInv ==
    /\ stateFile # Torn /\ stateFile \subseteq members
    /\ \A t \in Thread : pc[t] = "rename" => tempFile = members
    /\ mutex \in Handler => made \in members

\* raft_state.dat is never torn and never goes back to an older state, at
\* whatever point the process dies, a save fails or two threads save at once
\* (saveRaftState writes a temporary file and renames it).
SavedNeverLost == [][stateFile' # Torn /\ stateFile \subseteq stateFile']_vars

\* As long as no save has failed, a change is in the file before the handler
\* that made it answers, and with it everything the handler saw: votes and terms
\* survive every crash (persistState under mutex_).
AnsweredIsSaved == stateFile # Torn /\ (intact => answered \subseteq stateFile)

\* Seen from outside mutex_, a handler's change happens when it is saved.
Visible == IF mutex \in Handler THEN members \ {made} ELSE members
Atomic == INSTANCE AtomicSave WITH members <- Visible, saved <- stateFile

\* The steps of saveRaftState and of the persistence thread add up to the atomic
\* saves that RaftNode assumes, or to no save at all where one fails, at whatever
\* step the process dies or is shut down.
ImplementsAtomicSave == Atomic!Spec

\* raft-algorithm.md: persistent state is saved before an RPC is answered,
\* whatever happens.
AnsweredAlwaysSaved == answered \subseteq stateFile

\* ~RaftNode does not hang on the join of the persistence thread.
ShutdownEnds == server = "destroying" ~> server # "destroying"

\* persistThreadFunc: what is pending when the thread exits has been written.
ShutdownSavesAll == server = "down" => stateFile = members

\* What the members reflect while needsPersist_ is set reaches the file, also
\* through a shutdown, unless the process dies first or a save fails; the one
\* exception is the moment in which the persistence thread has released mutex_
\* and not yet cleared the flag.
FlaggedIsSaved ==
    \A c \in Change :
      needsPersist /\ pc[Saver] \notin {"clear", "exited"} /\ c \in members
        ~> c \in stateFile \/ c \notin members \/ ~intact

\* Every change reaches the file, that of appendLogEntry through the
\* persistence thread.
EventuallySaved == \A c \in Change : c \in members ~> c \in stateFile \/ c \notin members
=============================================================================
