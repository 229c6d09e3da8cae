-------------------------- MODULE PersistenceProofs --------------------------
(* Proofs about Persistence, for any number of threads, changes and crashes. *)
EXTENDS Persistence, TLAPS

PersistInv == TypeOK /\ SaveInv

\* What the type invariant says of contents, for the provers.
LEMMA MembersAreContent == ASSUME TypeOK PROVE members \in SUBSET Change /\ members # Torn
<1>1. members \in SUBSET (1..MaxChanges)
  BY PersistenceBounds DEF TypeOK
<1> QED BY <1>1, TornIsNoState DEF Change

\* A process that has just started satisfies the invariant.
LEMMA InitPersist == Init => PersistInv
<1> SUFFICES ASSUME Init PROVE PersistInv
  OBVIOUS
<1>1. {} \in SUBSET (1..MaxChanges) /\ {} # Torn
  BY TornIsNoState
<1>2. pc \in [Thread -> HandlerPC \cup SaverPC] /\ pc[Saver] = "loop" /\ \A t \in Handler : pc[t] = "idle"
  BY ThreadsDistinct DEF Init, Thread, HandlerPC, SaverPC
<1>3. \A t \in Thread : pc[t] \notin SavePC /\ mutex # t
  BY <1>2, ThreadsDistinct DEF Init, Thread, SavePC
<1>4. made \in 0..MaxChanges /\ restarts \in 0..MaxRestarts /\ members = {} /\ answered = {}
      /\ stateFile \in Content /\ tempFile \in Content
  BY <1>1, PersistenceBounds DEF Init, Content, Change
<1>6. TypeOK
  BY <1>2, <1>3, <1>4 DEF Init, TypeOK, HandlerPC, SaverPC
<1>5. SaveInv
  BY <1>1, <1>3, ThreadsDistinct DEF Init, SaveInv, SavePC
<1> QED BY <1>5, <1>6 DEF PersistInv

\* A step inside persistState: where the thread goes, and what that means for
\* the threads and the holder of mutex_.
LEMMA SavePC1 == ASSUME TypeOK, NEW t \in Thread, NEW p \in {"write", "rename"},
                        pc[t] \in SavePC, pc' = [pc EXCEPT ![t] = p], mutex' = mutex
                 PROVE  /\ pc' \in [Thread -> HandlerPC \cup SaverPC]
                        /\ pc'[Saver] \in SaverPC /\ \A u \in Handler : pc'[u] \in HandlerPC
                        /\ \A u \in Thread : pc'[u] \in SavePC <=> mutex' = u
                        /\ mutex = t /\ pc'[t] = p /\ \A u \in Thread : u # t => pc'[u] \notin SavePC
BY ThreadsDistinct DEF TypeOK, Thread, HandlerPC, SaverPC, SavePC

\* persistState returns: the thread leaves mutex_ and keeps its place among the others.
LEMMA ReturnPC == ASSUME TypeOK, NEW t \in Thread, pc[t] \in SavePC, Return(t)
                  PROVE  /\ pc' \in [Thread -> HandlerPC \cup SaverPC]
                         /\ pc'[Saver] \in SaverPC /\ \A u \in Handler : pc'[u] \in HandlerPC
                         /\ \A u \in Thread : pc'[u] \notin SavePC /\ mutex' # u
                         /\ mutex = t /\ mutex' = Nobody
                         /\ answered' \in {answered, answered \cup members}
<1>1. mutex = t /\ mutex' = Nobody /\ \A u \in Thread : u # t => pc[u] \notin SavePC
  BY DEF TypeOK, Return
<1>2. \E p \in {"clear", "exited", "idle"} : /\ pc' = [pc EXCEPT ![t] = p]
                                             /\ t = Saver => p \in {"clear", "exited"}
                                             /\ t # Saver => p = "idle"
  BY DEF Return
<1>3. answered' \in {answered, answered \cup members}
  BY DEF Return
<1> QED BY <1>1, <1>2, <1>3, ThreadsDistinct DEF TypeOK, Thread, HandlerPC, SaverPC, SavePC

\* A step of one of the threads that saves.
LEMMA SavePreserves == ASSUME PersistInv, NEW t \in Thread, Save(t) PROVE PersistInv'
<1>0. TypeOK /\ SaveInv /\ members \in SUBSET Change /\ members # Torn
  BY MembersAreContent DEF PersistInv
<1>1. CASE SaveFails(t)
  <2>1. pc[t] \in SavePC /\ Return(t) /\ intact' = FALSE
        /\ UNCHANGED <<members, needsPersist, finishing, files, process, made>>
    BY <1>1 DEF SaveFails
  <2>2. TypeOK'
    BY <1>0, <2>1, ReturnPC, ThreadsDistinct DEF TypeOK, files, process
  <2>3. SaveInv'
    BY <1>0, <2>1, ReturnPC, ThreadsDistinct DEF SaveInv, files, Thread, SavePC
  <2> QED BY <2>2, <2>3 DEF PersistInv
<1>2. CASE OpenTemp(t)
  <2>1. pc[t] \in SavePC /\ pc' = [pc EXCEPT ![t] = "write"] /\ tempFile' = Torn
        /\ UNCHANGED <<members, mutex, needsPersist, finishing, stateFile, process, made, answered, intact>>
    BY <1>2 DEF OpenTemp, SavePC
  <2>2. TypeOK'
    BY <1>0, <2>1, SavePC1 DEF TypeOK, process, Content
  <2>3. SaveInv'
    BY <1>0, <2>1, SavePC1 DEF SaveInv, Thread, SavePC
  <2> QED BY <2>2, <2>3 DEF PersistInv
<1>3. CASE WriteTemp(t)
  <2>1. pc[t] \in SavePC /\ pc' = [pc EXCEPT ![t] = "rename"] /\ tempFile' = members
        /\ UNCHANGED <<members, mutex, needsPersist, finishing, stateFile, process, made, answered, intact>>
    BY <1>3 DEF WriteTemp, SavePC
  <2>2. TypeOK'
    BY <1>0, <2>1, SavePC1 DEF TypeOK, process, Content
  <2>3. SaveInv'
    BY <1>0, <2>1, SavePC1 DEF SaveInv, Thread, SavePC
  <2> QED BY <2>2, <2>3 DEF PersistInv
<1>4. CASE Rename(t)
  <2>1. pc[t] \in SavePC /\ Return(t) /\ stateFile' = members /\ tempFile' = Torn
        /\ UNCHANGED <<members, needsPersist, finishing, process, made, intact>>
    BY <1>0, <1>4 DEF Rename, SavePC, SaveInv
  <2>2. TypeOK'
    BY <1>0, <2>1, ReturnPC, ThreadsDistinct DEF TypeOK, process, Content
  <2>3. SaveInv'
    BY <1>0, <2>1, ReturnPC, ThreadsDistinct DEF SaveInv, Thread, SavePC
  <2> QED BY <2>2, <2>3 DEF PersistInv
<1> QED BY <1>1, <1>2, <1>3, <1>4 DEF Save

\* The handlers' changes of the members preserve the invariant.
LEMMA HandlerPreserves ==
    ASSUME PersistInv, NEW t \in Handler, UpdateState(t) \/ AppendLogEntry(t) PROVE PersistInv'
<1> USE DEF PersistInv, TypeOK, SaveInv
<1>1. CASE UpdateState(t)
  BY <1>1, ThreadsDistinct, PersistenceBounds
     DEF UpdateState, ChangeMembers, files, process, Thread, SavePC, SaverPC, HandlerPC
<1>2. CASE AppendLogEntry(t)
  BY <1>2, ThreadsDistinct, PersistenceBounds
     DEF AppendLogEntry, ChangeMembers, files, process, Thread, SavePC, SaverPC, HandlerPC
<1> QED BY <1>1, <1>2

\* The persistence thread's own steps preserve it.
LEMMA SaverPreserves ==
    ASSUME PersistInv, SaverLoop \/ SaverFinal \/ SaverLock \/ SaverClear PROVE PersistInv'
<1> USE ThreadsDistinct DEF PersistInv, TypeOK, SaveInv, files, process, Thread, SavePC, SaverPC, HandlerPC
<1>1. CASE SaverLoop BY <1>1 DEF SaverLoop
<1>2. CASE SaverFinal BY <1>2 DEF SaverFinal
<1>3. CASE SaverLock BY <1>3 DEF SaverLock
<1>4. CASE SaverClear BY <1>4 DEF SaverClear
<1> QED BY <1>1, <1>2, <1>3, <1>4

\* Shutdown and restart preserve it.
LEMMA ProcessPreserves ==
    ASSUME PersistInv, StopServer \/ DestroyPersister \/ DestroyNode \/ JoinSaver \/ Restart
    PROVE  PersistInv'
<1> USE DEF PersistInv, TypeOK, SaveInv, files, process
<1>1. CASE StopServer BY <1>1 DEF StopServer
<1>2. CASE DestroyPersister BY <1>2 DEF DestroyPersister
<1>3. CASE DestroyNode BY <1>3 DEF DestroyNode
<1>4. CASE JoinSaver BY <1>4 DEF JoinSaver
<1>5. CASE Restart
  <2>1. members' = stateFile /\ UNCHANGED <<files, made, answered, intact>> /\ mutex' = Nobody
    BY <1>5 DEF Restart, LoadRaftState
  <2>2. /\ pc' \in [Thread -> HandlerPC \cup SaverPC]
        /\ pc'[Saver] = "loop" /\ \A t \in Handler : pc'[t] = "idle"
    BY <1>5, ThreadsDistinct DEF Restart, Thread, HandlerPC, SaverPC
  <2>3. \A t \in Thread : pc'[t] \notin SavePC /\ mutex' # t
    BY <2>1, <2>2, ThreadsDistinct DEF Thread, SavePC
  <2>6. restarts' \in 0..MaxRestarts
    BY <1>5, PersistenceBounds DEF Restart
  <2>7. members' \subseteq 1..made'
    BY <2>1
  <2>4. TypeOK'
    BY <1>5, <2>1, <2>2, <2>3, <2>6, <2>7 DEF Restart, SaverPC, HandlerPC
  <2>5. SaveInv'
    BY <2>1, <2>3, ThreadsDistinct DEF SavePC
  <2> QED BY <2>4, <2>5
<1> QED BY <1>1, <1>2, <1>3, <1>4, <1>5

\* Every step preserves the invariant.
LEMMA NextPersist == PersistInv /\ [Next]_vars => PersistInv'
<1> SUFFICES ASSUME PersistInv, [Next]_vars PROVE PersistInv'
  OBVIOUS
<1>1. CASE UNCHANGED vars
  BY <1>1 DEF vars, files, process, PersistInv, TypeOK, SaveInv
<1>2. ASSUME NEW t \in Handler, UpdateState(t) \/ AppendLogEntry(t) \/ Save(t) PROVE PersistInv'
  BY <1>2, HandlerPreserves, SavePreserves DEF Thread
<1>3. CASE SaverStep
  BY <1>3, SaverPreserves, SavePreserves DEF SaverStep, Thread
<1>4. CASE StopServer \/ DestroyPersister \/ DestroyNode \/ JoinSaver \/ Restart
  BY <1>4, ProcessPreserves
<1> QED BY <1>1, <1>2, <1>3, <1>4 DEF Next

\* Every variable keeps its type and only the holder of mutex_ is inside
\* persistState; the file never overtakes the members, and the temporary file is
\* renamed only while it holds the present state.
THEOREM PersistenceCorrect == Spec => [](TypeOK /\ SaveInv)
<1>1. Init => PersistInv BY InitPersist
<1>2. PersistInv /\ [Next]_vars => PersistInv' BY NextPersist
<1> QED BY <1>1, <1>2, PTL DEF Spec, PersistInv

\* raft_state.dat is never torn and never goes back to an older state, at
\* whatever point the process dies, a save fails or the process is shut down.
THEOREM SavedStays == Spec => SavedNeverLost
<1>1. PersistInv /\ [Next]_vars => [stateFile' # Torn /\ stateFile \subseteq stateFile']_vars
  <2> SUFFICES ASSUME PersistInv, [Next]_vars, PersistInv'
               PROVE  stateFile' # Torn /\ stateFile \subseteq stateFile'
    BY NextPersist
  <2>1. \A t \in Thread : Rename(t) => stateFile' = members
    BY DEF PersistInv, SaveInv, Rename
  <2>2. (\E t \in Thread : Rename(t)) \/ UNCHANGED stateFile
    BY DEF Next, vars, files, Save, SaveFails, OpenTemp, WriteTemp, SaverStep, UpdateState, AppendLogEntry,
           SaverLoop, SaverFinal, SaverLock, SaverClear, StopServer, DestroyPersister, DestroyNode,
           JoinSaver, Restart, Thread
  <2> QED BY <2>1, <2>2 DEF PersistInv, SaveInv
<1> QED BY <1>1, InitPersist, NextPersist, PTL DEF Spec, SavedNeverLost

\* As long as no save has failed, what a handler has answered is in the file.
SyncInv == PersistInv /\ (intact => answered \subseteq stateFile)

\* Every step keeps what was answered in the file, or is a save that fails.
LEMMA NextSync == SyncInv /\ [Next]_vars => SyncInv'
<1> SUFFICES ASSUME SyncInv, [Next]_vars PROVE SyncInv'
  OBVIOUS
<1>1. PersistInv' /\ PersistInv
  BY NextPersist DEF SyncInv
<1>2. ASSUME NEW t \in Thread, Rename(t) PROVE answered \subseteq members => answered' \subseteq stateFile'
  <2>1. stateFile' = members /\ answered' \in {answered, answered \cup members}
    BY <1>1, <1>2 DEF PersistInv, SaveInv, Rename, Return
  <2> QED BY <2>1
<1>3. \/ \E t \in Thread : Rename(t) /\ UNCHANGED intact
      \/ intact' = FALSE
      \/ UNCHANGED <<stateFile, answered, intact>>
  BY DEF Next, vars, files, Save, SaveFails, OpenTemp, WriteTemp, Rename, SaverStep,
         UpdateState, AppendLogEntry, SaverLoop, SaverFinal, SaverLock, SaverClear, StopServer,
         DestroyPersister, DestroyNode, JoinSaver, Restart, Thread
<1>4. intact => answered \subseteq members
  BY <1>1 DEF SyncInv, PersistInv, SaveInv
<1>5. intact' => answered' \subseteq stateFile'
  BY <1>2, <1>3, <1>4 DEF SyncInv
<1> QED BY <1>1, <1>5 DEF SyncInv

\* So it is in every reachable state.
LEMMA SyncInvariant == Spec => []SyncInv
<1>1. Init => SyncInv
  BY InitPersist DEF Init, SyncInv
<1>2. SyncInv /\ [Next]_vars => SyncInv'
  BY NextSync
<1> QED BY <1>1, <1>2, PTL DEF Spec

\* As long as no save has failed, a change is in the file before the handler that
\* made it answers.
THEOREM AnsweredSaved == Spec => []AnsweredIsSaved
<1>1. SyncInv => AnsweredIsSaved
  BY DEF SyncInv, PersistInv, SaveInv, AnsweredIsSaved
<1> QED BY <1>1, SyncInvariant, PTL

\* Every step of the threads, the file operations, the shutdown and the crashes
\* is a step of AtomicSave or leaves it unchanged: what RaftNode assumes of its
\* persister is what this code does, as long as no save fails.
THEOREM PersistenceImplementsAtomicSave == Spec => ImplementsAtomicSave
<1>1. Init => Atomic!Init
  BY ThreadsDistinct DEF Init, Atomic!Init, Visible
<1>2. PersistInv /\ [Next]_vars => [Atomic!Next]_(Atomic!vars)
  <2> SUFFICES ASSUME PersistInv, [Next]_vars PROVE [Atomic!Next]_(Atomic!vars)
    OBVIOUS
  <2>0. /\ made \in Nat /\ members \subseteq 1..made /\ Saver \notin Handler /\ Nobody \notin Handler
        /\ mutex \in Handler => made \in members
        /\ mutex \in Handler => made \in Change
        /\ \A t \in Thread : pc[t] \in SavePC <=> mutex = t
        /\ \A t \in Thread : pc[t] = "rename" => tempFile = members
    <3>1. made \in 0..MaxChanges /\ members \subseteq 1..made /\ (mutex \in Handler => made \in members)
      BY DEF PersistInv, TypeOK, SaveInv
    <3>2. mutex \in Handler => made \in Change
      BY <3>1, PersistenceBounds DEF Change
    <3> QED BY <3>1, <3>2, ThreadsDistinct, PersistenceBounds DEF PersistInv, TypeOK, SaveInv
  <2>1. ASSUME NEW t \in Handler, UpdateState(t) PROVE UNCHANGED Atomic!vars
    BY <2>0, <2>1 DEF UpdateState, ChangeMembers, Visible, Atomic!vars, files
  <2>2. ASSUME NEW t \in Handler, AppendLogEntry(t) PROVE Atomic!AppendLogEntry
    <3>1. mutex = Nobody /\ mutex' = Nobody /\ members' = members \cup {made + 1} /\ made + 1 \in Change
          /\ UNCHANGED <<stateFile, answered, intact>>
      BY <2>0, <2>2, PersistenceBounds DEF AppendLogEntry, ChangeMembers, files, Change
    <3> QED BY <2>0, <3>1 DEF Visible, Atomic!AppendLogEntry
  <2>3. ASSUME NEW t \in Thread, OpenTemp(t) \/ WriteTemp(t) PROVE UNCHANGED Atomic!vars
    BY <2>3 DEF OpenTemp, WriteTemp, Visible, Atomic!vars
  \* A handler leaves persistState: its change becomes visible, saved or not.
  <2>4. ASSUME NEW t \in Handler, pc[t] \in SavePC, Return(t), UNCHANGED <<members, made>>
        PROVE  /\ made \in Change /\ Visible' = members /\ Visible' = Visible \cup {made}
               /\ answered' = answered \cup members
    <3>1. mutex = t /\ mutex' = Nobody /\ answered' = answered \cup members
      BY <2>0, <2>4 DEF Return, Thread
    <3>2. Visible = members \ {made} /\ Visible' = members
      BY <2>0, <2>4, <3>1 DEF Visible
    <3> QED BY <2>0, <3>1, <3>2
  <2>5. ASSUME NEW t \in Handler, Rename(t) PROVE Atomic!UpdateState
    <3>1. pc[t] \in SavePC /\ Return(t) /\ stateFile' = members /\ UNCHANGED <<members, made, intact>>
      BY <2>0, <2>5 DEF Rename, Thread, SavePC
    <3> QED BY <2>4, <3>1 DEF Atomic!UpdateState
  <2>6. ASSUME NEW t \in Handler, SaveFails(t) PROVE Atomic!UpdateUnsaved
    <3>1. pc[t] \in SavePC /\ Return(t) /\ UNCHANGED <<members, made, stateFile>> /\ intact' = FALSE
      BY <2>6 DEF SaveFails, files
    <3> QED BY <2>4, <3>1 DEF Atomic!UpdateUnsaved
  <2>7. CASE Rename(Saver) \/ SaveFails(Saver)
    <3>1. pc[Saver] \in SavePC /\ Return(Saver) /\ UNCHANGED <<members, made>>
      BY <2>7 DEF Rename, SaveFails, SavePC
    <3>2. mutex = Saver /\ mutex' = Nobody /\ answered' = answered
      BY <2>0, <3>1 DEF Return, Thread
    <3>3. \/ stateFile' = members /\ UNCHANGED intact
          \/ stateFile' = stateFile /\ intact' = FALSE
      BY <2>0, <2>7 DEF Rename, SaveFails, files, Thread
    <3>4. Visible = members /\ Visible' = members
      BY <2>0, <3>1, <3>2 DEF Visible
    <3> QED BY <3>2, <3>3, <3>4 DEF Atomic!PersistThread, Atomic!Next
  <2>8. CASE SaverLoop \/ SaverFinal \/ SaverLock \/ SaverClear
    BY <2>0, <2>8 DEF SaverLoop, SaverFinal, SaverLock, SaverClear, Visible, Atomic!vars, files
  <2>9. CASE StopServer \/ DestroyPersister \/ DestroyNode \/ JoinSaver
    BY <2>9 DEF StopServer, DestroyPersister, DestroyNode, JoinSaver, Visible, Atomic!vars, files
  <2>10. CASE Restart
    <3>1. mutex' = Nobody /\ members' = stateFile /\ UNCHANGED <<stateFile, answered, intact>>
      BY <2>10 DEF Restart, LoadRaftState, files, PersistInv, SaveInv
    <3> QED BY <2>0, <3>1 DEF Visible, Atomic!Restart, Atomic!Next
  <2>11. CASE UNCHANGED vars
    BY <2>11 DEF vars, files, Visible, Atomic!vars
  <2> QED BY <2>1, <2>2, <2>3, <2>5, <2>6, <2>7, <2>8, <2>9, <2>10, <2>11
          DEF Next, SaverStep, Save, Thread, Atomic!Next
<1> QED BY <1>1, <1>2, PersistenceCorrect, PTL DEF Spec, ImplementsAtomicSave, Atomic!Spec, PersistInv
=============================================================================
