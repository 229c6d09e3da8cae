---------------------------- MODULE ClientCommands ---------------------------
(***************************************************************************)
(* The client requests of one node: ClientServiceImpl::HandleRequest       *)
(* (src/network/grpc_rpc_server.cpp), submitCommand with its table of      *)
(* pending commands, and applyCommittedEntriesInternal, which completes    *)
(* them (src/raft/raft_node.cpp), lock by lock.                            *)
(*                                                                         *)
(* The rest of the cluster is what RaftNode allows: the commit index       *)
(* advances, the node loses and regains its leadership, and another leader *)
(* replaces entries that are not committed.                                *)
(***************************************************************************)
EXTENDS Integers, Sequences, FiniteSets

CONSTANTS
    Request,        \* client requests, each in a gRPC thread of its own
    Poison,         \* those whose command throws when it is applied (an empty key)
    Applier,        \* a thread that applies: the main loop or handleAppendEntries
    Nobody,         \* no thread, no request
    Foreign,        \* a command that came through another leader
    MaxLog,         \* bound: longest log
    MaxElections    \* bound: times the node regains its leadership

ASSUME CommandThreads == /\ Applier \notin Request /\ Nobody \notin Request /\ Foreign \notin Request
                         /\ Applier # Nobody /\ Foreign # Nobody
ASSUME PoisonIsRequested == Poison \subseteq Request
ASSUME CommandBounds == MaxLog \in Nat /\ MaxElections \in Nat

VARIABLES
    state, log, commitIndex, lastApplied,  \* of RaftNode; an entry is its command
    executed,      \* the commands given to applyCallback_, in order
    pending,       \* pendingCommands_: index -> request
    completed,     \* PendingCommand::completed
    result,        \* PendingCommand::result: the command it is the result of
    pc, index,     \* of the request's thread: where it is, its logIndex
    response,      \* what HandleRequest answered
    mutex,         \* holder of RaftNode::mutex_
    cmdMutex,      \* holders of the PendingCommands' mutexes
    target,        \* the applying thread's pendingCmd
    elections,
    singleNode,    \* peerIds_ is empty
    up             \* the process runs

nodeVars == <<state, log, commitIndex, elections, singleNode, up>>
applyVars == <<lastApplied, executed, completed, result, target>>
vars == <<nodeVars, applyVars, pending, pc, index, response, mutex, cmdMutex>>

Thread == Request \cup {Applier}
Index == 1..MaxLog

\* A cluster of one is led by becomeLeader(), as in kv_client_test.cpp.
Init ==
    /\ state = "LEADER"
    /\ log = <<>>
    /\ commitIndex = 0 /\ lastApplied = 0 /\ executed = <<>>
    /\ pending = [i \in Index |-> Nobody]
    /\ completed = [r \in Request |-> FALSE]
    /\ result = [r \in Request |-> Nobody]
    /\ pc = [r \in Request |-> "new"]
    /\ index = [r \in Request |-> 0]
    /\ response = [r \in Request |-> "none"]
    /\ mutex = Nobody
    /\ cmdMutex = [r \in Request |-> Nobody]
    /\ target = Nobody
    /\ elections = 0
    /\ singleNode \in BOOLEAN
    /\ up = TRUE

Goto(r, l) == pc' = [pc EXCEPT ![r] = l]
Respond(r, answer) == Goto(r, "done") /\ response' = [response EXCEPT ![r] = answer]
-----------------------------------------------------------------------------
(* HandleRequest and submitCommand *)

\* HandleRequest asks isLeader(); a refused client is told where the leader is.
HandleRequest(r) ==
    /\ pc[r] = "new" /\ mutex = Nobody
    /\ \/ state = "LEADER" /\ Goto(r, "submit") /\ UNCHANGED response
       \/ state # "LEADER" /\ Respond(r, "not leader")
    /\ UNCHANGED <<nodeVars, applyVars, pending, index, mutex, cmdMutex>>

\* submitCommand looks again, in a locked section of its own.
CheckLeader(r) ==
    /\ pc[r] = "submit" /\ mutex = Nobody
    /\ \/ state = "LEADER" /\ Goto(r, "append") /\ UNCHANGED response
       \/ state # "LEADER" /\ Respond(r, "failed")
    /\ UNCHANGED <<nodeVars, applyVars, pending, index, mutex, cmdMutex>>

AppendLogEntry(r) ==
    /\ pc[r] = "append" /\ mutex = Nobody
    /\ \/ /\ state = "LEADER" /\ Len(log) < MaxLog
          /\ log' = Append(log, r)
          /\ index' = [index EXCEPT ![r] = Len(log) + 1]
          /\ Goto(r, "appended")
          /\ UNCHANGED response
       \/ /\ state # "LEADER"
          /\ Respond(r, "failed")
          /\ UNCHANGED <<log, index>>
    /\ UNCHANGED <<state, commitIndex, elections, singleNode, up, applyVars, pending, mutex, cmdMutex>>

\* Without peers the entry is committed at once, whatever commitIndex_ was.
CheckSingleNode(r) ==
    /\ pc[r] = "appended" /\ mutex = Nobody
    /\ commitIndex' = IF singleNode THEN index[r] ELSE commitIndex
    /\ Goto(r, "register")
    /\ UNCHANGED <<state, log, elections, singleNode, up, applyVars, pending, index, response, mutex, cmdMutex>>

\* pendingCommands_[logIndex] = pendingCmd, whoever was there.
RegisterPending(r) ==
    /\ pc[r] = "register"
    /\ pending' = [pending EXCEPT ![index[r]] = r]
    /\ Goto(r, IF singleNode THEN "apply" ELSE "wait")
    /\ UNCHANGED <<nodeVars, applyVars, index, response, mutex, cmdMutex>>

\* wait_for returns, holding the pending command's mutex: it is completed, or
\* the time is up.
WaitEnds(r) ==
    /\ pc[r] = "wait" /\ cmdMutex[r] = Nobody
    /\ cmdMutex' = [cmdMutex EXCEPT ![r] = r]
    /\ Goto(r, IF completed[r] THEN "clean up" ELSE "timed out")
    /\ UNCHANGED <<nodeVars, applyVars, pending, index, response, mutex>>

\* The message about the time-out reads the node's state under mutex_.
ReportTimeout(r) ==
    /\ pc[r] = "timed out" /\ mutex = Nobody
    /\ Goto(r, "clean up")
    /\ UNCHANGED <<nodeVars, applyVars, pending, index, response, mutex, cmdMutex>>

\* Mutant: the time-out is not looked at.
CleanUpAnyway(r) ==
    /\ pc[r] = "clean up"
    /\ pending' = [pending EXCEPT ![index[r]] = Nobody]
    /\ cmdMutex' = [cmdMutex EXCEPT ![r] = Nobody]
    /\ Respond(r, "success")
    /\ UNCHANGED <<nodeVars, applyVars, index, mutex>>

\* erase(logIndex), whoever is there by now, and the response.
CleanUp(r) ==
    /\ pc[r] = "clean up"
    /\ pending' = [pending EXCEPT ![index[r]] = Nobody]
    /\ cmdMutex' = [cmdMutex EXCEPT ![r] = Nobody]
    /\ Respond(r, IF completed[r] THEN "success" ELSE "failed")
    /\ UNCHANGED <<nodeVars, applyVars, index, mutex>>
-----------------------------------------------------------------------------
(* applyCommittedEntries, with mutex_ held *)

MayApply(t) == t \in {Applier} \cup {r \in Request : pc[r] = "apply"}

LockToApply(t) ==
    /\ mutex = Nobody /\ MayApply(t)
    /\ t = Applier => lastApplied < commitIndex
    /\ mutex' = t
    /\ UNCHANGED <<nodeVars, applyVars, pending, pc, index, response, cmdMutex>>

\* Mutant: the pending command is looked up at commitIndex_.
ApplyEntryNotifyingNewest(t) ==
    /\ mutex = t /\ MayApply(t) /\ target = Nobody
    /\ lastApplied < commitIndex
    /\ lastApplied' = lastApplied + 1
    /\ executed' = Append(executed, log[lastApplied + 1])
    /\ target' = pending[commitIndex]
    /\ UNCHANGED <<nodeVars, completed, result, pending, pc, index, response, mutex, cmdMutex>>

\* One turn of the loop: run the command and look for its pending command.
ApplyEntry(t) ==
    /\ mutex = t /\ MayApply(t) /\ target = Nobody
    /\ lastApplied < commitIndex /\ log[lastApplied + 1] \notin Poison
    /\ lastApplied' = lastApplied + 1
    /\ executed' = Append(executed, log[lastApplied + 1])
    /\ target' = pending[lastApplied + 1]
    /\ UNCHANGED <<nodeVars, completed, result, pending, pc, index, response, mutex, cmdMutex>>

\* An exception leaves the loop, and nobody is notified.  It ends the call in a
\* gRPC thread, the process in the main loop or in a thread of the pool; in a
\* request's own thread it also skips the erase of the pending command.
Unwind(t) ==
    /\ \/ t = Applier /\ up' \in BOOLEAN /\ UNCHANGED <<pc, response>>
       \/ /\ t # Applier
          /\ Goto(t, "threw") /\ response' = [response EXCEPT ![t] = "error"]
          /\ UNCHANGED up
    /\ UNCHANGED <<state, log, commitIndex, elections, singleNode, completed, result, target, pending, index, cmdMutex>>

\* Mutant: mutex_ stays locked.
ThrowInApplyLocked(t) ==
    /\ mutex = t /\ MayApply(t) /\ target = Nobody
    /\ lastApplied < commitIndex /\ log[lastApplied + 1] \in Poison
    /\ lastApplied' = lastApplied + 1
    /\ executed' = Append(executed, log[lastApplied + 1])
    /\ UNCHANGED mutex
    /\ Unwind(t)

\* Mutant: lastApplied_ is incremented after the command has been run.
ThrowInApplyFirst(t) ==
    /\ mutex = t /\ MayApply(t) /\ target = Nobody
    /\ lastApplied < commitIndex /\ log[lastApplied + 1] \in Poison
    /\ mutex' = Nobody
    /\ Unwind(t)
    /\ UNCHANGED <<lastApplied, executed>>

\* applyCallback_ throws: the entry counts as applied, mutex_ is released.
ThrowInApply(t) ==
    /\ mutex = t /\ MayApply(t) /\ target = Nobody
    /\ lastApplied < commitIndex /\ log[lastApplied + 1] \in Poison
    /\ lastApplied' = lastApplied + 1
    /\ executed' = Append(executed, log[lastApplied + 1])
    /\ mutex' = Nobody
    /\ Unwind(t)

\* The pending command that was found is completed under its own mutex.
NotifyPending(t) ==
    /\ mutex = t /\ MayApply(t) /\ target # Nobody
    /\ cmdMutex[target] = Nobody
    /\ completed' = [completed EXCEPT ![target] = TRUE]
    /\ result' = [result EXCEPT ![target] = executed[lastApplied]]
    /\ target' = Nobody
    /\ UNCHANGED <<nodeVars, lastApplied, executed, pending, pc, index, response, mutex, cmdMutex>>

UnlockAfterApply(t) ==
    /\ mutex = t /\ MayApply(t) /\ target = Nobody
    /\ lastApplied >= commitIndex
    /\ mutex' = Nobody
    /\ IF t = Applier THEN UNCHANGED pc ELSE Goto(t, "wait")
    /\ UNCHANGED <<nodeVars, applyVars, pending, index, response, cmdMutex>>
-----------------------------------------------------------------------------
(* The rest of the cluster *)

\* handleAppendEntriesResponse at a leader; handleAppendEntries at a follower,
\* which may also apply right after, before anybody else gets mutex_.
AdvanceCommitIndex ==
    /\ mutex = Nobody /\ ~singleNode
    /\ commitIndex' \in commitIndex+1..Len(log)
    /\ UNCHANGED <<state, log, elections, singleNode, up, applyVars, pending, pc, index, response, mutex, cmdMutex>>

\* A newer term: the pending commands stay in the table.
StepDown ==
    /\ mutex = Nobody /\ ~singleNode /\ state = "LEADER"
    /\ state' = "FOLLOWER"
    /\ UNCHANGED <<log, commitIndex, elections, singleNode, up, applyVars, pending, pc, index, response, mutex, cmdMutex>>

\* handleAppendEntries, rule 4: another leader's entry replaces what follows k.
ReplaceEntries(k) ==
    /\ mutex = Nobody /\ state = "FOLLOWER"
    /\ k \in commitIndex..Len(log) /\ k < MaxLog
    /\ log' = Append(SubSeq(log, 1, k), Foreign)
    /\ UNCHANGED <<state, commitIndex, elections, singleNode, up, applyVars, pending, pc, index, response, mutex, cmdMutex>>

BecomeLeader ==
    /\ mutex = Nobody /\ state = "FOLLOWER" /\ elections < MaxElections
    /\ state' = "LEADER"
    /\ elections' = elections + 1
    /\ UNCHANGED <<log, commitIndex, singleNode, up, applyVars, pending, pc, index, response, mutex, cmdMutex>>

RequestStep(r) ==
    \/ HandleRequest(r) \/ CheckLeader(r) \/ AppendLogEntry(r) \/ CheckSingleNode(r)
    \/ RegisterPending(r) \/ WaitEnds(r) \/ ReportTimeout(r) \/ CleanUp(r)

ApplyStep(t) ==
    LockToApply(t) \/ ApplyEntry(t) \/ ThrowInApply(t) \/ NotifyPending(t) \/ UnlockAfterApply(t)

Next ==
    /\ up
    /\ \/ \E r \in Request : RequestStep(r)
       \/ \E t \in Thread : ApplyStep(t)
       \/ AdvanceCommitIndex \/ StepDown \/ BecomeLeader
       \/ \E k \in 0..MaxLog : ReplaceEntries(k)

\* As long as a thread can run, one does; the main loop goes on applying.
Fairness == WF_vars(up /\ (\/ \E r \in Request : RequestStep(r)
                           \/ \E t \in Thread : ApplyStep(t)))

Spec == Init /\ [][Next]_vars /\ Fairness
-----------------------------------------------------------------------------
Registered == {"apply", "wait", "timed out", "clean up"}

\* Every variable holds what its declaration allows; a request that has appended
\* its command knows a real index, and one that is completed was found in the
\* table.
TypeOK ==
    /\ state \in {"LEADER", "FOLLOWER"}
    /\ log \in Seq(Request \cup {Foreign}) /\ executed \in Seq(Request \cup {Foreign})
    /\ commitIndex \in 0..Len(log) /\ lastApplied = Len(executed)
    /\ pending \in [Index -> Request \cup {Nobody}]
    /\ completed \in [Request -> BOOLEAN]
    /\ result \in [Request -> Request \cup {Foreign, Nobody}]
    /\ \A r \in Request :
         /\ pc[r] \in {"new", "submit", "append", "appended", "register", "done", "threw"} \cup Registered
         /\ pc[r] \in {"appended", "register"} \cup Registered => index[r] \in 1..MaxLog
         /\ cmdMutex[r] = IF pc[r] \in {"timed out", "clean up"} THEN r ELSE Nobody
         /\ response[r] \in {"none", "not leader", "failed", "success", "error"}
    /\ mutex \in Thread \cup {Nobody} /\ target \in Request \cup {Nobody}
    /\ elections \in 0..MaxElections /\ {singleNode, up} \subseteq BOOLEAN

\* Who is in the table is between its registration and its response, and under
\* its own index: a request that has been answered is never notified.  Only an
\* exception in a request's own thread leaves it behind.
PendingAreWaiting ==
    \A i \in Index :
      pending[i] # Nobody => index[pending[i]] = i /\ pc[pending[i]] \in Registered \cup {"threw"}

\* The result a request gets is that of the command executed at its index,
\* although requests share indexes when leaders change, overwrite each other in
\* the table and erase each other from it.
ResultIsOfItsIndex ==
    \A r \in Request : completed[r] => index[r] \in 1..lastApplied /\ result[r] = executed[index[r]]

\* The invariant of pendingCommands_: who is in the table still waits, and is
\* given the result of its own index (submitCommand, applyCommittedEntriesInternal).
PendingInv ==
    /\ TypeOK
    /\ PendingAreWaiting
    /\ ResultIsOfItsIndex

\* As long as the node leads, a client that is told of success had its own
\* command executed, in a cluster of one node too, where clients set the commit
\* index and apply each other's commands.
TruthfulWhileLeading ==
    state = "LEADER" /\ elections = 0 =>
      \A r \in Request : response[r] = "success" =>
        r \notin Poison /\ result[r] = r /\ \E i \in DOMAIN executed : executed[i] = r

\* The thread that applies r's command holds mutex_ and waits for r, which waits
\* for mutex_ (the time-out branch of submitCommand).
LockCycle == \E r \in Request : pc[r] = "timed out" /\ mutex # Nobody /\ target = r

\* Every request is answered in the end, whatever is applied, throws, times out
\* or is erased around it, unless the process ends or a time-out meets the
\* notification in the one lock cycle of submitCommand.
RequestsEnd ==
    <>[](\/ LockCycle \/ ~up
         \/ \A r \in Request : pc[r] \in {"done", "threw"} \/ (pc[r] = "append" /\ Len(log) = MaxLog))

\* What is committed is applied, although a command in between throws each time
\* it is run: lastApplied_ is incremented before applyCallback_ is called.
CommittedIsApplied == <>[](LockCycle \/ ~up \/ lastApplied >= commitIndex)
-----------------------------------------------------------------------------
(* Claims of the repository's documents and comments that the code breaks *)

\* submitCommand returns true only if the client's own command was executed
\* (raft_node.h: "whether the command was committed and executed").
SuccessMeansExecuted ==
    \A r \in Request : response[r] = "success" => result[r] = r

\* When entries are applied, every request that waits for them is notified.
WaitersAreNotified ==
    \A r \in Request : pc[r] = "wait" /\ index[r] <= lastApplied /\ mutex = Nobody => completed[r]

\* No thread that holds mutex_ waits for one that waits for mutex_.
NoLockCycle == ~LockCycle
=============================================================================
