---------------------------- MODULE ClientProofs -----------------------------
(***************************************************************************)
(* Client requests from both ends.                                         *)
(*                                                                         *)
(* At one node (ClientCommands), for any number of requests, log length    *)
(* and changes of leadership: who is found in the table of pending         *)
(* commands gets the result of its own index, and as long as the node      *)
(* leads, success means that the client's command was run.                 *)
(*                                                                         *)
(* At the client (CommandLine), for any file, command, number of calls,    *)
(* servers and retries: the file is read as it is written, what is typed   *)
(* is sent, calls are serialised and bounded, and the exit code is true.   *)
(***************************************************************************)
EXTENDS ClientCommands, CommandLine, DataProofs

USE CommandThreads, PoisonIsRequested, CommandBounds

Place == {"new", "submit", "append", "appended", "register", "done", "threw"} \cup Registered

\* The per-request variables are functions, and the log fits its bound.
Shape ==
    /\ pc \in [Request -> Place]
    /\ index \in [Request -> 0..MaxLog]
    /\ response \in [Request -> {"none", "not leader", "failed", "success", "error"}]
    /\ cmdMutex \in [Request -> Request \cup {Nobody}]
    /\ Len(log) <= MaxLog

\* A request that has not appended its command has no index.
Unindexed == \A r \in Request : pc[r] \in {"new", "submit", "append"} => index[r] = 0

\* The pending command that a thread has found is that of the entry it has just
\* applied, which did not throw; the thread still holds mutex_.
Targeted ==
    target # Nobody => /\ mutex # Nobody
                       /\ lastApplied >= 1 /\ index[target] = lastApplied
                       /\ executed[lastApplied] \notin Poison

\* Success is reported of completed commands, and those did not throw.
Completed ==
    \A r \in Request :
        /\ completed[r] => result[r] \notin Poison
        /\ response[r] = "success" => completed[r]

\* The node has led from the start: a cluster of one, or one without elections.
Steady == state = "LEADER" /\ elections = 0

\* Then no entry of the log was ever replaced: what was executed is in the log,
\* and so is each command that was appended.
NothingReplaced ==
    /\ lastApplied <= Len(log)
    /\ \A i \in 1..lastApplied : executed[i] = log[i]
    /\ \A r \in Request : index[r] # 0 => index[r] <= Len(log) /\ log[index[r]] = r

CommandIInv ==
    /\ TypeOK /\ Shape
    /\ PendingAreWaiting
    /\ ResultIsOfItsIndex
    /\ Unindexed
    /\ Targeted
    /\ Completed
    /\ singleNode => Steady
    /\ Steady => NothingReplaced
-----------------------------------------------------------------------------
\* The invariant holds at the start.
LEMMA CommandInit == Init => CommandIInv
  BY DEF Init, CommandIInv, TypeOK, Shape, Place, Registered, PendingAreWaiting, ResultIsOfItsIndex,
         Unindexed, Targeted, Completed, Steady, NothingReplaced, Index

Answers == {"none", "not leader", "failed", "success", "error"}
BeforeAppend == {"new", "submit", "append"}
Locked == {"timed out", "clean up"}

\* The thread of request r goes on to l, is told a, and holds its mutex from
\* the end of its wait to its answer.
Moved(r, l) == pc' \in [Request -> Place] /\ \A x \in Request : pc'[x] = IF x = r THEN l ELSE pc[x]
Told(r, a) == response' \in [Request -> Answers] /\ \A x \in Request : response'[x] = IF x = r THEN a ELSE response[x]
Holder(r, l) == IF l \in Locked THEN r ELSE Nobody
Holding(r, l) ==
    /\ cmdMutex' \in [Request -> Request \cup {Nobody}]
    /\ \A x \in Request : cmdMutex'[x] = IF x = r THEN Holder(r, l) ELSE cmdMutex[x]

\* Such a step, which touches neither the log nor what is applied nor an index.
LEMMA MovesOn ==
    ASSUME CommandIInv, NEW r \in Request, NEW l \in Place, NEW a \in Answers,
           UNCHANGED <<state, log, elections, singleNode, index, applyVars>>,
           commitIndex' \in 0..Len(log), up' \in BOOLEAN,
           Moved(r, l), Told(r, a), Holding(r, l),
           l \in BeforeAppend => pc[r] \in BeforeAppend,
           l \in {"appended", "register"} \cup Registered => index[r] \in 1..MaxLog,
           a = "success" => completed[r],
           mutex' \in Thread \cup {Nobody}, mutex' = Nobody => mutex = Nobody \/ target = Nobody,
           pending' \in [Index -> Request \cup {Nobody}], PendingAreWaiting'
    PROVE  CommandIInv'
<1> USE DEF CommandIInv, Moved, Told, Holding, Holder
<1>1. TypeOK'
  <2>1. /\ state' \in {"LEADER", "FOLLOWER"}
        /\ log' \in Seq(Request \cup {Foreign}) /\ executed' \in Seq(Request \cup {Foreign})
        /\ commitIndex' \in 0..Len(log') /\ lastApplied' = Len(executed')
        /\ pending' \in [Index -> Request \cup {Nobody}]
        /\ completed' \in [Request -> BOOLEAN]
        /\ result' \in [Request -> Request \cup {Foreign, Nobody}]
        /\ mutex' \in Thread \cup {Nobody} /\ target' \in Request \cup {Nobody}
        /\ elections' \in 0..MaxElections
    BY DEF TypeOK, applyVars
  <2>2. {singleNode', up'} \subseteq BOOLEAN
    BY DEF TypeOK
  <2>3. \A x \in Request : pc'[x] \in Place /\ response'[x] \in Answers
    OBVIOUS
  <2>4. \A x \in Request : pc'[x] \in {"appended", "register"} \cup Registered => index'[x] \in 1..MaxLog
    BY DEF TypeOK
  <2>5. \A x \in Request : cmdMutex'[x] = IF pc'[x] \in Locked THEN x ELSE Nobody
    BY DEF TypeOK, Locked
  <2> QED
    BY <2>1, <2>2, <2>3, <2>4, <2>5 DEF TypeOK, Place, Answers, Locked
<1>2. Shape'
  BY DEF Shape, Answers
<1>3. ResultIsOfItsIndex' /\ Targeted'
  BY DEF ResultIsOfItsIndex, Targeted, applyVars
<1>4. Unindexed'
  BY DEF Unindexed, BeforeAppend
<1>5. Completed'
  BY DEF Completed, applyVars
<1>6. (singleNode => Steady)' /\ (Steady => NothingReplaced)'
  BY DEF Steady, NothingReplaced, applyVars
<1> QED
  BY <1>1, <1>2, <1>3, <1>4, <1>5, <1>6

\* appendLogEntry: the command gets an index past all others.
LEMMA CommandAppends ==
    ASSUME CommandIInv, NEW r \in Request, AppendLogEntry(r), log' # log
    PROVE  CommandIInv'
<1>1. /\ pc[r] = "append" /\ mutex = Nobody /\ state = "LEADER" /\ Len(log) < MaxLog
      /\ log' = Append(log, r) /\ index' = [index EXCEPT ![r] = Len(log) + 1]
      /\ pc' = [pc EXCEPT ![r] = "appended"]
      /\ UNCHANGED <<state, commitIndex, elections, singleNode, up, applyVars, pending, response, mutex, cmdMutex>>
  BY DEF AppendLogEntry, Goto
<1>2. /\ TypeOK /\ Shape /\ PendingAreWaiting /\ ResultIsOfItsIndex /\ Unindexed /\ Targeted /\ Completed
      /\ singleNode => Steady
      /\ Steady => NothingReplaced
  BY DEF CommandIInv
<1>3. log \in Seq(Request \cup {Foreign}) /\ Len(log) \in Nat /\ lastApplied \in Nat /\ commitIndex \in 0..Len(log)
  <2>1. executed \in Seq(Request \cup {Foreign}) /\ log \in Seq(Request \cup {Foreign})
        /\ lastApplied = Len(executed) /\ commitIndex \in 0..Len(log)
    BY <1>2 DEF TypeOK
  <2> QED
    BY <2>1
<1>4. /\ log' \in Seq(Request \cup {Foreign}) /\ Len(log') = Len(log) + 1
      /\ log'[Len(log) + 1] = r /\ \A i \in 1..Len(log) : log'[i] = log[i]
  <2>1. r \in Request \cup {Foreign}
    OBVIOUS
  <2> QED
    BY <1>1, <1>3, <2>1, AppendProperties
<1>5. pc \in [Request -> Place] /\ index \in [Request -> 0..MaxLog] /\ Len(log) <= MaxLog
  BY <1>2 DEF Shape
<1>6. /\ pc' \in [Request -> Place] /\ index' \in [Request -> 0..MaxLog]
      /\ \A x \in Request : x # r => pc'[x] = pc[x] /\ index'[x] = index[x]
      /\ pc'[r] = "appended" /\ index'[r] = Len(log) + 1
  <2>1. "appended" \in Place /\ Len(log) + 1 \in 0..MaxLog
    BY <1>1, <1>3 DEF Place
  <2> QED
    BY <1>1, <1>5, <2>1
<1>7. index[r] = 0
  BY <1>1, <1>2 DEF Unindexed
<1>8. TypeOK'
  <2>1. /\ state' \in {"LEADER", "FOLLOWER"} /\ executed' \in Seq(Request \cup {Foreign})
        /\ lastApplied' = Len(executed')
        /\ pending' \in [Index -> Request \cup {Nobody}]
        /\ completed' \in [Request -> BOOLEAN]
        /\ result' \in [Request -> Request \cup {Foreign, Nobody}]
        /\ mutex' \in Thread \cup {Nobody} /\ target' \in Request \cup {Nobody}
        /\ elections' \in 0..MaxElections
    BY <1>1, <1>2 DEF TypeOK, applyVars
  <2>2. {singleNode', up'} \subseteq BOOLEAN
    BY <1>1, <1>2 DEF TypeOK
  <2>3. commitIndex' \in 0..Len(log')
    BY <1>1, <1>3, <1>4
  <2>4. \A x \in Request : pc'[x] \in Place
    BY <1>6
  <2>5. \A x \in Request : pc'[x] \in {"appended", "register"} \cup Registered => index'[x] \in 1..MaxLog
    <3>1. Len(log) + 1 \in 1..MaxLog
      BY <1>1, <1>3
    <3> QED
      BY <1>2, <1>6, <3>1 DEF TypeOK
  <2>6. \A x \in Request : /\ cmdMutex'[x] = IF pc'[x] \in {"timed out", "clean up"} THEN x ELSE Nobody
                           /\ response'[x] \in {"none", "not leader", "failed", "success", "error"}
    BY <1>1, <1>2, <1>6 DEF TypeOK
  <2> QED
    BY <1>4, <2>1, <2>2, <2>3, <2>4, <2>5, <2>6 DEF TypeOK, Place
<1>9. Shape'
  <2>1. Len(log') <= MaxLog
    BY <1>1, <1>3, <1>4
  <2> QED
    BY <1>1, <1>2, <1>6, <2>1 DEF Shape
<1>10. PendingAreWaiting'
  <2>1. \A i \in Index : pending[i] # Nobody => pending[i] \in Request /\ pending[i] # r
    <3>1. \A i \in Index : pending[i] # Nobody => pending[i] \in Request /\ index[pending[i]] = i /\ i # 0
      <4>1. pending \in [Index -> Request \cup {Nobody}] /\ \A i \in Index : i # 0
        <5>1. pending \in [Index -> Request \cup {Nobody}]
          BY <1>2 DEF TypeOK
        <5>2. \A i \in Index : i # 0
          BY DEF Index
        <5> QED
          BY <5>1, <5>2
      <4> QED
        BY <1>2, <4>1 DEF PendingAreWaiting
    <3> QED
      BY <1>7, <3>1
  <2> QED
    BY <1>1, <1>2, <1>6, <2>1 DEF PendingAreWaiting
<1>11. ResultIsOfItsIndex'
  <2>1. ~completed[r]
    BY <1>2, <1>7 DEF ResultIsOfItsIndex
  <2> QED
    BY <1>1, <1>2, <1>6, <2>1 DEF ResultIsOfItsIndex, applyVars
<1>12. Unindexed'
  BY <1>2, <1>6 DEF Unindexed
<1>13. Targeted' /\ Completed'
  BY <1>1, <1>2 DEF Targeted, Completed, applyVars
<1>14. (singleNode => Steady)'
  BY <1>1, <1>2 DEF Steady
<1>15. (Steady => NothingReplaced)'
  <2>1. Steady' <=> Steady
    BY <1>1 DEF Steady
  <2>2. ASSUME NothingReplaced PROVE NothingReplaced'
    BY <1>1, <1>3, <1>4, <1>5, <1>6, <2>2 DEF NothingReplaced, applyVars
  <2> QED
    BY <1>2, <2>1, <2>2
<1> QED
  BY <1>8, <1>9, <1>10, <1>11, <1>12, <1>13, <1>14, <1>15 DEF CommandIInv

\* A step of the thread of one request keeps it.
LEMMA RequestStepKeeps ==
    ASSUME CommandIInv, NEW r \in Request, RequestStep(r)
    PROVE  CommandIInv'
<1> USE DEF nodeVars, applyVars, Goto, Respond
<1>1. /\ pc \in [Request -> Place] /\ response \in [Request -> Answers]
      /\ cmdMutex \in [Request -> Request \cup {Nobody}] /\ index \in [Request -> 0..MaxLog]
      /\ pending \in [Index -> Request \cup {Nobody}] /\ PendingAreWaiting
      /\ mutex \in Thread \cup {Nobody} /\ commitIndex \in 0..Len(log) /\ up \in BOOLEAN
      /\ pc[r] \in {"appended", "register"} \cup Registered => index[r] \in 1..MaxLog
      /\ cmdMutex[r] = IF pc[r] \in Locked THEN r ELSE Nobody
  BY DEF CommandIInv, TypeOK, Shape, Answers, Locked
<1>2. ASSUME NEW l \in Place, Goto(r, l) PROVE Moved(r, l)
  BY <1>1, <1>2 DEF Moved
<1>3. ASSUME NEW a \in Answers, Respond(r, a) PROVE Moved(r, "done") /\ Told(r, a)
  BY <1>1, <1>3 DEF Place, Moved, Told
<1>4. UNCHANGED response => Told(r, response[r]) /\ response[r] \in Answers
  BY <1>1 DEF Told
<1>5. ASSUME NEW l \in Place, UNCHANGED cmdMutex, pc[r] \notin Locked, l \notin Locked PROVE Holding(r, l)
  BY <1>1, <1>5 DEF Holding, Holder
<1>6. response[r] = "success" => completed[r]
  BY DEF CommandIInv, Completed
<1>7. mutex = Nobody => target = Nobody
  BY DEF CommandIInv, Targeted
<1>8. ASSUME UNCHANGED <<pending, index>>, NEW l \in Place, Moved(r, l), pc[r] \notin Registered \cup {"threw"}
      PROVE  PendingAreWaiting'
  BY <1>1, <1>8 DEF PendingAreWaiting, Moved
<1>9. ASSUME NEW l \in Registered, Moved(r, l), UNCHANGED index, pending' \in [Index -> Request \cup {Nobody}],
             \A i \in Index : pending'[i] = pending[i] \/ (pending'[i] = r /\ index[r] = i)
      PROVE  PendingAreWaiting'
  <2> SUFFICES ASSUME NEW i \in Index, pending'[i] # Nobody
               PROVE  index'[pending'[i]] = i /\ pc'[pending'[i]] \in Registered \cup {"threw"}
    BY DEF PendingAreWaiting
  <2>1. CASE pending'[i] = r /\ index[r] = i
    BY <1>9, <2>1 DEF Moved
  <2>2. CASE pending'[i] = pending[i]
    <3>1. pending[i] \in Request /\ index[pending[i]] = i /\ pc[pending[i]] \in Registered \cup {"threw"}
      BY <1>1, <2>2 DEF PendingAreWaiting
    <3> QED
      BY <1>9, <2>2, <3>1 DEF Moved
  <2> QED
    BY <1>9, <2>1, <2>2
<1>10. ASSUME NEW l \in Place, NEW a \in Answers, Moved(r, l), Told(r, a),
             UNCHANGED <<state, log, elections, singleNode, up, applyVars, pending, index, cmdMutex, mutex>>,
             commitIndex' \in 0..Len(log), mutex = Nobody,
             pc[r] \notin Registered \cup {"threw"}, l \notin Locked,
             l \in BeforeAppend => pc[r] \in BeforeAppend,
             l \in {"appended", "register"} \cup Registered => index[r] \in 1..MaxLog,
             a = "success" => completed[r]
      PROVE  CommandIInv'
  <2>1. Holding(r, l)
    BY <1>5, <1>10 DEF Registered, Locked
  <2>2. PendingAreWaiting'
    BY <1>8, <1>10
  <2> QED
    BY <1>1, <1>10, <2>1, <2>2, MovesOn
<1>11. CASE HandleRequest(r)
  <2>1. CASE Goto(r, "submit") /\ UNCHANGED response
    <3>1. Moved(r, "submit") /\ "submit" \in Place
      BY <1>2, <2>1 DEF Place
    <3> QED
      BY <1>1, <1>4, <1>6, <1>10, <1>11, <2>1, <3>1 DEF HandleRequest, Locked, Registered, BeforeAppend
  <2>2. CASE Respond(r, "not leader")
    <3>1. Moved(r, "done") /\ Told(r, "not leader") /\ "done" \in Place /\ "not leader" \in Answers
      BY <1>3, <2>2 DEF Place, Answers
    <3> QED
      BY <1>1, <1>10, <1>11, <3>1 DEF HandleRequest, Locked, Registered, BeforeAppend
  <2> QED
    BY <1>11, <2>1, <2>2 DEF HandleRequest
<1>12. CASE CheckLeader(r)
  <2>1. CASE Goto(r, "append") /\ UNCHANGED response
    <3>1. Moved(r, "append") /\ "append" \in Place
      BY <1>2, <2>1 DEF Place
    <3> QED
      BY <1>1, <1>4, <1>6, <1>10, <1>12, <2>1, <3>1 DEF CheckLeader, Locked, Registered, BeforeAppend
  <2>2. CASE Respond(r, "failed")
    <3>1. Moved(r, "done") /\ Told(r, "failed") /\ "done" \in Place /\ "failed" \in Answers
      BY <1>3, <2>2 DEF Place, Answers
    <3> QED
      BY <1>1, <1>10, <1>12, <3>1 DEF CheckLeader, Locked, Registered, BeforeAppend
  <2> QED
    BY <1>12, <2>1, <2>2 DEF CheckLeader
<1>13. CASE AppendLogEntry(r)
  <2>1. CASE /\ Len(log) < MaxLog /\ state = "LEADER"
             /\ log' = Append(log, r) /\ index' = [index EXCEPT ![r] = Len(log) + 1]
             /\ Goto(r, "appended") /\ UNCHANGED response
    BY <1>13, <2>1, CommandAppends
  <2>2. CASE Respond(r, "failed") /\ UNCHANGED <<log, index>>
    <3>1. Moved(r, "done") /\ Told(r, "failed") /\ "done" \in Place /\ "failed" \in Answers
      BY <1>3, <2>2 DEF Place, Answers
    <3> QED
      BY <1>1, <1>10, <1>13, <2>2, <3>1 DEF AppendLogEntry, Locked, Registered, BeforeAppend
  <2> QED
    BY <1>13, <2>1, <2>2 DEF AppendLogEntry
<1>14. CASE CheckSingleNode(r)
  <2>1. Moved(r, "register") /\ "register" \in Place
    BY <1>2, <1>14 DEF CheckSingleNode, Place
  <2>2. commitIndex' \in 0..Len(log)
    <3>1. singleNode => index[r] <= Len(log)
      BY <1>1, <1>14 DEF CheckSingleNode, CommandIInv, NothingReplaced
    <3> QED
      BY <1>1, <1>14, <3>1 DEF CheckSingleNode
  <2> QED
    BY <1>1, <1>4, <1>6, <1>10, <1>14, <2>1, <2>2 DEF CheckSingleNode, Locked, Registered, BeforeAppend
<1>15. CASE RegisterPending(r)
  <2>1. PICK l \in {"apply", "wait"} : Goto(r, l)
    BY <1>15 DEF RegisterPending
  <2>2. Moved(r, l) /\ l \in Place
    BY <1>2, <2>1 DEF Place, Registered
  <2>3. Holding(r, l)
    BY <1>1, <1>5, <1>15, <2>2 DEF RegisterPending, Locked
  <2>4. index[r] \in Index
    BY <1>1, <1>15 DEF RegisterPending, Index
  <2>5. PendingAreWaiting'
    BY <1>1, <1>15, <1>9, <2>1, <2>2, <2>4 DEF RegisterPending, Registered
  <2> QED
    BY <1>1, <1>4, <1>6, <1>15, <2>1, <2>2, <2>3, <2>4, <2>5, MovesOn DEF RegisterPending, Registered, BeforeAppend
<1>16. CASE WaitEnds(r)
  <2>1. PICK l \in {"clean up", "timed out"} : Goto(r, l)
    BY <1>16 DEF WaitEnds
  <2>2. Moved(r, l) /\ l \in Place
    BY <1>2, <2>1 DEF Place, Registered
  <2>3. Holding(r, l)
    BY <1>1, <1>16, <2>1 DEF WaitEnds, Locked, Holding, Holder
  <2>4. PendingAreWaiting'
    BY <1>1, <1>16, <1>9, <2>1, <2>2 DEF WaitEnds, Registered
  <2> QED
    BY <1>1, <1>4, <1>6, <1>16, <2>1, <2>2, <2>3, <2>4, MovesOn DEF WaitEnds, Registered, BeforeAppend
<1>17. CASE ReportTimeout(r)
  <2>1. Moved(r, "clean up") /\ "clean up" \in Place
    BY <1>2, <1>17 DEF ReportTimeout, Place, Registered
  <2>2. Holding(r, "clean up")
    BY <1>1, <1>17 DEF ReportTimeout, Locked, Holding, Holder
  <2>3. PendingAreWaiting'
    BY <1>1, <1>17, <1>9, <2>1 DEF ReportTimeout, Registered
  <2> QED
    BY <1>1, <1>4, <1>6, <1>17, <2>1, <2>2, <2>3, MovesOn DEF ReportTimeout, Registered, BeforeAppend
<1>18. CASE CleanUp(r)
  <2>1. PICK a \in {"success", "failed"} : Respond(r, a) /\ (a = "success" => completed[r])
    BY <1>18 DEF CleanUp
  <2>2. Moved(r, "done") /\ Told(r, a) /\ "done" \in Place /\ a \in Answers
    BY <1>3, <2>1 DEF Place, Answers
  <2>3. Holding(r, "done")
    BY <1>1, <1>18 DEF CleanUp, Locked, Holding, Holder
  <2>4. index[r] \in Index
    BY <1>1, <1>18 DEF CleanUp, Index, Registered
  <2>5. PendingAreWaiting'
    <3> SUFFICES ASSUME NEW i \in Index, pending'[i] # Nobody
                 PROVE  index'[pending'[i]] = i /\ pc'[pending'[i]] \in Registered \cup {"threw"}
      BY DEF PendingAreWaiting
    <3>1. i # index[r] /\ pending'[i] = pending[i]
      BY <1>1, <1>18, <2>4 DEF CleanUp
    <3>2. pending[i] \in Request /\ index[pending[i]] = i /\ pc[pending[i]] \in Registered \cup {"threw"}
      BY <1>1, <3>1 DEF PendingAreWaiting
    <3>3. pending[i] # r
      BY <3>1, <3>2
    <3> QED
      BY <1>18, <2>2, <3>1, <3>2, <3>3 DEF CleanUp, Moved
  <2> QED
    BY <1>1, <1>18, <2>1, <2>2, <2>3, <2>4, <2>5, MovesOn DEF CleanUp, Registered, BeforeAppend
<1> QED
  BY <1>11, <1>12, <1>13, <1>14, <1>15, <1>16, <1>17, <1>18 DEF RequestStep

\* One turn of the loop of applyCommittedEntries: the entry counts as executed.
LEMMA OneApplied ==
    ASSUME CommandIInv, lastApplied < commitIndex, lastApplied' = lastApplied + 1,
           executed' = Append(executed, log[lastApplied + 1]),
           UNCHANGED <<state, log, elections, index, completed, result>>
    PROVE  /\ executed' \in Seq(Request \cup {Foreign}) /\ lastApplied' = Len(executed')
           /\ lastApplied \in Nat /\ lastApplied + 1 \in Index
           /\ executed'[lastApplied + 1] = log[lastApplied + 1]
           /\ ResultIsOfItsIndex'
           /\ (Steady => NothingReplaced)'
<1>1. /\ log \in Seq(Request \cup {Foreign}) /\ executed \in Seq(Request \cup {Foreign})
      /\ commitIndex \in 0..Len(log) /\ lastApplied = Len(executed)
      /\ ResultIsOfItsIndex /\ Len(log) <= MaxLog
      /\ Steady => NothingReplaced
  BY DEF CommandIInv, TypeOK, Shape
<1>2. lastApplied \in Nat /\ Len(log) \in Nat /\ lastApplied + 1 \in 1..Len(log)
  BY <1>1
<1>3. log[lastApplied + 1] \in Request \cup {Foreign}
  BY <1>1, <1>2
<1>4. /\ executed' \in Seq(Request \cup {Foreign}) /\ Len(executed') = lastApplied + 1
      /\ executed'[lastApplied + 1] = log[lastApplied + 1]
      /\ \A i \in 1..lastApplied : executed'[i] = executed[i]
  BY <1>1, <1>3, AppendProperties
<1>5. ResultIsOfItsIndex'
  <2> SUFFICES ASSUME NEW r \in Request, completed[r]
               PROVE  index[r] \in 1..lastApplied + 1 /\ result[r] = executed'[index[r]]
    BY DEF ResultIsOfItsIndex
  <2>1. index[r] \in 1..lastApplied /\ result[r] = executed[index[r]]
    BY <1>1 DEF ResultIsOfItsIndex
  <2> QED
    BY <1>2, <1>4, <2>1
<1>6. ASSUME NothingReplaced PROVE NothingReplaced'
  BY <1>1, <1>2, <1>4, <1>6 DEF NothingReplaced
<1>7. Steady' <=> Steady
  BY DEF Steady
<1> QED
  BY <1>1, <1>2, <1>4, <1>5, <1>6, <1>7 DEF Index

\* So does a step of the applying thread.
LEMMA ApplyStepKeeps ==
    ASSUME CommandIInv, NEW t \in Thread, ApplyStep(t)
    PROVE  CommandIInv'
<1>1. /\ TypeOK /\ Shape /\ PendingAreWaiting /\ ResultIsOfItsIndex /\ Unindexed /\ Targeted /\ Completed
      /\ singleNode => Steady
      /\ Steady => NothingReplaced
  BY DEF CommandIInv
<1>2. t # Nobody
  BY DEF Thread
<1>3. CASE LockToApply(t)
  <2>1. /\ mutex = Nobody /\ mutex' = t
        /\ UNCHANGED <<nodeVars, applyVars, pending, pc, index, response, cmdMutex>>
    BY <1>3 DEF LockToApply
  <2>2. TypeOK'
    BY <1>1, <2>1 DEF TypeOK, nodeVars, applyVars
  <2>3. Shape' /\ PendingAreWaiting' /\ ResultIsOfItsIndex' /\ Unindexed' /\ Completed'
    BY <1>1, <2>1 DEF Shape, PendingAreWaiting, ResultIsOfItsIndex, Unindexed, Completed, nodeVars, applyVars
  <2>4. Targeted'
    BY <1>1, <2>1 DEF Targeted, applyVars
  <2>5. (singleNode => Steady)' /\ (Steady => NothingReplaced)'
    BY <1>1, <2>1 DEF Steady, NothingReplaced, nodeVars, applyVars
  <2> QED
    BY <2>2, <2>3, <2>4, <2>5 DEF CommandIInv
<1>4. CASE ApplyEntry(t)
  <2>1. /\ mutex = t /\ lastApplied < commitIndex /\ log[lastApplied + 1] \notin Poison
        /\ lastApplied' = lastApplied + 1 /\ executed' = Append(executed, log[lastApplied + 1])
        /\ target' = pending[lastApplied + 1]
        /\ UNCHANGED <<nodeVars, completed, result, pending, pc, index, response, mutex, cmdMutex>>
    BY <1>4 DEF ApplyEntry
  <2>2. /\ executed' \in Seq(Request \cup {Foreign}) /\ lastApplied' = Len(executed')
        /\ lastApplied \in Nat /\ lastApplied + 1 \in Index
        /\ executed'[lastApplied + 1] = log[lastApplied + 1]
        /\ ResultIsOfItsIndex' /\ (Steady => NothingReplaced)'
    BY <2>1, OneApplied DEF nodeVars
  <2>3. target' \in Request \cup {Nobody}
    BY <1>1, <2>1, <2>2 DEF TypeOK
  <2>4. TypeOK'
    BY <1>1, <2>1, <2>2, <2>3 DEF TypeOK, nodeVars
  <2>5. Shape' /\ PendingAreWaiting' /\ Unindexed' /\ Completed'
    BY <1>1, <2>1 DEF Shape, PendingAreWaiting, Unindexed, Completed, nodeVars
  <2>6. Targeted'
    BY <1>1, <1>2, <2>1, <2>2 DEF Targeted, PendingAreWaiting
  <2>7. (singleNode => Steady)'
    BY <1>1, <2>1 DEF Steady, nodeVars
  <2> QED
    BY <2>2, <2>4, <2>5, <2>6, <2>7 DEF CommandIInv
<1>5. CASE ThrowInApply(t)
  <2>1. /\ target = Nobody /\ lastApplied < commitIndex
        /\ lastApplied' = lastApplied + 1 /\ executed' = Append(executed, log[lastApplied + 1])
        /\ mutex' = Nobody
        /\ UNCHANGED <<state, log, commitIndex, elections, singleNode, completed, result, target, pending, index, cmdMutex>>
    BY <1>5 DEF ThrowInApply, Unwind
  <2>2. /\ executed' \in Seq(Request \cup {Foreign}) /\ lastApplied' = Len(executed')
        /\ ResultIsOfItsIndex' /\ (Steady => NothingReplaced)'
    BY <2>1, OneApplied
  <2>3. up' \in BOOLEAN /\ \/ UNCHANGED <<pc, response>>
                           \/ /\ t \in Request /\ pc[t] = "apply"
                              /\ pc' = [pc EXCEPT ![t] = "threw"] /\ response' = [response EXCEPT ![t] = "error"]
    BY <1>1, <1>5 DEF ThrowInApply, Unwind, MayApply, Goto, Thread, TypeOK
  <2>4. /\ pc' \in [Request -> Place] /\ response' \in [Request -> Answers]
        /\ \A x \in Request : \/ pc'[x] = pc[x] /\ response'[x] = response[x]
                              \/ pc[x] = "apply" /\ pc'[x] = "threw" /\ response'[x] = "error"
    <3>1. pc \in [Request -> Place] /\ response \in [Request -> Answers]
          /\ "threw" \in Place /\ "error" \in Answers
      BY <1>1 DEF Shape, Place, Answers
    <3>2. CASE UNCHANGED <<pc, response>>
      BY <3>1, <3>2
    <3>3. CASE /\ t \in Request /\ pc[t] = "apply"
               /\ pc' = [pc EXCEPT ![t] = "threw"] /\ response' = [response EXCEPT ![t] = "error"]
      BY <3>1, <3>3
    <3> QED
      BY <2>3, <3>2, <3>3
  <2>5. TypeOK'
    <3>1. {singleNode', up'} \subseteq BOOLEAN
      BY <1>1, <2>1, <2>3 DEF TypeOK
    <3>2. \A x \in Request :
            /\ pc'[x] \in Place /\ response'[x] \in Answers
            /\ pc'[x] \in {"appended", "register"} \cup Registered => index'[x] \in 1..MaxLog
            /\ cmdMutex'[x] = IF pc'[x] \in {"timed out", "clean up"} THEN x ELSE Nobody
      BY <1>1, <2>1, <2>4 DEF TypeOK, Registered
    <3> QED
      BY <1>1, <2>1, <2>2, <3>1, <3>2 DEF TypeOK, Place, Answers
  <2>6. Shape'
    BY <1>1, <2>1, <2>4 DEF Shape, Answers
  <2>7. PendingAreWaiting'
    <3>1. pending \in [Index -> Request \cup {Nobody}]
      BY <1>1 DEF TypeOK
    <3>2. \A x \in Request : pc[x] \in Registered \cup {"threw"} => pc'[x] \in Registered \cup {"threw"}
      BY <2>4
    <3> QED
      BY <1>1, <2>1, <3>1, <3>2 DEF PendingAreWaiting
  <2>8. Unindexed' /\ Completed'
    BY <1>1, <2>1, <2>4 DEF Unindexed, Completed
  <2>9. Targeted'
    BY <2>1 DEF Targeted
  <2>10. (singleNode => Steady)'
    BY <1>1, <2>1 DEF Steady
  <2> QED
    BY <2>2, <2>5, <2>6, <2>7, <2>8, <2>9, <2>10 DEF CommandIInv
<1>6. CASE NotifyPending(t)
  <2>1. /\ target \in Request
        /\ completed' = [completed EXCEPT ![target] = TRUE]
        /\ result' = [result EXCEPT ![target] = executed[lastApplied]]
        /\ target' = Nobody
        /\ UNCHANGED <<nodeVars, lastApplied, executed, pending, pc, index, response, mutex, cmdMutex>>
    BY <1>1, <1>6 DEF NotifyPending, TypeOK
  <2>2. lastApplied >= 1 /\ index[target] = lastApplied /\ executed[lastApplied] \notin Poison
    BY <1>1, <1>6 DEF NotifyPending, Targeted
  <2>3. executed[lastApplied] \in Request \cup {Foreign, Nobody} /\ lastApplied \in Nat
    <3>1. executed \in Seq(Request \cup {Foreign}) /\ lastApplied = Len(executed)
      BY <1>1 DEF TypeOK
    <3> QED
      BY <2>2, <3>1
  <2>4. /\ completed' \in [Request -> BOOLEAN] /\ result' \in [Request -> Request \cup {Foreign, Nobody}]
        /\ completed'[target] /\ result'[target] = executed[lastApplied]
        /\ \A x \in Request : x # target => completed'[x] = completed[x] /\ result'[x] = result[x]
    BY <1>1, <2>1, <2>3 DEF TypeOK
  <2>5. TypeOK'
    BY <1>1, <2>1, <2>4 DEF TypeOK, nodeVars
  <2>6. Shape' /\ PendingAreWaiting' /\ Unindexed' /\ Targeted'
    BY <1>1, <2>1 DEF Shape, PendingAreWaiting, Unindexed, Targeted, nodeVars
  <2>7. ResultIsOfItsIndex'
    BY <1>1, <2>1, <2>2, <2>3, <2>4 DEF ResultIsOfItsIndex
  <2>8. Completed'
    BY <1>1, <2>1, <2>2, <2>4 DEF Completed
  <2>9. (singleNode => Steady)' /\ (Steady => NothingReplaced)'
    BY <1>1, <2>1 DEF Steady, NothingReplaced, nodeVars
  <2> QED
    BY <2>5, <2>6, <2>7, <2>8, <2>9 DEF CommandIInv
<1>7. CASE UnlockAfterApply(t)
  <2>1. /\ target = Nobody /\ mutex' = Nobody
        /\ UNCHANGED <<nodeVars, applyVars, pending, index, response, cmdMutex>>
    BY <1>7 DEF UnlockAfterApply
  <2>2. CASE t \in Request
    <3>1. pc[t] = "apply" /\ pc' = [pc EXCEPT ![t] = "wait"]
      BY <1>7, <2>2 DEF UnlockAfterApply, MayApply, Goto
    <3>2. "wait" \in Place /\ response[t] \in Answers /\ index[t] \in 1..MaxLog
      BY <1>1, <2>2, <3>1 DEF Place, Registered, Shape, Answers, TypeOK
    <3>3. Moved(t, "wait") /\ Told(t, response[t])
      BY <1>1, <2>1, <2>2, <3>1, <3>2 DEF Moved, Told, Shape, Answers
    <3>4. Holding(t, "wait")
      BY <1>1, <2>1, <2>2, <3>1 DEF Holding, Holder, Locked, Shape, TypeOK
    <3>5. PendingAreWaiting'
      <4>1. pending \in [Index -> Request \cup {Nobody}]
        BY <1>1 DEF TypeOK
      <4>2. \A x \in Request : pc[x] \in Registered \cup {"threw"} => pc'[x] \in Registered \cup {"threw"}
        BY <3>3 DEF Moved, Registered
      <4> QED
        BY <1>1, <2>1, <4>1, <4>2 DEF PendingAreWaiting
    <3>6. /\ commitIndex' \in 0..Len(log) /\ up' \in BOOLEAN
          /\ pending' \in [Index -> Request \cup {Nobody}]
          /\ response[t] = "success" => completed[t]
      BY <1>1, <2>1, <2>2 DEF TypeOK, nodeVars, Completed
    <3> QED
      BY <2>1, <2>2, <3>2, <3>3, <3>4, <3>5, <3>6, MovesOn DEF nodeVars, BeforeAppend
  <2>3. CASE UNCHANGED pc
    <3>1. TypeOK'
      BY <1>1, <2>1, <2>3 DEF TypeOK, nodeVars, applyVars
    <3>2. Shape' /\ PendingAreWaiting' /\ ResultIsOfItsIndex' /\ Unindexed' /\ Completed' /\ Targeted'
      BY <1>1, <2>1, <2>3
         DEF Shape, PendingAreWaiting, ResultIsOfItsIndex, Unindexed, Completed, Targeted, nodeVars, applyVars
    <3>3. (singleNode => Steady)' /\ (Steady => NothingReplaced)'
      BY <1>1, <2>1 DEF Steady, NothingReplaced, nodeVars, applyVars
    <3> QED
      BY <3>1, <3>2, <3>3 DEF CommandIInv
  <2> QED
    BY <1>7, <2>2, <2>3 DEF UnlockAfterApply, Thread
<1> QED
  BY <1>3, <1>4, <1>5, <1>6, <1>7 DEF ApplyStep

\* The rest of the cluster: commit index, leadership, entries of another leader.
LEMMA ClusterStepKeeps ==
    ASSUME CommandIInv,
           AdvanceCommitIndex \/ StepDown \/ BecomeLeader \/ (\E k \in 0..MaxLog : ReplaceEntries(k))
    PROVE  CommandIInv'
<1>1. /\ TypeOK /\ Shape /\ PendingAreWaiting /\ ResultIsOfItsIndex /\ Unindexed /\ Targeted /\ Completed
      /\ singleNode => Steady
      /\ Steady => NothingReplaced
  BY DEF CommandIInv
<1>2. /\ mutex = Nobody
      /\ UNCHANGED <<singleNode, up, applyVars, pending, pc, index, response, mutex, cmdMutex>>
  BY DEF AdvanceCommitIndex, StepDown, BecomeLeader, ReplaceEntries
<1>3. PendingAreWaiting' /\ ResultIsOfItsIndex' /\ Unindexed' /\ Targeted' /\ Completed'
  BY <1>1, <1>2 DEF PendingAreWaiting, ResultIsOfItsIndex, Unindexed, Targeted, Completed, applyVars
<1>4. /\ state' \in {"LEADER", "FOLLOWER"} /\ elections' \in 0..MaxElections
      /\ log' \in Seq(Request \cup {Foreign}) /\ commitIndex' \in 0..Len(log') /\ Len(log') <= MaxLog
  <2>1. /\ state \in {"LEADER", "FOLLOWER"} /\ elections \in 0..MaxElections
        /\ log \in Seq(Request \cup {Foreign}) /\ commitIndex \in 0..Len(log) /\ Len(log) <= MaxLog
        /\ Len(log) \in Nat
    <3>1. /\ state \in {"LEADER", "FOLLOWER"} /\ elections \in 0..MaxElections
          /\ log \in Seq(Request \cup {Foreign}) /\ commitIndex \in 0..Len(log)
      BY <1>1 DEF TypeOK
    <3>2. Len(log) \in Nat
      BY <3>1
    <3>3. Len(log) <= MaxLog
      BY <1>1 DEF Shape
    <3> QED
      BY <3>1, <3>2, <3>3
  <2>2. CASE AdvanceCommitIndex
    BY <2>1, <2>2 DEF AdvanceCommitIndex
  <2>3. CASE StepDown
    BY <2>1, <2>3 DEF StepDown
  <2>4. CASE BecomeLeader
    BY <2>1, <2>4 DEF BecomeLeader
  <2>5. ASSUME NEW k \in 0..MaxLog, ReplaceEntries(k)
        PROVE  /\ state' \in {"LEADER", "FOLLOWER"} /\ elections' \in 0..MaxElections
               /\ log' \in Seq(Request \cup {Foreign}) /\ commitIndex' \in 0..Len(log') /\ Len(log') <= MaxLog
    <3>1. /\ k \in commitIndex..Len(log) /\ k < MaxLog /\ log' = Append(SubSeq(log, 1, k), Foreign)
          /\ UNCHANGED <<state, commitIndex, elections>>
      BY <2>5 DEF ReplaceEntries
    <3>2. SubSeq(log, 1, k) \in Seq(Request \cup {Foreign}) /\ Len(SubSeq(log, 1, k)) = k /\ k \in Nat
      BY <2>1, <3>1, SubSeqProperties
    <3>3. Foreign \in Request \cup {Foreign}
      OBVIOUS
    <3>4. log' \in Seq(Request \cup {Foreign}) /\ Len(log') = k + 1
      BY <3>1, <3>2, <3>3, AppendProperties
    <3> QED
      BY <2>1, <3>1, <3>2, <3>4
  <2> QED
    BY <2>2, <2>3, <2>4, <2>5
<1>5. TypeOK'
  BY <1>1, <1>2, <1>4 DEF TypeOK, applyVars
<1>6. Shape'
  BY <1>1, <1>2, <1>4 DEF Shape
<1>7. Steady' => Steady /\ UNCHANGED log
  <2>1. elections \in 0..MaxElections
    BY <1>1 DEF TypeOK
  <2> QED
    BY <2>1 DEF Steady, AdvanceCommitIndex, StepDown, BecomeLeader, ReplaceEntries
<1>8. (Steady => NothingReplaced)'
  BY <1>1, <1>2, <1>7 DEF NothingReplaced, applyVars
<1>9. (singleNode => Steady)'
  BY <1>1, <1>2 DEF Steady, AdvanceCommitIndex, StepDown, BecomeLeader, ReplaceEntries
<1> QED
  BY <1>3, <1>5, <1>6, <1>8, <1>9 DEF CommandIInv

\* And so every step.
LEMMA CommandStep == CommandIInv /\ [Next]_vars => CommandIInv'
<1> SUFFICES ASSUME CommandIInv, [Next]_vars PROVE CommandIInv'
  OBVIOUS
<1>1. CASE Next
  BY <1>1, RequestStepKeeps, ApplyStepKeeps, ClusterStepKeeps DEF Next
<1>2. CASE UNCHANGED vars
  <2>1. UNCHANGED <<nodeVars, applyVars, pending, pc, index, response, mutex, cmdMutex>>
    BY <1>2 DEF vars
  <2>2. TypeOK' <=> TypeOK
    BY <2>1 DEF TypeOK, nodeVars, applyVars
  <2> QED
    BY <2>1, <2>2 DEF CommandIInv, Shape, PendingAreWaiting, ResultIsOfItsIndex, Unindexed, Targeted,
                      Completed, Steady, NothingReplaced, nodeVars, applyVars
<1> QED
  BY <1>1, <1>2
-----------------------------------------------------------------------------
(* What the runs check *)

\* The inductive invariant holds (submitCommand, applyCommittedEntriesInternal).
THEOREM CommandInvariant == Spec => []CommandIInv
  BY CommandInit, CommandStep, PTL DEF Spec

\* For any number of requests and changes of leadership: who is in the table of
\* pending commands still waits under its own index, and who is notified is given
\* the result of its own index (submitCommand, applyCommittedEntriesInternal).
THEOREM PendingCorrect == Spec => []PendingInv
<1>1. CommandIInv => PendingInv
  BY DEF CommandIInv, PendingInv
<1> QED
  BY <1>1, CommandInvariant, PTL

\* For the same: as long as the node leads, a client that is told of success had
\* its own command executed (HandleRequest, submitCommand).
THEOREM SuccessIsTruthful == Spec => []TruthfulWhileLeading
<1>1. CommandIInv => TruthfulWhileLeading
  <2> SUFFICES ASSUME CommandIInv, Steady, NEW r \in Request, response[r] = "success"
               PROVE  r \notin Poison /\ result[r] = r /\ \E i \in DOMAIN executed : executed[i] = r
    BY DEF TruthfulWhileLeading, Steady
  <2>1. completed[r] /\ result[r] \notin Poison
    BY DEF CommandIInv, Completed
  <2>2. index[r] \in 1..lastApplied /\ result[r] = executed[index[r]]
    BY <2>1 DEF CommandIInv, ResultIsOfItsIndex
  <2>3. executed[index[r]] = log[index[r]] /\ log[index[r]] = r
    BY <2>2 DEF CommandIInv, NothingReplaced
  <2>4. index[r] \in DOMAIN executed
    <3>1. executed \in Seq(Request \cup {Foreign}) /\ lastApplied = Len(executed)
      BY DEF CommandIInv, TypeOK
    <3> QED
      BY <2>2, <3>1
  <2> QED
    BY <2>1, <2>2, <2>3, <2>4
<1> QED
  BY <1>1, CommandInvariant, PTL
-----------------------------------------------------------------------------
(* Reading the configuration, line by line *)

\* The greatest of a set of lines.
Greatest(S) == CHOOSE j \in S : \A m \in S : m <= j

\* A set of line numbers that is not empty has a greatest.
LEMMA GreatestOf ==
    ASSUME NEW n \in Nat, NEW S \in SUBSET (1..n), S # {}
    PROVE  Greatest(S) \in S /\ \A m \in S : m <= Greatest(S)
<1>1. S \in SUBSET Nat /\ \A x \in S : x <= n
  OBVIOUS
<1>2. Max(S) \in S /\ \A x \in S : Max(S) >= x
  BY <1>1, MaxOfNaturals
<1>3. \E j \in S : \A m \in S : m <= j
  BY <1>1, <1>2
<1> QED
  BY <1>3, Zenon DEF Greatest

\* It is the one that no other exceeds.
LEMMA GreatestIs ==
    ASSUME NEW S \in SUBSET Nat, NEW j \in S, \A m \in S : m <= j
    PROVE  Greatest(S) = j
<1>1. \E k \in S : \A m \in S : m <= k
  OBVIOUS
<1>2. Greatest(S) \in S /\ \A m \in S : m <= Greatest(S)
  BY <1>1, Zenon DEF Greatest
<1>3. PICK g \in S : Greatest(S) = g /\ \A m \in S : m <= g
  BY <1>2
<1>4. g <= j /\ j <= g /\ g \in Nat /\ j \in Nat
  BY <1>3
<1> QED
  BY <1>3, <1>4

\* The section lines before line i, the lines of a key in a section, the sections of a node.
Sections(L, i) == {j \in 1..i - 1 : L[j].kind \in {"section", "node"}}
Found(L, j, key) == {i \in DOMAIN L : L[i].kind = "pair" /\ Above(L, i) = j /\ L[i].key = key}
NodeSections(L, n) == {j \in DOMAIN L : L[j].kind = "node" /\ L[j].id = n}

\* The section that a next line would be in.
Here(L) == Above(L, Len(L) + 1)

\* The lines are such as loadFromFile tells apart.
LEMMA Lines ==
    ASSUME NEW l \in Line
    PROVE  \/ l.kind = "skip"
           \/ l.kind = "section" /\ l.name \in {"cluster", "raft"}
           \/ l.kind = "node" /\ l.id \in NodeId \cup {Bad}
           \/ l.kind = "pair" /\ l.value \in Int /\ (l.key \in {"host", "data_dir"} => l.value # Bad)
BY DEF Line, Skip, Section, NodeSection, Pair, NodeId, Bad

\* The section that a line is under is the last one before it.
LEMMA AboveUnfolds ==
    ASSUME NEW L, NEW i
    PROVE  Above(L, i) = IF Sections(L, i) = {} THEN 0 ELSE Greatest(Sections(L, i))
BY Zenon DEF Above, Sections, Greatest

\* It is before the line, and no section is between them.
LEMMA AboveIsBefore ==
    ASSUME NEW L \in Seq(Line), NEW i \in 1..Len(L) + 1
    PROVE  /\ Above(L, i) \in 0..i - 1
           /\ Above(L, i) = 0 => Sections(L, i) = {}
           /\ Above(L, i) # 0 => Above(L, i) \in Sections(L, i) /\ \A m \in Sections(L, i) : m <= Above(L, i)
<1>1. Sections(L, i) \in SUBSET (1..i - 1) /\ i - 1 \in Nat
  BY DEF Sections
<1>2. CASE Sections(L, i) = {}
  BY <1>1, <1>2, AboveUnfolds
<1>3. CASE Sections(L, i) # {}
  <2>1. Above(L, i) = Greatest(Sections(L, i))
    BY <1>3, AboveUnfolds
  <2>2. Greatest(Sections(L, i)) \in Sections(L, i) /\ \A m \in Sections(L, i) : m <= Greatest(Sections(L, i))
    BY <1>1, <1>3, GreatestOf
  <2> QED
    BY <1>1, <2>1, <2>2
<1> QED
  BY <1>2, <1>3

\* The value of a key in a section is that of its last line there.
LEMMA LastValueUnfolds ==
    ASSUME NEW L, NEW j, NEW key, NEW default
    PROVE  LastValue(L, j, key, default) =
             IF Found(L, j, key) = {} THEN default ELSE L[Greatest(Found(L, j, key))].value
BY Zenon DEF LastValue, Found, Greatest

\* One more line leaves what the lines before it say.
LEMMA LineAppended ==
    ASSUME NEW L \in Seq(Line), NEW l \in Line
    PROVE  LET K == Append(L, l) IN
           /\ K \in Seq(Line) /\ Len(K) = Len(L) + 1 /\ K[Len(L) + 1] = l
           /\ DOMAIN L = 1..Len(L) /\ DOMAIN K = 1..Len(L) + 1 /\ \A i \in DOMAIN L : K[i] = L[i]
OBVIOUS

\* The lines before stay in their sections.
LEMMA AboveAppended ==
    ASSUME NEW L \in Seq(Line), NEW l \in Line
    PROVE  /\ \A i \in 1..Len(L) + 1 : Above(Append(L, l), i) = Above(L, i)
           /\ Here(Append(L, l)) = IF l.kind \in {"section", "node"} THEN Len(L) + 1 ELSE Here(L)
<1> DEFINE K == Append(L, l)
<1>1. /\ K \in Seq(Line) /\ Len(K) = Len(L) + 1 /\ K[Len(L) + 1] = l /\ Len(L) \in Nat
      /\ DOMAIN L = 1..Len(L) /\ \A i \in 1..Len(L) : K[i] = L[i]
  BY LineAppended
<1> HIDE DEF K
<1>2. \A i \in 1..Len(L) + 1 : Sections(K, i) = Sections(L, i)
  BY <1>1 DEF Sections
<1>3. \A i \in 1..Len(L) + 1 : Above(K, i) = Above(L, i)
  BY <1>2, AboveUnfolds
<1>4. CASE l.kind \in {"section", "node"}
  <2>1. /\ Sections(K, Len(K) + 1) \in SUBSET Nat
        /\ Len(L) + 1 \in Sections(K, Len(K) + 1)
        /\ \A m \in Sections(K, Len(K) + 1) : m <= Len(L) + 1
    BY <1>1, <1>4 DEF Sections
  <2>2. Greatest(Sections(K, Len(K) + 1)) = Len(L) + 1
    BY <2>1, GreatestIs
  <2> QED
    BY <1>3, <1>4, <2>1, <2>2, AboveUnfolds DEF Here, K
<1>5. CASE l.kind \notin {"section", "node"}
  <2>1. Sections(K, Len(K) + 1) = Sections(L, Len(L) + 1)
    BY <1>1, <1>5 DEF Sections
  <2>2. Above(K, Len(K) + 1) = Above(L, Len(L) + 1)
    BY <2>1, AboveUnfolds
  <2> QED
    BY <1>3, <1>5, <2>2 DEF Here, K
<1> QED
  BY <1>4, <1>5

\* A value changes only if the new line is a pair of this key in this section.
LEMMA LastValueAppended ==
    ASSUME NEW L \in Seq(Line), NEW l \in Line, NEW j, NEW key, NEW default
    PROVE  LastValue(Append(L, l), j, key, default) =
             IF l.kind = "pair" /\ Here(L) = j /\ l.key = key THEN l.value ELSE LastValue(L, j, key, default)
<1> DEFINE K == Append(L, l)
           F == Found(L, j, key)
           G == Found(K, j, key)
<1>1. /\ K \in Seq(Line) /\ Len(K) = Len(L) + 1 /\ K[Len(L) + 1] = l /\ Len(L) \in Nat
      /\ DOMAIN L = 1..Len(L) /\ DOMAIN K = 1..Len(L) + 1 /\ \A i \in 1..Len(L) : K[i] = L[i]
  BY LineAppended
<1>2. \A i \in 1..Len(L) + 1 : Above(K, i) = Above(L, i)
  BY AboveAppended
<1> HIDE DEF K
<1>3. \A i : i \in F <=> i \in 1..Len(L) /\ L[i].kind = "pair" /\ Above(L, i) = j /\ L[i].key = key
  BY <1>1 DEF Found
<1>4. \A i : i \in G <=> i \in 1..Len(L) + 1 /\ K[i].kind = "pair" /\ Above(K, i) = j /\ K[i].key = key
  BY <1>1 DEF Found
<1>5. /\ LastValue(L, j, key, default) = IF F = {} THEN default ELSE L[Greatest(F)].value
      /\ LastValue(K, j, key, default) = IF G = {} THEN default ELSE K[Greatest(G)].value
  BY LastValueUnfolds
<1> HIDE DEF F, G
<1>6. CASE l.kind = "pair" /\ Here(L) = j /\ l.key = key
  <2>1. Len(L) + 1 \in G
    BY <1>1, <1>2, <1>4, <1>6 DEF Here
  <2>2. G \in SUBSET Nat /\ \A m \in G : m <= Len(L) + 1
    BY <1>1, <1>4
  <2>3. Greatest(G) = Len(L) + 1
    BY <2>1, <2>2, GreatestIs
  <2> QED
    BY <1>1, <1>5, <1>6, <2>1, <2>3 DEF K
<1>7. CASE ~(l.kind = "pair" /\ Here(L) = j /\ l.key = key)
  <2>1. Len(L) + 1 \notin G
    BY <1>1, <1>2, <1>4, <1>7 DEF Here
  <2>2. \A i \in 1..Len(L) : i \in G <=> i \in F
    BY <1>1, <1>2, <1>3, <1>4
  <2>3. \A i : i \in G => i \in 1..Len(L)
    BY <1>1, <1>4, <2>1
  <2>4. G = F
    BY <1>3, <2>2, <2>3
  <2>5. F # {} => Greatest(F) \in 1..Len(L)
    <3>1. F \in SUBSET (1..Len(L))
      BY <1>3
    <3> QED
      BY <1>1, <3>1, GreatestOf
  <2>6. F # {} => K[Greatest(F)] = L[Greatest(F)]
    BY <1>1, <2>5
  <2> QED
    BY <1>5, <1>7, <2>4, <2>6 DEF K
<1> QED
  BY <1>6, <1>7

\* A section that has not begun says nothing.
LEMMA NothingSaidYet ==
    ASSUME NEW L \in Seq(Line), NEW key, NEW default
    PROVE  LastValue(L, Len(L) + 1, key, default) = default
<1>1. \A i \in DOMAIN L : Above(L, i) # Len(L) + 1
  BY AboveIsBefore
<1>2. Found(L, Len(L) + 1, key) = {}
  BY <1>1 DEF Found
<1> QED
  BY <1>2, LastValueUnfolds

\* The line is a number that is none, where a number is expected.
BadLine(l, s) ==
    \/ l.kind = "node" /\ l.id = Bad
    \/ /\ l.kind = "pair" /\ l.value = Bad
       /\ \/ s.kind = "section" /\ s.name = "cluster" /\ l.key = "node_count"
          \/ s.kind = "section" /\ s.name = "raft" /\ l.key = "heartbeat_interval"
          \/ s.kind = "node" /\ s.id > 0 /\ l.key = "port"

BadAt(L, i) ==
    \/ L[i].kind = "node" /\ L[i].id = Bad
    \/ L[i].kind = "pair" /\ L[i].value = Bad /\ Above(L, i) > 0 /\ BadLine(L[i], L[Above(L, i)])

\* A file is bad if one of its lines is.
LEMMA BadFileIsBadLine ==
    ASSUME NEW L
    PROVE  BadFile(L) <=> \E i \in DOMAIN L : BadAt(L, i)
BY DEF BadFile, BadAt, BadLine

\* A file becomes bad by a line that is.
LEMMA BadFileAppended ==
    ASSUME NEW L \in Seq(Line), NEW l \in Line
    PROVE  BadFile(Append(L, l)) <=>
             \/ BadFile(L)
             \/ l.kind = "node" /\ l.id = Bad
             \/ l.kind = "pair" /\ l.value = Bad /\ Here(L) > 0 /\ BadLine(l, L[Here(L)])
<1> DEFINE K == Append(L, l)
<1>1. /\ K[Len(L) + 1] = l /\ Len(L) \in Nat
      /\ DOMAIN L = 1..Len(L) /\ DOMAIN K = 1..Len(L) + 1 /\ \A i \in 1..Len(L) : K[i] = L[i]
  BY LineAppended
<1>2. \A i \in 1..Len(L) + 1 : Above(K, i) = Above(L, i) /\ Above(L, i) \in 0..i - 1
  BY AboveAppended, AboveIsBefore
<1> HIDE DEF K
<1>3. \A i \in 1..Len(L) + 1 : Above(L, i) > 0 => Above(L, i) \in 1..Len(L)
  BY <1>1, <1>2
<1>4. \A i \in 1..Len(L) + 1 : Above(L, i) > 0 => K[Above(K, i)] = L[Above(L, i)]
  BY <1>1, <1>2, <1>3
<1>5. \A i \in 1..Len(L) : BadAt(K, i) <=> BadAt(L, i)
  <2>1. \A i \in 1..Len(L) : /\ K[i] = L[i] /\ Above(K, i) = Above(L, i)
                             /\ Above(L, i) > 0 => K[Above(K, i)] = L[Above(L, i)]
    BY <1>1, <1>2, <1>4
  <2> QED
    BY <2>1, Zenon DEF BadAt
<1>6. BadAt(K, Len(L) + 1) <=>
        \/ l.kind = "node" /\ l.id = Bad
        \/ l.kind = "pair" /\ l.value = Bad /\ Here(L) > 0 /\ BadLine(l, L[Here(L)])
  <2>1. /\ K[Len(L) + 1] = l /\ Above(K, Len(L) + 1) = Here(L)
        /\ Here(L) > 0 => K[Above(K, Len(L) + 1)] = L[Here(L)]
    BY <1>1, <1>2, <1>4 DEF Here
  <2> QED
    BY <2>1, Zenon DEF BadAt
<1>7. \A i : i \in DOMAIN K <=> i \in DOMAIN L \/ i = Len(L) + 1
  BY <1>1
<1> QED
  BY <1>1, <1>5, <1>6, <1>7, BadFileIsBadLine, Zenon DEF K

\* NodeAsWritten, by the last section of the node.
SectionSays(L, j, n, node) ==
    /\ node.id = n
    /\ node.host = LastValue(L, j, "host", 0)
    /\ node.data_dir = LastValue(L, j, "data_dir", 0)
    /\ \/ node.port = LastValue(L, j, "port", 0)
       \/ /\ node.port = Undefined /\ LastValue(L, j, "port", Undefined) = Undefined
          /\ \A m \in 1..j - 1 : L[m].kind = "node" => L[m].id = 0

\* A node is what its last section says.
LEMMA NodeAsWrittenUnfolds ==
    ASSUME NEW L, NEW n, NEW node
    PROVE  NodeAsWritten(L, n, node) <=>
             IF NodeSections(L, n) = {} \/ n = 0 THEN node = NodeConfig
             ELSE SectionSays(L, Greatest(NodeSections(L, n)), n, node)
BY Zenon DEF NodeAsWritten, NodeSections, Greatest, SectionSays

\* What a section says is in its values and in the lines before it.
LEMMA SectionSaysTheSame ==
    ASSUME NEW K, NEW L, NEW j, NEW n, NEW node,
           \A key \in {"host", "port", "data_dir"} : \A default :
             LastValue(K, j, key, default) = LastValue(L, j, key, default),
           \A m \in 1..j - 1 : K[m] = L[m]
    PROVE  SectionSays(K, j, n, node) <=> SectionSays(L, j, n, node)
<1>1. /\ LastValue(K, j, "host", 0) = LastValue(L, j, "host", 0)
      /\ LastValue(K, j, "data_dir", 0) = LastValue(L, j, "data_dir", 0)
      /\ LastValue(K, j, "port", 0) = LastValue(L, j, "port", 0)
      /\ LastValue(K, j, "port", Undefined) = LastValue(L, j, "port", Undefined)
  OBVIOUS
<1>2. (\A m \in 1..j - 1 : K[m].kind = "node" => K[m].id = 0)
        <=> (\A m \in 1..j - 1 : L[m].kind = "node" => L[m].id = 0)
  OBVIOUS
<1> QED
  BY <1>1, <1>2, Zenon DEF SectionSays

\* A line that is not of the last section of a node says nothing of it.
LEMMA OtherNodesStay ==
    ASSUME NEW L \in Seq(Line), NEW l \in Line, NEW n \in Int, NEW node,
           ~(l.kind = "node" /\ l.id = n),
           l.kind = "pair" /\ Here(L) # 0 /\ L[Here(L)].kind = "node" => L[Here(L)].id # n
    PROVE  NodeAsWritten(Append(L, l), n, node) <=> NodeAsWritten(L, n, node)
<1> DEFINE K == Append(L, l)
           N == NodeSections(L, n)
           j == Greatest(N)
<1>1. /\ K[Len(L) + 1] = l /\ Len(L) \in Nat
      /\ DOMAIN L = 1..Len(L) /\ DOMAIN K = 1..Len(L) + 1 /\ \A i \in 1..Len(L) : K[i] = L[i]
  BY LineAppended
<1> HIDE DEF K
<1>2. NodeSections(K, n) = N
  <2>1. \A i \in 1..Len(L) : i \in NodeSections(K, n) <=> i \in N
    BY <1>1 DEF NodeSections
  <2>2. Len(L) + 1 \notin NodeSections(K, n)
    BY <1>1 DEF NodeSections
  <2>3. (\A i \in NodeSections(K, n) : i \in 1..Len(L) + 1) /\ \A i \in N : i \in 1..Len(L)
    BY <1>1 DEF NodeSections
  <2> HIDE DEF N
  <2>4. \A i \in NodeSections(K, n) : i \in 1..Len(L)
    BY <1>1, <2>2, <2>3
  <2>5. \A i : i \in NodeSections(K, n) <=> i \in N
    BY <2>1, <2>3, <2>4
  <2> QED
    BY <2>5
<1>3. N \in SUBSET (1..Len(L)) /\ \A i \in N : L[i].kind = "node" /\ L[i].id = n
  BY <1>1 DEF NodeSections
<1> HIDE DEF N, j
<1>4. CASE N # {}
  <2>1. j \in 1..Len(L) /\ L[j].kind = "node" /\ L[j].id = n
    BY <1>1, <1>3, <1>4, GreatestOf DEF j
  <2>2. ~(l.kind = "pair" /\ Here(L) = j)
    BY <2>1
  <2>3. \A key, default : LastValue(K, j, key, default) = LastValue(L, j, key, default)
    <3>1. ASSUME NEW key, NEW default PROVE LastValue(K, j, key, default) = LastValue(L, j, key, default)
      <4>1. LastValue(K, j, key, default) =
              IF l.kind = "pair" /\ Here(L) = j /\ l.key = key THEN l.value ELSE LastValue(L, j, key, default)
        BY LastValueAppended DEF K
      <4> QED
        BY <2>2, <4>1
    <3> QED
      BY <3>1
  <2>4. \A m \in 1..j - 1 : K[m] = L[m]
    BY <1>1, <2>1
  <2>5. SectionSays(K, j, n, node) <=> SectionSays(L, j, n, node)
    BY <2>3, <2>4, Zenon DEF SectionSays
  <2> QED
    BY <1>2, <1>4, <2>5, NodeAsWrittenUnfolds, Zenon DEF K, N, j
<1>5. CASE N = {}
  BY <1>2, <1>5, NodeAsWrittenUnfolds, Zenon DEF K, N
<1> QED
  BY <1>4, <1>5

\* The section that the loop is in is the last one.
Where(L, st) ==
    \/ Here(L) = 0 /\ st.section \notin {"cluster", "raft", "node"} /\ st.id = -1
    \/ /\ Here(L) # 0 /\ L[Here(L)].kind = "section"
       /\ st.section = L[Here(L)].name /\ st.id = -1
    \/ /\ Here(L) # 0 /\ L[Here(L)].kind = "node" /\ L[Here(L)].id \in NodeId
       /\ st.section = "node" /\ st.id = L[Here(L)].id

\* No node yet.
NoneYet(L) == \A m \in DOMAIN L : L[m].kind = "node" => L[m].id = 0

\* current_node is what its section says so far; between nodes it is empty, but
\* for the port before the first.
Current(L, st) ==
    IF st.id > 0 THEN SectionSays(L, Here(L), st.id, st.current)
    ELSE /\ st.current.host = 0 /\ st.current.data_dir = 0
         /\ st.current.port = 0 \/ (st.current.port = Undefined /\ NoneYet(L))

\* The nodes that are complete are as written.
Complete(L, st) == \A n \in NodeId : (st.id > 0 /\ n = st.id) \/ NodeAsWritten(L, n, st.nodes[n])

\* What loadFromFile has made of the lines so far.
StateFields == {"section", "current", "id", "nodes", "node_count", "heartbeat_interval", "thrown"}
StateType(st) ==
    /\ DOMAIN st = StateFields
    /\ DOMAIN st.current = {"id", "host", "port", "data_dir"}
    /\ DOMAIN st.nodes = NodeId
    /\ st.thrown \in BOOLEAN

ReadSoFar(L, st) ==
    /\ L \in Seq(Line) /\ StateType(st)
    /\ IF st.thrown THEN BadFile(L) ELSE ~BadFile(L) /\ Where(L, st) /\ Current(L, st) /\ Complete(L, st)

\* Save puts the present node among the complete ones.
LEMMA SaveCompletes ==
    ASSUME NEW L, NEW st, ReadSoFar(L, st), ~st.thrown
    PROVE  LET saved == Save(st) IN
           /\ StateType(saved) /\ ~saved.thrown
           /\ \A n \in NodeId : NodeAsWritten(L, n, saved.nodes[n])
           /\ saved.current.host = 0 /\ saved.current.data_dir = 0
           /\ saved.current.port = 0 \/ (saved.current.port = Undefined /\ NoneYet(L))
<1> DEFINE saved == Save(st)
<1>1. L \in Seq(Line) /\ StateType(st) /\ Where(L, st) /\ Current(L, st) /\ Complete(L, st)
  BY DEF ReadSoFar
<1>2. CASE st.id > 0
  <2>1. /\ Here(L) # 0 /\ L[Here(L)].kind = "node" /\ L[Here(L)].id = st.id /\ st.id \in NodeId
    BY <1>1, <1>2 DEF Where, NodeId
  <2>2. /\ Here(L) \in Sections(L, Len(L) + 1)
        /\ \A m \in Sections(L, Len(L) + 1) : m <= Here(L)
    BY <1>1, <2>1, AboveIsBefore DEF Here
  <2>3. /\ Here(L) \in NodeSections(L, st.id)
        /\ \A m \in NodeSections(L, st.id) : m \in Sections(L, Len(L) + 1)
    BY <1>1, <2>1, <2>2 DEF NodeSections, Sections
  <2>4. Greatest(NodeSections(L, st.id)) = Here(L)
    <3>1. NodeSections(L, st.id) \in SUBSET Nat
      BY <1>1 DEF NodeSections
    <3> QED
      BY <2>2, <2>3, <3>1, GreatestIs
  <2>5. NodeAsWritten(L, st.id, st.current)
    BY <1>1, <1>2, <2>3, <2>4, NodeAsWrittenUnfolds DEF Current
  <2>6. /\ saved = [st EXCEPT !.nodes[st.id] = st.current, !.current = NodeConfig]
    BY <1>2 DEF Save
  <2> DEFINE nodes == [st.nodes EXCEPT ![st.id] = st.current]
  <2>7. /\ DOMAIN saved = StateFields /\ saved.nodes = nodes /\ saved.current = NodeConfig
        /\ saved.thrown = st.thrown
    BY <1>1, <2>6 DEF StateType, StateFields
  <2>8. DOMAIN nodes = NodeId /\ nodes[st.id] = st.current /\ \A n \in NodeId : n # st.id => nodes[n] = st.nodes[n]
    BY <1>1, <2>1 DEF StateType
  <2>9. /\ DOMAIN NodeConfig = {"id", "host", "port", "data_dir"}
        /\ NodeConfig.host = 0 /\ NodeConfig.data_dir = 0 /\ NodeConfig.port = 0
    BY DEF NodeConfig
  <2> HIDE DEF saved, nodes
  <2>10. \A n \in NodeId : NodeAsWritten(L, n, nodes[n])
    BY <1>1, <1>2, <2>5, <2>8, Zenon DEF Complete
  <2>11. StateType(saved)
    BY <1>1, <2>7, <2>8, <2>9, Zenon DEF StateType
  <2>12. saved.current.host = 0 /\ saved.current.data_dir = 0 /\ saved.current.port = 0
    BY <2>7, <2>9, Zenon
  <2>13. ~saved.thrown
    BY <2>7, Zenon
  <2> QED
    BY <2>7, <2>10, <2>11, <2>12, <2>13, Zenon DEF saved
<1>3. CASE ~(st.id > 0)
  <2>1. saved = st
    BY <1>3, Zenon DEF Save
  <2>2. \A n \in NodeId : NodeAsWritten(L, n, st.nodes[n])
    BY <1>1, <1>3, Zenon DEF Complete
  <2>3. /\ st.current.host = 0 /\ st.current.data_dir = 0
        /\ st.current.port = 0 \/ (st.current.port = Undefined /\ NoneYet(L))
    BY <1>1, <1>3, Zenon DEF Current
  <2> HIDE DEF saved
  <2> QED
    BY <1>1, <2>1, <2>2, <2>3, Zenon DEF saved
<1> QED
  BY <1>2, <1>3

\* A line that opens no section leaves the section and the complete nodes alone.
LEMMA SectionGoesOn ==
    ASSUME NEW L, NEW st, NEW l \in Line, ReadSoFar(L, st), ~st.thrown, l.kind \in {"skip", "pair"}
    PROVE  LET K == Append(L, l) IN
           /\ K \in Seq(Line) /\ Here(K) = Here(L) /\ (Here(L) # 0 => K[Here(L)] = L[Here(L)])
           /\ \A m \in 1..Here(L) - 1 : K[m] = L[m]
           /\ NoneYet(K) <=> NoneYet(L)
           /\ Where(K, st) /\ Complete(K, st)
<1> DEFINE K == Append(L, l)
<1>1. L \in Seq(Line) /\ Where(L, st) /\ Complete(L, st)
  BY DEF ReadSoFar
<1>2. /\ K \in Seq(Line) /\ K[Len(L) + 1] = l /\ Len(L) \in Nat
      /\ DOMAIN L = 1..Len(L) /\ DOMAIN K = 1..Len(L) + 1 /\ \A i \in 1..Len(L) : K[i] = L[i]
  BY <1>1, LineAppended
<1>3. Here(K) = Here(L)
  BY <1>1, AboveAppended
<1>4. Here(L) \in 0..Len(L)
  BY <1>1, <1>2, AboveIsBefore DEF Here
<1>5. \A n \in NodeId : (st.id > 0 /\ n = st.id) \/ NodeAsWritten(K, n, st.nodes[n])
  <2>1. ASSUME NEW n \in NodeId, ~(st.id > 0 /\ n = st.id) PROVE NodeAsWritten(K, n, st.nodes[n])
    <3>1. NodeAsWritten(L, n, st.nodes[n])
      BY <1>1, <2>1, Zenon DEF Complete
    <3>2. CASE n = 0
      BY <3>1, <3>2, NodeAsWrittenUnfolds
    <3>3. CASE n # 0
      <4>1. n \in Int /\ n > 0
        BY <2>1, <3>3 DEF NodeId
      <4>2. Here(L) # 0 /\ L[Here(L)].kind = "node" => L[Here(L)].id # n
        BY <1>1, <2>1, <4>1 DEF Where
      <4>3. ~(l.kind = "node" /\ l.id = n)
        OBVIOUS
      <4> QED
        BY <1>1, <3>1, <4>1, <4>2, <4>3, OtherNodesStay
    <3> QED
      BY <3>2, <3>3
  <2> QED
    BY <2>1
<1> HIDE DEF K
<1>6. Here(L) # 0 => K[Here(L)] = L[Here(L)]
  BY <1>2, <1>4
<1>7. NoneYet(K) <=> NoneYet(L)
  BY <1>2 DEF NoneYet
<1>8. \A m \in 1..Here(L) - 1 : K[m] = L[m]
  BY <1>2, <1>4
<1>9. Where(K, st)
  BY <1>1, <1>3, <1>6, Zenon DEF Where
<1>10. Complete(K, st)
  BY <1>5 DEF Complete
<1> QED
  BY <1>2, <1>3, <1>6, <1>7, <1>8, <1>9, <1>10 DEF K

\* A skipped line.
LEMMA SkipKeeps ==
    ASSUME NEW L, NEW st, NEW l \in Line, ReadSoFar(L, st), ~st.thrown, l.kind = "skip"
    PROVE  ReadSoFar(Append(L, l), ReadLine(st, l))
<1> DEFINE K == Append(L, l)
<1>1. L \in Seq(Line) /\ StateType(st) /\ ~BadFile(L) /\ Current(L, st)
  BY DEF ReadSoFar
<1>2. /\ K \in Seq(Line) /\ Here(K) = Here(L) /\ \A m \in 1..Here(L) - 1 : K[m] = L[m]
      /\ (NoneYet(K) <=> NoneYet(L)) /\ Where(K, st) /\ Complete(K, st)
  BY SectionGoesOn
<1>3. ReadLine(st, l) = st
  BY DEF ReadLine
<1>4. ~BadFile(K)
  BY <1>1, BadFileAppended
<1>5. \A j, key, default : LastValue(K, j, key, default) = LastValue(L, j, key, default)
  BY <1>1, LastValueAppended
<1> HIDE DEF K
<1>6. SectionSays(K, Here(L), st.id, st.current) <=> SectionSays(L, Here(L), st.id, st.current)
  <2>1. \A key \in {"host", "port", "data_dir"} : \A default :
          LastValue(K, Here(L), key, default) = LastValue(L, Here(L), key, default)
    BY <1>5
  <2> QED
    BY <1>2, <2>1, SectionSaysTheSame
<1>7. Current(K, st)
  BY <1>1, <1>2, <1>6, Zenon DEF Current
<1> QED
  BY <1>1, <1>2, <1>3, <1>4, <1>7 DEF ReadSoFar, K

\* A pair in the section of a node is part of it.
LEMMA NodePairKeeps ==
    ASSUME NEW L, NEW st, NEW l \in Line, ReadSoFar(L, st), ~st.thrown, l.kind = "pair",
           st.section = "node", st.id > 0
    PROVE  ReadSoFar(Append(L, l), SetPair(st, l))
<1> DEFINE K == Append(L, l)
           s == L[Here(L)]
<1>1. L \in Seq(Line) /\ StateType(st) /\ ~BadFile(L) /\ Where(L, st) /\ SectionSays(L, Here(L), st.id, st.current)
  BY DEF ReadSoFar, Current
<1>2. /\ K \in Seq(Line) /\ Here(K) = Here(L) /\ \A m \in 1..Here(L) - 1 : K[m] = L[m]
      /\ Where(K, st) /\ Complete(K, st)
  BY SectionGoesOn
<1>3. Here(L) # 0 /\ s.kind = "node" /\ s.id = st.id
  <2>1. Here(L) # 0 => s \in Line
    BY <1>1, AboveIsBefore DEF Here
  <2> QED
    BY <1>1, <2>1, Lines DEF Where
<1>4. BadFile(K) <=> l.value = Bad /\ l.key = "port"
  <2>1. Here(L) > 0
    BY <1>1, <1>3, AboveIsBefore DEF Here
  <2> QED
    BY <1>1, <1>3, <2>1, BadFileAppended DEF BadLine
<1>5. \A key, default : LastValue(K, Here(L), key, default) =
        IF l.key = key THEN l.value ELSE LastValue(L, Here(L), key, default)
  BY <1>1, LastValueAppended
<1>6. l.key \in {"host", "data_dir"} => l.value # Bad
  BY Lines
<1> HIDE DEF K, s
<1>7. CASE l.key \notin {"host", "port", "data_dir"}
  <2>1. SetPair(st, l) = st
    BY <1>7 DEF SetPair
  <2>2. \A key \in {"host", "port", "data_dir"} : \A default :
          LastValue(K, Here(L), key, default) = LastValue(L, Here(L), key, default)
    BY <1>5, <1>7
  <2>3. SectionSays(K, Here(L), st.id, st.current)
    BY <1>1, <1>2, <2>2, SectionSaysTheSame
  <2>4. Current(K, st)
    BY <1>2, <2>3, Zenon DEF Current
  <2> QED
    BY <1>1, <1>2, <1>4, <1>7, <2>1, <2>4 DEF ReadSoFar, K
<1> DEFINE With(field) == [st EXCEPT !.current = [st.current EXCEPT ![field] = l.value]]
<1>8. ASSUME NEW field \in {"host", "port", "data_dir"}, l.key = field, ~BadFile(K)
      PROVE  ReadSoFar(K, With(field))
  <2> DEFINE cur == [st.current EXCEPT ![field] = l.value]
             new == With(field)
  <2>1. /\ DOMAIN cur = DOMAIN st.current /\ cur[field] = l.value
        /\ \A f \in DOMAIN st.current : f # field => cur[f] = st.current[f]
    BY <1>1, <1>8 DEF StateType
  <2>2. /\ DOMAIN new = StateFields /\ new.current = cur /\ new.section = st.section /\ new.id = st.id
        /\ new.nodes = st.nodes /\ new.thrown = st.thrown
    BY <1>1 DEF StateType, StateFields
  <2> HIDE DEF cur, new
  <2>3. StateType(new) /\ ~new.thrown
    BY <1>1, <2>1, <2>2, Zenon DEF StateType
  <2>4. Where(K, new) /\ Complete(K, new)
    BY <1>2, <2>2, Zenon DEF Where, Complete
  <2>5. SectionSays(K, Here(L), st.id, cur)
    <3>1. cur.id = st.id
      BY <1>1, <1>8, <2>1 DEF SectionSays, StateType
    <3>2. cur.host = LastValue(K, Here(L), "host", 0)
      BY <1>1, <1>5, <1>8, <2>1 DEF SectionSays, StateType
    <3>3. cur.data_dir = LastValue(K, Here(L), "data_dir", 0)
      BY <1>1, <1>5, <1>8, <2>1 DEF SectionSays, StateType
    <3>4. CASE field = "port"
      <4>1. cur.port = LastValue(K, Here(L), "port", 0)
        BY <1>5, <1>8, <2>1, <3>4
      <4> QED
        BY <3>1, <3>2, <3>3, <4>1 DEF SectionSays
    <3>5. CASE field # "port"
      <4>1. cur.port = st.current.port
        BY <1>1, <2>1, <3>5 DEF StateType
      <4>2. \A default : LastValue(K, Here(L), "port", default) = LastValue(L, Here(L), "port", default)
        BY <1>5, <1>8, <3>5
      <4> QED
        BY <1>1, <1>2, <3>1, <3>2, <3>3, <4>1, <4>2, Zenon DEF SectionSays
    <3> QED
      BY <3>4, <3>5
  <2>6. Current(K, new)
    BY <1>2, <2>2, <2>5, Zenon DEF Current
  <2> QED
    BY <1>2, <1>8, <2>3, <2>4, <2>6 DEF ReadSoFar, new
<1>9. CASE l.key = "host"
  <2>1. SetPair(st, l) = With("host")
    BY <1>9 DEF SetPair
  <2> QED
    BY <1>4, <1>8, <1>9, <2>1 DEF K
<1>10. CASE l.key = "data_dir"
  <2>1. SetPair(st, l) = With("data_dir")
    BY <1>10 DEF SetPair
  <2> QED
    BY <1>4, <1>8, <1>10, <2>1 DEF K
<1>11. CASE l.key = "port" /\ l.value # Bad
  <2>1. SetPair(st, l) = With("port")
    BY <1>11 DEF SetPair
  <2> QED
    BY <1>4, <1>8, <1>11, <2>1 DEF K
<1>12. CASE l.key = "port" /\ l.value = Bad
  <2> DEFINE new == [st EXCEPT !.thrown = TRUE]
  <2>1. SetPair(st, l) = new
    BY <1>12 DEF SetPair
  <2>2. DOMAIN new = StateFields /\ new.thrown = TRUE /\ new.current = st.current /\ new.nodes = st.nodes
    BY <1>1 DEF StateType, StateFields
  <2> HIDE DEF new
  <2>3. StateType(new)
    BY <1>1, <2>2, Zenon DEF StateType
  <2> QED
    BY <1>2, <1>4, <1>12, <2>1, <2>2, <2>3, Zenon DEF ReadSoFar, K
<1> QED
  BY <1>7, <1>9, <1>10, <1>11, <1>12

\* A pair elsewhere: no node changes.
LEMMA OtherPairKeeps ==
    ASSUME NEW L, NEW st, NEW l \in Line, ReadSoFar(L, st), ~st.thrown, l.kind = "pair",
           ~(st.section = "node" /\ st.id > 0)
    PROVE  ReadSoFar(Append(L, l), SetPair(st, l))
<1> DEFINE K == Append(L, l)
           s == L[Here(L)]
           counts == st.section = "cluster" /\ l.key = "node_count"
           beats == st.section = "raft" /\ l.key = "heartbeat_interval"
<1>1. L \in Seq(Line) /\ StateType(st) /\ ~BadFile(L) /\ Where(L, st) /\ Current(L, st)
  BY DEF ReadSoFar
<1>2. /\ K \in Seq(Line) /\ (NoneYet(K) <=> NoneYet(L)) /\ Where(K, st) /\ Complete(K, st)
  BY SectionGoesOn
<1>3. Here(L) \in Nat
  BY <1>1, AboveIsBefore DEF Here
<1>4. Here(L) > 0 => (BadLine(l, s) <=> (counts \/ beats) /\ l.value = Bad)
  <2>1. Here(L) # 0 => s \in Line
    BY <1>1, <1>3, AboveIsBefore DEF Here
  <2>2. CASE Here(L) > 0 /\ s.kind = "section" /\ st.section = s.name /\ s.name \in {"cluster", "raft"}
    BY <2>2 DEF BadLine
  <2>3. CASE Here(L) > 0 /\ s.kind = "node" /\ st.section = "node" /\ st.id = s.id
    BY <2>3 DEF BadLine
  <2> QED
    BY <1>1, <1>3, <2>1, <2>2, <2>3, Lines DEF Where
<1>5. Here(L) = 0 => ~counts /\ ~beats
  BY <1>1 DEF Where
<1>6. BadFile(K) <=> (counts \/ beats) /\ l.value = Bad
  BY <1>1, <1>3, <1>4, <1>5, BadFileAppended DEF BadLine
<1>7. ~(st.id > 0)
  BY <1>1 DEF Where
<1> HIDE DEF K, counts, beats
<1>8. ASSUME NEW new, DOMAIN new = StateFields, new.section = st.section, new.current = st.current, new.id = st.id,
             new.nodes = st.nodes, new.thrown = st.thrown, ~BadFile(K)
      PROVE  ReadSoFar(K, new)
  <2>1. StateType(new) /\ ~new.thrown
    BY <1>1, <1>8, Zenon DEF StateType
  <2>2. Where(K, new) /\ Complete(K, new)
    BY <1>2, <1>8, Zenon DEF Where, Complete
  <2>3. Current(K, new)
    <3>1. /\ st.current.host = 0 /\ st.current.data_dir = 0
          /\ st.current.port = 0 \/ (st.current.port = Undefined /\ NoneYet(K))
      BY <1>1, <1>2, <1>7, Zenon DEF Current
    <3> QED
      BY <1>7, <1>8, <3>1, Zenon DEF Current
  <2> QED
    BY <1>2, <1>8, <2>1, <2>2, <2>3, Zenon DEF ReadSoFar
<1>9. CASE (counts \/ beats) /\ l.value = Bad
  <2> DEFINE new == [st EXCEPT !.thrown = TRUE]
  <2>1. SetPair(st, l) = new
    BY <1>9, Zenon DEF SetPair, counts, beats
  <2>2. DOMAIN new = StateFields /\ new.thrown = TRUE /\ new.current = st.current /\ new.nodes = st.nodes
    BY <1>1 DEF StateType, StateFields
  <2> HIDE DEF new
  <2>3. StateType(new)
    BY <1>1, <2>2, Zenon DEF StateType
  <2> QED
    BY <1>2, <1>6, <1>9, <2>1, <2>2, <2>3, Zenon DEF ReadSoFar, K
<1>10. CASE counts /\ l.value # Bad
  <2> DEFINE new == [st EXCEPT !.node_count = l.value]
  <2>1. SetPair(st, l) = new
    BY <1>10, Zenon DEF SetPair, counts
  <2>2. /\ DOMAIN new = StateFields /\ new.section = st.section /\ new.current = st.current /\ new.id = st.id
        /\ new.nodes = st.nodes /\ new.thrown = st.thrown
    BY <1>1 DEF StateType, StateFields
  <2> HIDE DEF new
  <2> QED
    BY <1>6, <1>8, <1>10, <2>1, <2>2, Zenon DEF K
<1>11. CASE ~counts /\ beats /\ l.value # Bad
  <2> DEFINE new == [st EXCEPT !.heartbeat_interval = l.value]
  <2>1. SetPair(st, l) = new
    BY <1>11, Zenon DEF SetPair, counts, beats
  <2>2. /\ DOMAIN new = StateFields /\ new.section = st.section /\ new.current = st.current /\ new.id = st.id
        /\ new.nodes = st.nodes /\ new.thrown = st.thrown
    BY <1>1 DEF StateType, StateFields
  <2> HIDE DEF new
  <2> QED
    BY <1>6, <1>8, <1>11, <2>1, <2>2, Zenon DEF K
<1>12. CASE ~counts /\ ~beats
  <2>1. SetPair(st, l) = st
    BY <1>12, Zenon DEF SetPair, counts, beats
  <2> QED
    BY <1>1, <1>6, <1>8, <1>12, <2>1, Zenon DEF K, StateType
<1> QED
  BY <1>9, <1>10, <1>11, <1>12, Zenon

\* A section line ends the node before it and begins the next.
LEMMA SectionKeeps ==
    ASSUME NEW L, NEW st, NEW l \in Line, ReadSoFar(L, st), ~st.thrown, l.kind \in {"section", "node"}
    PROVE  ReadSoFar(Append(L, l), OpenSection(st, l))
<1> DEFINE K == Append(L, l)
           saved == Save(st)
<1>1. L \in Seq(Line) /\ ~BadFile(L)
  BY DEF ReadSoFar
<1>2. /\ K \in Seq(Line) /\ K[Len(L) + 1] = l /\ Len(L) \in Nat
      /\ DOMAIN L = 1..Len(L) /\ DOMAIN K = 1..Len(L) + 1 /\ \A i \in 1..Len(L) : K[i] = L[i]
  BY <1>1, LineAppended
<1>3. Here(K) = Len(L) + 1
  BY <1>1, AboveAppended
<1>4. BadFile(K) <=> l.kind = "node" /\ l.id = Bad
  BY <1>1, BadFileAppended
<1>5. /\ StateType(saved) /\ ~saved.thrown
      /\ \A n \in NodeId : NodeAsWritten(L, n, saved.nodes[n])
      /\ saved.current.host = 0 /\ saved.current.data_dir = 0
      /\ saved.current.port = 0 \/ (saved.current.port = Undefined /\ NoneYet(L))
  BY SaveCompletes
<1>6. \A n \in NodeId : (l.kind = "node" /\ l.id = n /\ n > 0) \/ NodeAsWritten(K, n, saved.nodes[n])
  <2>1. ASSUME NEW n \in NodeId, ~(l.kind = "node" /\ l.id = n /\ n > 0) PROVE NodeAsWritten(K, n, saved.nodes[n])
    <3>1. NodeAsWritten(L, n, saved.nodes[n])
      BY <1>5
    <3>2. CASE n = 0
      BY <3>1, <3>2, NodeAsWrittenUnfolds
    <3>3. CASE n # 0
      <4>1. n \in Int /\ n > 0
        BY <2>1, <3>3 DEF NodeId
      <4>2. ~(l.kind = "node" /\ l.id = n)
        BY <2>1, <4>1
      <4>3. l.kind # "pair"
        OBVIOUS
      <4> QED
        BY <1>1, <3>1, <4>1, <4>2, <4>3, OtherNodesStay
    <3> QED
      BY <3>2, <3>3
  <2> QED
    BY <2>1
<1> HIDE DEF K, saved
<1>7. CASE l.kind = "section"
  <2> DEFINE new == [saved EXCEPT !.section = l.name, !.id = -1]
  <2>1. OpenSection(st, l) = new
    BY <1>7, Zenon DEF OpenSection, saved
  <2>2. /\ DOMAIN new = StateFields /\ new.section = l.name /\ new.id = -1
        /\ new.current = saved.current /\ new.nodes = saved.nodes /\ new.thrown = saved.thrown
    BY <1>5 DEF StateType, StateFields
  <2> HIDE DEF new
  <2>3. StateType(new) /\ ~new.thrown
    BY <1>5, <2>2, Zenon DEF StateType
  <2>4. Where(K, new)
    BY <1>2, <1>3, <1>7, <2>2 DEF Where
  <2>5. NoneYet(K) <=> NoneYet(L)
    BY <1>2, <1>7 DEF NoneYet
  <2>6. ~(new.id > 0)
    BY <2>2
  <2>7. Current(K, new)
    BY <1>5, <2>2, <2>5, <2>6, Zenon DEF Current
  <2>8. Complete(K, new)
    BY <1>6, <1>7, <2>2 DEF Complete
  <2> QED
    BY <1>2, <1>4, <1>7, <2>1, <2>3, <2>4, <2>7, <2>8 DEF ReadSoFar, K
<1>8. CASE l.kind = "node" /\ l.id = Bad
  <2> DEFINE new == [saved EXCEPT !.thrown = TRUE]
  <2>1. OpenSection(st, l) = new
    BY <1>8 DEF OpenSection, saved
  <2>2. DOMAIN new = StateFields /\ new.thrown = TRUE /\ new.current = saved.current /\ new.nodes = saved.nodes
    BY <1>5 DEF StateType, StateFields
  <2> HIDE DEF new
  <2>3. StateType(new)
    BY <1>5, <2>2, Zenon DEF StateType
  <2> QED
    BY <1>2, <1>4, <1>8, <2>1, <2>2, <2>3, Zenon DEF ReadSoFar, K
<1>9. CASE l.kind = "node" /\ l.id # Bad
  <2> DEFINE cur == [saved.current EXCEPT !.id = l.id]
             new == [saved EXCEPT !.section = "node", !.id = l.id, !.current.id = l.id]
  <2>1. l.id \in NodeId /\ l.id \in Int
    BY <1>9, Lines DEF NodeId
  <2>2. OpenSection(st, l) = new
    BY <1>9 DEF OpenSection, saved
  <2>3. /\ DOMAIN cur = DOMAIN saved.current /\ cur.id = l.id /\ cur.host = saved.current.host
        /\ cur.port = saved.current.port /\ cur.data_dir = saved.current.data_dir
    BY <1>5 DEF StateType
  <2>4. new.current = cur
    BY <1>5 DEF StateType, StateFields
  <2>5. /\ DOMAIN new = StateFields /\ new.section = "node" /\ new.id = l.id
        /\ new.nodes = saved.nodes /\ new.thrown = saved.thrown
    BY <1>5 DEF StateType, StateFields
  <2> HIDE DEF cur, new
  <2>6. StateType(new) /\ ~new.thrown
    BY <1>5, <2>3, <2>4, <2>5, Zenon DEF StateType
  <2>7. Where(K, new)
    BY <1>2, <1>3, <1>9, <2>1, <2>5 DEF Where
  <2>8. Complete(K, new)
    BY <1>6, <2>5, Zenon DEF Complete
  <2>9. CASE l.id = 0
    <3>1. NoneYet(L) => NoneYet(K)
      BY <1>2, <2>9 DEF NoneYet
    <3>2. ~(new.id > 0)
      BY <2>5, <2>9
    <3>3. Current(K, new)
      BY <1>5, <2>3, <2>4, <3>1, <3>2, Zenon DEF Current
    <3> QED
      BY <1>2, <1>4, <1>9, <2>2, <2>6, <2>7, <2>8, <3>3 DEF ReadSoFar, K
  <2>10. CASE l.id # 0
    <3>1. l.id > 0
      BY <2>1, <2>10 DEF NodeId
    <3>2. ASSUME NEW key, NEW default PROVE LastValue(K, Len(L) + 1, key, default) = default
      <4>1. LastValue(L, Len(L) + 1, key, default) = default
        BY <1>1, NothingSaidYet
      <4>2. LastValue(K, Len(L) + 1, key, default) =
              IF l.kind = "pair" /\ Here(L) = Len(L) + 1 /\ l.key = key THEN l.value
              ELSE LastValue(L, Len(L) + 1, key, default)
        BY <1>1, LastValueAppended DEF K
      <4> QED
        BY <1>9, <4>1, <4>2
    <3>3. NoneYet(L) => \A m \in 1..(Len(L) + 1) - 1 : K[m].kind = "node" => K[m].id = 0
      BY <1>2 DEF NoneYet
    <3>4. SectionSays(K, Len(L) + 1, l.id, cur)
      BY <1>5, <2>3, <3>2, <3>3 DEF SectionSays
    <3>5. Current(K, new)
      BY <1>3, <2>4, <2>5, <3>1, <3>4, Zenon DEF Current
    <3> QED
      BY <1>2, <1>4, <1>9, <2>2, <2>6, <2>7, <2>8, <3>5 DEF ReadSoFar, K
  <2> QED
    BY <2>9, <2>10
<1> QED
  BY <1>7, <1>8, <1>9

\* One more line.
LEMMA ReadLineKeeps ==
    ASSUME NEW L, NEW st, NEW l \in Line, ReadSoFar(L, st), ~st.thrown
    PROVE  ReadSoFar(Append(L, l), ReadLine(st, l))
<1>1. CASE l.kind = "skip"
  BY <1>1, SkipKeeps
<1>2. CASE l.kind = "pair"
  <2>1. ReadLine(st, l) = SetPair(st, l)
    BY <1>2 DEF ReadLine
  <2>2. CASE st.section = "node" /\ st.id > 0
    BY <1>2, <2>1, <2>2, NodePairKeeps
  <2>3. CASE ~(st.section = "node" /\ st.id > 0)
    BY <1>2, <2>1, <2>3, OtherPairKeeps
  <2> QED
    BY <2>2, <2>3, Zenon
<1>3. CASE l.kind \in {"section", "node"}
  <2>1. ReadLine(st, l) = OpenSection(st, l)
    BY <1>3 DEF ReadLine
  <2> QED
    BY <1>3, <2>1, SectionKeeps
<1> QED
  BY <1>1, <1>2, <1>3, Lines

\* No line yet.
LEMMA NothingRead == ReadSoFar(<<>>, Start)
<1> DEFINE cur == [NodeConfig EXCEPT !.id = Undefined, !.port = Undefined]
<1>1. /\ DOMAIN Start = StateFields /\ Start.section = "" /\ Start.id = -1 /\ Start.thrown = FALSE
      /\ Start.current = cur /\ Start.nodes = [n \in NodeId |-> NodeConfig]
  BY Zenon DEF Start, StateFields
<1>2. /\ DOMAIN cur = {"id", "host", "port", "data_dir"}
      /\ cur.host = 0 /\ cur.data_dir = 0 /\ cur.port = Undefined
  BY DEF NodeConfig
<1> HIDE DEF cur
<1>3. /\ DOMAIN <<>> = {} /\ <<>> \in Seq(Line) /\ Len(<<>>) = 0
  OBVIOUS
<1>4. Here(<<>>) = 0
  <2>1. Sections(<<>>, 1) = {}
    BY DEF Sections
  <2>2. Above(<<>>, 1) = 0
    BY <2>1, AboveUnfolds, Zenon
  <2>3. Len(<<>>) + 1 = 1
    OBVIOUS
  <2> QED
    BY <2>2, <2>3, Zenon DEF Here
<1>5. ~BadFile(<<>>)
  BY <1>3, Zenon DEF BadFile
<1>6. "" \notin {"cluster", "raft", "node"}
  BY Zenon
<1>7. \A n \in NodeId : NodeAsWritten(<<>>, n, NodeConfig)
  <2>1. \A n : NodeSections(<<>>, n) = {}
    BY <1>3 DEF NodeSections
  <2> QED
    BY <2>1, NodeAsWrittenUnfolds, Zenon
<1>8. NoneYet(<<>>)
  BY <1>3 DEF NoneYet
<1>9. ~(-1 > 0)
  OBVIOUS
<1>10. StateType(Start)
  BY <1>1, <1>2, Zenon DEF StateType
<1>11. Where(<<>>, Start)
  BY <1>1, <1>4, <1>6, Zenon DEF Where
<1>12. Current(<<>>, Start)
  BY <1>1, <1>2, <1>8, <1>9, Zenon DEF Current
<1>13. Complete(<<>>, Start)
  BY <1>1, <1>7, Zenon DEF Complete
<1> QED
  BY <1>1, <1>3, <1>5, <1>10, <1>11, <1>12, <1>13, Zenon DEF ReadSoFar

\* All lines.
LEMMA LoadedIsAsWritten ==
    ASSUME NEW L, NEW st, ReadSoFar(L, st)
    PROVE  AsWritten(L, Loaded(st))
<1>1. CASE st.thrown
  <2>1. BadFile(L) /\ Loaded(st) = st
    BY <1>1, Zenon DEF ReadSoFar, Loaded
  <2> QED
    BY <1>1, <2>1, Zenon DEF AsWritten
<1>2. CASE ~st.thrown
  <2>1. ~BadFile(L) /\ Loaded(st) = Save(st)
    BY <1>2, Zenon DEF ReadSoFar, Loaded
  <2>2. ~Save(st).thrown /\ \A n \in NodeId : NodeAsWritten(L, n, Save(st).nodes[n])
    BY <1>2, SaveCompletes
  <2> QED
    BY <2>1, <2>2, Zenon DEF AsWritten
<1> QED
  BY <1>1, <1>2
-----------------------------------------------------------------------------
(* The process at its configuration *)

\* What the process has read of its configuration.
ReadingInv ==
    /\ proc \in {"arguments", "open"} => lines = <<>> /\ config = Start
    /\ proc = "reading" => ReadSoFar(lines, config)
    /\ proc = "loaded" => AsWritten(lines, config)

\* The steps of the process at its configuration, and all others.
Elsewhere ==
    /\ proc' \notin {"arguments", "open", "reading", "loaded"} \/ UNCHANGED proc
    /\ UNCHANGED <<lines, config>>

\* Every step is one of them.
LEMMA StepsOfTheConfiguration ==
    ASSUME [CLNext]_allVars
    PROVE  \/ ParseArguments \/ OpenFile \/ EndOfFile \/ UseConfig
           \/ \E l \in Line : ReadNextLine(l)
           \/ Elsewhere
<1>1. CASE ProcessStep
  <2>1. ASSUME NEW c \in Connection, CallConnect(c) \/ Connected(c) PROVE Elsewhere
    BY <2>1 DEF CallConnect, Connected, Elsewhere, Step, Exit
  <2>2. ASSUME NEW o \in Operation, RunCommand(o) \/ CommandEnds(o) \/ OperationEnds(o) PROVE Elsewhere
    BY <2>2 DEF RunCommand, CallOperation, CommandEnds, OperationEnds, Elsewhere, Step, Exit
  <2> QED
    BY <1>1, <2>1, <2>2, Zenon DEF ProcessStep
<1>2. CASE Quit
  BY <1>2 DEF Quit, Elsewhere, Step, Exit
<1>3. ASSUME NEW o \in Operation, NEW c \in Command, PromptOperation(o, c) PROVE Elsewhere
  BY <1>3 DEF PromptOperation, CallOperation, Elsewhere, Step
<1>4. CASE UNCHANGED processVars
  BY <1>4 DEF processVars, Elsewhere
<1>5. CASE UNCHANGED allVars
  BY <1>5 DEF allVars, processVars, Elsewhere
<1> QED
  BY <1>1, <1>2, <1>3, <1>4, <1>5, Zenon DEF CLNext

\* ReadingInv is inductive.
LEMMA ReadingStep ==
    ASSUME ReadingInv, [CLNext]_allVars
    PROVE  ReadingInv'
<1>1. CASE ParseArguments
  BY <1>1 DEF ParseArguments, ReadingInv, Step
<1>2. CASE OpenFile
  BY <1>2, NothingRead DEF OpenFile, ReadingInv, Step, Exit
<1>3. CASE EndOfFile
  <2>1. AsWritten(lines, Loaded(config))
    BY <1>3, LoadedIsAsWritten DEF EndOfFile, ReadingInv
  <2> QED
    BY <1>3, <2>1 DEF EndOfFile, ReadingInv, Step
<1>4. CASE UseConfig
  BY <1>4 DEF UseConfig, ReadingInv, Step, Exit
<1>5. ASSUME NEW l \in Line, ReadNextLine(l) PROVE ReadingInv'
  <2>1. ReadSoFar(lines', config')
    BY <1>5, ReadLineKeeps DEF ReadNextLine, ReadingInv
  <2>2. proc = "reading" /\ proc' = proc
    BY <1>5 DEF ReadNextLine
  <2> QED
    BY <2>1, <2>2 DEF ReadingInv
<1>6. CASE Elsewhere
  BY <1>6 DEF Elsewhere, ReadingInv
<1> QED
  BY <1>1, <1>2, <1>3, <1>4, <1>5, <1>6, StepsOfTheConfiguration

\* ReadingInv holds at the start.
LEMMA ReadingStart == CLInit => ReadingInv
BY DEF CLInit, ReadingInv

\* Nodes are configured as the last section of their id says, for files of any
\* length: the loop has at every line the nodes of the lines before it
\* (loadFromFile).
THEOREM FilesAreReadAsWritten == CLSpec => []ConfigAsWritten
<1>1. ReadingInv => ConfigAsWritten
  BY DEF ReadingInv, ConfigAsWritten
<1> QED
  BY <1>1, ReadingStart, ReadingStep, PTL DEF CLSpec
-----------------------------------------------------------------------------
(* What is sent *)

\* The words are those that were typed, but for the file; they are sent once.
TypedInv ==
    mode = "once" =>
      /\ proc # "prompt"
      /\ proc \notin {"operating", "exited"} => sent = Nothing
      /\ words = SplitArguments(typed)
      /\ \E n \in 0..MaxWords : \E paths \in SUBSET (1..n) : typed = [i \in 1..n |-> Word(i, i \in paths)]

\* Words that are left are those before the path, in their order.
LEMMA WordsInOrder ==
    ASSUME NEW n \in Nat, NEW paths,
           SplitArguments([i \in 1..n |-> Word(i, i \in paths)]) # <<>>
    PROVE  LET t == [i \in 1..n |-> Word(i, i \in paths)]
               w == SplitArguments(t)
               m == IF t[Len(t)].path THEN Len(t) - 1 ELSE Len(t)
           IN  Len(w) = m /\ m \in Nat /\ \A i \in 1..m : w[i].pos = i
<1> DEFINE t == [i \in 1..n |-> Word(i, i \in paths)]
           w == SplitArguments(t)
           Typed == {Word(i, i \in paths) : i \in 1..n}
<1>1. /\ t \in Seq(Typed) /\ Len(t) = n
      /\ \A i \in 1..n : t[i].pos = i
  <2>1. \A i \in 1..n : t[i].pos = i
    BY DEF Word
  <2>2. t \in [1..n -> Typed]
    OBVIOUS
  <2> HIDE DEF t, Typed
  <2> QED
    BY <2>1, <2>2
<1>2. w = IF t # <<>> /\ t[n].path THEN SubSeq(t, 1, n - 1) ELSE t
  BY <1>1 DEF SplitArguments
<1> HIDE DEF t, w
<1>3. t # <<>>
  BY <1>2 DEF t, w
<1>4. n > 0
  BY <1>1, <1>3
<1>5. CASE t[n].path
  <2>1. w = SubSeq(t, 1, n - 1)
    BY <1>2, <1>3, <1>5
  <2>2. Len(w) = n - 1 /\ \A i \in 1..n - 1 : w[i] = t[i]
    BY <1>1, <1>4, <2>1
  <2> QED
    BY <1>1, <1>4, <1>5, <2>2 DEF t, w
<1>6. CASE ~t[n].path
  <2>1. w = t
    BY <1>2, <1>6
  <2> QED
    BY <1>1, <1>6, <2>1 DEF t, w
<1> QED
  BY <1>5, <1>6

\* The steps that type and send, and all others.
LEMMA StepsOfTheWords ==
    ASSUME [CLNext]_allVars, mode = "once", proc # "prompt"
    PROVE  \/ ParseArguments
           \/ \E o \in Operation : RunCommand(o)
           \/ /\ UNCHANGED <<mode, words, typed, command, sent>> /\ proc' # "prompt"
              /\ proc \in {"operating", "exited"} => proc' \in {"operating", "exited"}
<1> DEFINE Others ==
             /\ UNCHANGED <<mode, words, typed, command, sent>> /\ proc' # "prompt"
             /\ proc \in {"operating", "exited"} => proc' \in {"operating", "exited"}
<1>1. CASE OpenFile \/ EndOfFile \/ UseConfig
  BY <1>1 DEF OpenFile, EndOfFile, UseConfig, Step, Exit
<1>2. ASSUME NEW l \in Line, ReadNextLine(l) PROVE Others
  BY <1>2 DEF ReadNextLine
<1>3. ASSUME NEW c \in Connection, CallConnect(c) \/ Connected(c) PROVE Others
  BY <1>3 DEF CallConnect, Connected, Step, Exit
<1>4. ASSUME NEW o \in Operation, CommandEnds(o) \/ OperationEnds(o) PROVE Others
  BY <1>4 DEF CommandEnds, OperationEnds, Step, Exit
<1>5. CASE UNCHANGED processVars
  BY <1>5 DEF processVars
<1>6. CASE UNCHANGED allVars
  BY <1>6 DEF allVars, processVars
<1>7. ~Quit /\ \A o \in Operation, c \in Command : ~PromptOperation(o, c)
  BY DEF Quit, PromptOperation
<1> HIDE DEF Others
<1>8. ProcessStep => Others \/ ParseArguments \/ \E o \in Operation : RunCommand(o)
  BY <1>1, <1>2, <1>3, <1>4, Zenon DEF ProcessStep, Others
<1> QED
  BY <1>5, <1>6, <1>7, <1>8, Zenon DEF CLNext, Others

\* What was typed is kept until it is sent, as it was.
LEMMA TypedStep ==
    ASSUME TypedInv, SendsWhatWasTyped, [CLNext]_allVars
    PROVE  TypedInv' /\ SendsWhatWasTyped'
<1>1. mode' = mode
  BY DEF CLNext, ProcessStep, ParseArguments, OpenFile, EndOfFile, UseConfig, ReadNextLine, CallConnect, Connected,
         RunCommand, CommandEnds, OperationEnds, Quit, PromptOperation, processVars, allVars
<1>2. CASE mode # "once"
  BY <1>1, <1>2 DEF TypedInv, SendsWhatWasTyped
<1>3. CASE mode = "once"
  <2>1. CASE ParseArguments
    <3>1. /\ \E n \in 0..MaxWords : \E paths \in SUBSET (1..n) :
               /\ typed' = [i \in 1..n |-> Word(i, i \in paths)]
               /\ words' = SplitArguments([i \in 1..n |-> Word(i, i \in paths)])
          /\ proc' = "open" /\ sent' = sent /\ proc = "arguments"
      BY <1>3, <2>1 DEF ParseArguments, Step
    <3>2. words' = SplitArguments(typed')
      BY <3>1
    <3>3. sent' = Nothing
      BY <1>3, <3>1 DEF TypedInv
    <3> QED
      BY <3>1, <3>2, <3>3 DEF TypedInv, SendsWhatWasTyped
  <2>2. ASSUME NEW o \in Operation, RunCommand(o) PROVE TypedInv' /\ SendsWhatWasTyped'
    <3>1. UNCHANGED <<mode, words, typed, command>> /\ proc = "command"
      BY <2>2 DEF RunCommand
    <3>2. CASE Len(words) < (IF command = "PUT" THEN 2 ELSE 1)
      BY <2>2, <3>1, <3>2 DEF RunCommand, Exit, Step, TypedInv, SendsWhatWasTyped
    <3>3. CASE ~(Len(words) < (IF command = "PUT" THEN 2 ELSE 1))
      <4>1. /\ proc' = "operating"
            /\ sent' = [key |-> words[1].pos,
                        value |-> IF command = "PUT" THEN [i \in 1..Len(words)-1 |-> words[i+1].pos] ELSE <<>>]
        BY <2>2, <3>3 DEF RunCommand, CallOperation, Step
      <4>2. TypedInv'
        BY <1>3, <3>1, <4>1 DEF TypedInv
      <4>3. PICK n \in 0..MaxWords : \E paths \in SUBSET (1..n) : typed = [i \in 1..n |-> Word(i, i \in paths)]
        BY <1>3 DEF TypedInv
      <4>4. PICK paths \in SUBSET (1..n) : typed = [i \in 1..n |-> Word(i, i \in paths)]
        BY <4>3
      <4>5. n \in Nat
        BY <4>3
      <4>6. words = SplitArguments(typed)
        BY <1>3 DEF TypedInv
      <4>7. words # <<>>
        BY <3>3
      <4> DEFINE m == IF typed[Len(typed)].path THEN Len(typed) - 1 ELSE Len(typed)
      <4>8. Len(words) = m /\ m \in Nat /\ \A i \in 1..m : words[i].pos = i
        BY <4>4, <4>5, <4>6, <4>7, WordsInOrder
      <4> HIDE DEF m
      <4>9. m >= 1 /\ (command = "PUT" => m >= 2)
        BY <3>3, <4>8
      <4>10. sent'.key = 1
        BY <4>1, <4>8, <4>9
      <4>11. command = "PUT" => sent'.value = [i \in 1..m-1 |-> i + 1]
        BY <4>1, <4>8, <4>9
      <4> QED
        BY <3>1, <4>2, <4>10, <4>11 DEF SendsWhatWasTyped, m
    <3> QED
      BY <3>2, <3>3
  <2>3. CASE /\ UNCHANGED <<mode, words, typed, command, sent>> /\ proc' # "prompt"
             /\ proc \in {"operating", "exited"} => proc' \in {"operating", "exited"}
    BY <2>3 DEF TypedInv, SendsWhatWasTyped
  <2>4. proc # "prompt"
    BY <1>3 DEF TypedInv
  <2> QED
    BY <1>3, <2>1, <2>2, <2>3, <2>4, StepsOfTheWords
<1> QED
  BY <1>2, <1>3

\* Nothing is typed or sent at the start.
LEMMA TypedStart == CLInit => TypedInv /\ SendsWhatWasTyped
<1> SUFFICES ASSUME CLInit PROVE TypedInv /\ SendsWhatWasTyped
  OBVIOUS
<1>1. sent = Nothing /\ typed = <<>> /\ words = <<>> /\ proc # "prompt"
  BY DEF CLInit
<1>2. 0 \in 0..MaxWords /\ {} \in SUBSET (1..0) /\ <<>> = [i \in 1..0 |-> Word(i, i \in {})]
  BY WordsAreBounded
<1>3. SplitArguments(<<>>) = <<>>
  BY DEF SplitArguments
<1> QED
  BY <1>1, <1>2, <1>3 DEF TypedInv, SendsWhatWasTyped

\* The key is the first word and the value the others in their order, but for a
\* last word that looks like a path, for commands of any length (main of
\* kv_client_cli.cpp).
THEOREM WordsAreSentAsTyped == CLSpec => []SendsWhatWasTyped
BY TypedStart, TypedStep, PTL DEF CLSpec
-----------------------------------------------------------------------------
(* The calls of the library *)

\* Requests that an operation may have sent, by its place in the loop.
Requests(o) == 2 * retry[o] + (IF at[o] \in {"find_again", "send_again"} THEN 1 ELSE 0)

\* What the place of an operation says of its retries, the address, the requests
\* and the answers to them.
OperationInv(o) ==
    /\ at[o] # "connect"
    /\ at[o] \in {"send", "send_again", "find_again"} => retry[o] < maxRetries
    /\ at[o] \in {"loop", "send", "send_again", "find_again"} => currentLeader # Unknown
    /\ at[o] \in {"new", "find_first", "loop", "send", "find_again", "send_again"} => submitted[o] <= Requests(o)
    /\ submitted[o] <= 2 * MaxRetries
    /\ at[o] = "true" <=> ledAnswer[o] = "success"

CallsInv ==
    /\ ClientTypeOK
    /\ \A o \in Operation : OperationInv(o)
    /\ \A c \in Connection : at[c] \in {"new", "connect", "true", "false"}

\* A call that does not hold mutex_ is not disturbed by the one that does.
LEMMA OthersStay ==
    ASSUME ClientTypeOK, NEW o \in Operation, OperationInv(o), mutex_ # o,
           at'[o] = at[o], retry'[o] = retry[o], submitted'[o] = submitted[o], ledAnswer'[o] = ledAnswer[o]
    PROVE  OperationInv(o)'
<1>1. at[o] \in {"new", "true", "false"}
  BY DEF ClientTypeOK, Call
<1> QED
  BY <1>1 DEF OperationInv, Requests

\* A call moves on, and releases mutex_ when it returns.
LEMMA Moves ==
    ASSUME ClientTypeOK, NEW c \in Call, NEW place \in Inside \cup {"new", "true", "false"},
           at' = [at EXCEPT ![c] = place],
           IF place \in Inside THEN mutex_' = c /\ mutex_ \in {c, NoCall}
           ELSE mutex_' = NoCall /\ mutex_ \in {c, NoCall}
    PROVE  /\ at' \in [Call -> Inside \cup {"new", "true", "false"}]
           /\ mutex_' \in Call \cup {NoCall}
           /\ \A x \in Call : at'[x] \in Inside <=> mutex_' = x
           /\ at'[c] = place /\ \A x \in Call : x # c => at'[x] = at[x]
           /\ \A x \in Call : x # c => mutex_ # x
<1>1. NoCall \notin Call
  BY CallsDistinct DEF Call
<1>2. place \in {"new", "true", "false"} => place \notin Inside
  BY DEF Inside, Finding, Sending
<1>3. /\ at \in [Call -> Inside \cup {"new", "true", "false"}]
      /\ \A x \in Call : at[x] \in Inside <=> mutex_ = x
  BY DEF ClientTypeOK
<1> HIDE DEF Inside
<1>4. \A x \in Call : x # c => at'[x] = at[x] /\ mutex_ # x /\ mutex_' # x /\ at[x] \notin Inside
  BY <1>1, <1>3
<1>5. at'[c] = place /\ (place \in Inside <=> mutex_' = c)
  BY <1>1, <1>3
<1> QED
  BY <1>1, <1>3, <1>4, <1>5

\* The variables of the library, but for the places of the calls.
AnswersOK == ledAnswer \in [Operation -> {"none", "error", "success"}]
ValuesOK ==
    /\ currentLeader \in Address \cup {Unknown}
    /\ lastError \in {"none", "rpc_failed", "error_of_the_server", "not_leader",
                      "cannot_find_leader", "max_retries_exceeded"}
    /\ maxRetries \in 0..MaxRetries
    /\ scan \in [Call -> 1..NumServers+1]
    /\ retry \in [Operation -> 0..MaxRetries]
    /\ submitted \in [Operation -> Nat] /\ executions \in [Operation -> Nat]
    /\ AnswersOK

\* A step of one call keeps the invariant if that call's part holds.
LEMMA OneCallMoves ==
    ASSUME CallsInv, ValuesOK', NEW c \in Call, NEW place \in Inside \cup {"new", "true", "false"},
           at' = [at EXCEPT ![c] = place],
           IF place \in Inside THEN mutex_' = c /\ mutex_ \in {c, NoCall}
           ELSE mutex_' = NoCall /\ mutex_ \in {c, NoCall},
           \A o \in Operation : o # c => /\ retry'[o] = retry[o] /\ submitted'[o] = submitted[o]
                                         /\ ledAnswer'[o] = ledAnswer[o],
           c \in Operation => OperationInv(c)',
           c \in Connection => place \in {"new", "connect", "true", "false"}
    PROVE  CallsInv'
<1>1. /\ at' \in [Call -> Inside \cup {"new", "true", "false"}]
      /\ mutex_' \in Call \cup {NoCall}
      /\ \A x \in Call : at'[x] \in Inside <=> mutex_' = x
      /\ at'[c] = place /\ \A x \in Call : x # c => at'[x] = at[x]
      /\ \A x \in Call : x # c => mutex_ # x
  BY Moves DEF CallsInv
<1>2. ClientTypeOK'
  BY <1>1 DEF ClientTypeOK, ValuesOK, AnswersOK
<1>3. ASSUME NEW o \in Operation PROVE OperationInv(o)'
  <2>1. CASE o = c
    BY <2>1
  <2>2. CASE o # c
    <3>1. o \in Call
      BY DEF Call
    <3> QED
      BY <1>1, <2>2, <3>1, OthersStay DEF CallsInv
  <2> QED
    BY <2>1, <2>2
<1>4. ASSUME NEW x \in Connection PROVE at'[x] \in {"new", "connect", "true", "false"}
  <2>1. x \in Call
    BY DEF Call
  <2> QED
    BY <1>1, <2>1 DEF CallsInv
<1> QED
  BY <1>2, <1>3, <1>4 DEF CallsInv

\* What the invariant says of a call that is inside.
LEMMA InsideHolds ==
    ASSUME CallsInv, NEW c \in Call, at[c] \in Inside
    PROVE  mutex_ = c /\ ValuesOK
BY DEF CallsInv, ClientTypeOK, ValuesOK, AnswersOK

\* The numbers of an operation are naturals, within the bounds.
LEMMA Numbers ==
    ASSUME ValuesOK, NEW c \in Operation
    PROVE  /\ retry[c] \in Nat /\ submitted[c] \in Nat /\ executions[c] \in Nat
           /\ maxRetries \in Nat /\ maxRetries <= MaxRetries /\ MaxRetries \in Nat
<1>1. MaxRetries \in Nat
  BY ClientBounds
<1>2. maxRetries \in 0..MaxRetries
  BY DEF ValuesOK
<1>3. retry[c] \in 0..MaxRetries
  BY DEF ValuesOK
<1>4. submitted[c] \in Nat /\ executions[c] \in Nat
  BY DEF ValuesOK
<1> QED
  BY <1>1, <1>2, <1>3, <1>4

\* Counting up.
LEMMA CountedUp ==
    ASSUME NEW f \in [Operation -> Nat], NEW g, NEW c \in Operation, g = [f EXCEPT ![c] = @ + 1]
    PROVE  g \in [Operation -> Nat] /\ g[c] = f[c] + 1 /\ f[c] \in Nat /\ \A o \in Operation : o # c => g[o] = f[o]
OBVIOUS

\* A retry that was left may be counted.
LEMMA RetryCounted ==
    ASSUME ValuesOK, NEW c \in Operation, retry[c] < maxRetries, retry' = [retry EXCEPT ![c] = @ + 1]
    PROVE  /\ retry' \in [Operation -> 0..MaxRetries] /\ retry'[c] = retry[c] + 1
           /\ \A o \in Operation : o # c => retry'[o] = retry[o]
<1>1. retry \in [Operation -> 0..MaxRetries]
  BY DEF ValuesOK
<1>2. retry[c] + 1 \in 0..MaxRetries
  <2>1. retry[c] \in Nat /\ maxRetries \in Nat /\ maxRetries <= MaxRetries /\ MaxRetries \in Nat
    BY Numbers
  <2> QED
    BY <2>1
<1> QED
  BY <1>1, <1>2

\* The test of the loop: a retry is left, or the call returns.
LEMMA LoopHeadKeeps ==
    ASSUME CallsInv, NEW c \in Operation, LoopHead(c)
    PROVE  CallsInv'
<1>1. c \in Call /\ at[c] = "loop"
  BY DEF Call, LoopHead
<1>2. mutex_ = c /\ ValuesOK /\ OperationInv(c)
  BY <1>1, InsideHolds DEF Inside, CallsInv
<1>3. UNCHANGED <<maxRetries, currentLeader, scan, retry, submitted, executions, ledAnswer>>
  BY DEF LoopHead
<1>4. at \in [Call -> Inside \cup {"new", "true", "false"}]
  BY DEF CallsInv, ClientTypeOK
<1>5. CASE retry[c] < maxRetries /\ GoTo(c, "send") /\ UNCHANGED <<mutex_, lastError>>
  <2>1. ValuesOK' /\ at' = [at EXCEPT ![c] = "send"] /\ mutex_' = c
    BY <1>2, <1>3, <1>5 DEF ValuesOK, GoTo, AnswersOK
  <2>2. at'[c] = "send"
    BY <1>1, <1>4, <2>1
  <2>3. OperationInv(c)'
    BY <1>1, <1>2, <1>3, <1>5, <2>2 DEF OperationInv, Requests
  <2> QED
    BY <1>1, <1>2, <1>3, <2>1, <2>3, OneCallMoves, CallsDistinct DEF Inside, Sending
<1>6. CASE retry[c] >= maxRetries /\ Return(c, "false") /\ lastError' = "max_retries_exceeded"
  <2>1. ValuesOK' /\ at' = [at EXCEPT ![c] = "false"] /\ mutex_' = NoCall
    BY <1>2, <1>3, <1>6 DEF ValuesOK, GoTo, Return, AnswersOK
  <2>2. at'[c] = "false"
    BY <1>1, <1>4, <2>1
  <2>3. OperationInv(c)'
    BY <1>1, <1>2, <1>3, <1>6, <2>2 DEF OperationInv, Requests
  <2> QED
    BY <1>1, <1>2, <1>3, <2>1, <2>3, OneCallMoves, CallsDistinct DEF Inside, Sending, Finding
<1> QED
  BY <1>5, <1>6 DEF LoopHead

\* A request that fails: the first is repeated after a search, the second is the
\* end of the retry; the command may have been submitted.
LEMMA TryAgainKeeps ==
    ASSUME CallsInv, NEW c \in Operation, at[c] \in Sending, TryAgain(c), MaySubmit(c),
           lastError' \in {"rpc_failed", "error_of_the_server", "not_leader"},
           AnswersOK', ledAnswer'[c] # "success", \A o \in Operation : o # c => ledAnswer'[o] = ledAnswer[o],
           UNCHANGED <<maxRetries, currentLeader, mutex_, executions>>
    PROVE  CallsInv'
<1>1. c \in Call /\ at[c] \in Inside
  BY DEF Call, Inside
<1>2. mutex_ = c /\ ValuesOK /\ OperationInv(c)
  BY <1>1, InsideHolds DEF CallsInv
<1>3. at \in [Call -> Inside \cup {"new", "true", "false"}]
  BY DEF CallsInv, ClientTypeOK
<1>4. /\ submitted' \in [Operation -> Nat]
      /\ submitted'[c] <= submitted[c] + 1
      /\ \A o \in Operation : o # c => submitted'[o] = submitted[o]
  <2>1. submitted \in [Operation -> Nat]
    BY <1>2 DEF ValuesOK
  <2>2. CASE submitted' = submitted
    <3>1. submitted[c] \in Nat
      BY <2>1
    <3>2. submitted'[c] <= submitted[c] + 1
      BY <2>2, <3>1
    <3> QED
      BY <2>1, <2>2, <3>2, Zenon
  <2>3. CASE submitted' = [submitted EXCEPT ![c] = @ + 1]
    <3> DEFINE g == submitted'
    <3>1. g = [submitted EXCEPT ![c] = @ + 1]
      BY <2>3
    <3> HIDE DEF g
    <3>2. /\ g \in [Operation -> Nat] /\ g[c] = submitted[c] + 1 /\ submitted[c] \in Nat
          /\ \A o \in Operation : o # c => g[o] = submitted[o]
      BY <2>1, <3>1, CountedUp
    <3>3. g[c] <= submitted[c] + 1
      BY <3>2
    <3> QED
      BY <3>2, <3>3, Zenon DEF g
  <2> QED
    BY <2>2, <2>3 DEF MaySubmit
<1>5. /\ retry[c] \in Nat /\ submitted[c] \in Nat /\ submitted'[c] \in Nat /\ maxRetries \in Nat
      /\ maxRetries <= MaxRetries /\ MaxRetries \in Nat
  BY <1>2, <1>4, Numbers
<1>6. retry[c] < maxRetries /\ submitted[c] <= Requests(c) /\ currentLeader # Unknown
  BY <1>2 DEF OperationInv, Sending
<1>7. CASE at[c] = "send" /\ FindLeader(c, "find_again") /\ UNCHANGED retry
  <2>1. at' = [at EXCEPT ![c] = "find_again"] /\ ValuesOK'
    BY <1>1, <1>2, <1>4, <1>7, ClientBounds DEF ValuesOK, FindLeader, GoTo, AnswersOK
  <2>2. at'[c] = "find_again"
    BY <1>1, <1>3, <2>1
  <2>3. OperationInv(c)'
    BY <1>4, <1>5, <1>6, <1>7, <2>2 DEF OperationInv, Requests
  <2> QED
    BY <1>1, <1>2, <1>4, <1>7, <2>1, <2>3, OneCallMoves, CallsDistinct DEF Inside, Finding
<1>8. CASE /\ at[c] = "send_again" /\ GoTo(c, "loop")
           /\ retry' = [retry EXCEPT ![c] = @ + 1] /\ UNCHANGED scan
  <2>1. at' = [at EXCEPT ![c] = "loop"]
    BY <1>8 DEF GoTo
  <2>2. /\ retry' \in [Operation -> 0..MaxRetries] /\ retry'[c] = retry[c] + 1
        /\ \A o \in Operation : o # c => retry'[o] = retry[o]
    BY <1>2, <1>6, <1>8, RetryCounted
  <2>3. ValuesOK'
    BY <1>2, <1>4, <1>8, <2>2 DEF ValuesOK
  <2>4. at'[c] = "loop"
    BY <1>1, <1>3, <2>1
  <2>5. OperationInv(c)'
    BY <1>4, <1>5, <1>6, <1>8, <2>2, <2>4 DEF OperationInv, Requests
  <2> QED
    BY <1>1, <1>2, <1>4, <2>1, <2>2, <2>3, <2>5, OneCallMoves, CallsDistinct DEF Inside
<1> QED
  BY <1>7, <1>8 DEF TryAgain

\* Every outcome of sendRequest.
LEMMA SendRequestKeeps ==
    ASSUME CallsInv, NEW c \in Operation, sendRequest(c)
    PROVE  CallsInv'
<1>1. c \in Call /\ at[c] \in Sending /\ at[c] \in Inside
  BY DEF Call, Inside, sendRequest, RpcFails, Refused, NotLeader, Redirected, Succeeds
<1>2. mutex_ = c /\ ValuesOK /\ OperationInv(c)
  BY <1>1, InsideHolds DEF CallsInv
<1>3. at \in [Call -> Inside \cup {"new", "true", "false"}]
  BY DEF CallsInv, ClientTypeOK
<1>4. ledAnswer[c] # "success" /\ ledAnswer \in [Operation -> {"none", "error", "success"}]
  BY <1>1, <1>2 DEF OperationInv, Sending, ValuesOK, AnswersOK
<1>5. CASE RpcFails(c)
  <2>1. AnswersOK' /\ UNCHANGED ledAnswer
    BY <1>4, <1>5 DEF RpcFails, AnswersOK
  <2> QED
    BY <1>1, <1>5, <1>4, <2>1, TryAgainKeeps DEF RpcFails
<1>6. CASE Refused(c)
  <2>1. /\ AnswersOK' /\ ledAnswer'[c] # "success"
        /\ \A o \in Operation : o # c => ledAnswer'[o] = ledAnswer[o]
    BY <1>4, <1>6 DEF Refused, AnswersOK
  <2> QED
    BY <1>1, <1>6, <2>1, TryAgainKeeps DEF Refused
<1>7. CASE NotLeader(c)
  <2>1. MaySubmit(c)
    BY <1>7 DEF NotLeader, MaySubmit
  <2>2. AnswersOK' /\ UNCHANGED ledAnswer
    BY <1>4, <1>7 DEF NotLeader, AnswersOK
  <2> QED
    BY <1>1, <1>7, <1>4, <2>1, <2>2, TryAgainKeeps DEF NotLeader
<1>8. CASE Redirected(c)
  <2>1. at' = [at EXCEPT ![c] = "relock"] /\ ValuesOK'
    BY <1>2, <1>8 DEF Redirected, GoTo, ValuesOK, AnswersOK
  <2>2. at'[c] = "relock"
    BY <1>1, <1>3, <2>1
  <2>3. OperationInv(c)'
    BY <1>2, <1>8, <1>4, <2>2 DEF Redirected, OperationInv
  <2> QED
    BY <1>1, <1>2, <1>8, <2>1, <2>3, OneCallMoves, CallsDistinct DEF Redirected, Inside
<1>9. CASE Succeeds(c)
  <2>1. at' = [at EXCEPT ![c] = "true"] /\ mutex_' = NoCall /\ ValuesOK'
    <3>1. executions \in [Operation -> Nat]
      BY <1>2 DEF ValuesOK
    <3>2. executions' \in [Operation -> Nat]
      BY <1>9, <3>1 DEF Succeeds
    <3>3. submitted' \in [Operation -> Nat]
      BY <1>2, <1>9 DEF Succeeds, ValuesOK
    <3>4. AnswersOK'
      BY <1>9, <1>4 DEF Succeeds, AnswersOK
    <3>5. UNCHANGED <<maxRetries, currentLeader, lastError, scan, retry>>
      BY <1>9 DEF Succeeds
    <3>6. ValuesOK'
      BY <1>2, <3>2, <3>3, <3>4, <3>5 DEF ValuesOK
    <3> QED
      BY <1>9, <3>6 DEF Succeeds, Return, GoTo
  <2>2. at'[c] = "true"
    BY <1>1, <1>3, <2>1
  <2>3. /\ submitted'[c] = submitted[c] + 1 /\ ledAnswer'[c] = "success"
        /\ \A o \in Operation : o # c => submitted'[o] = submitted[o] /\ ledAnswer'[o] = ledAnswer[o]
    BY <1>2, <1>9, <1>4 DEF Succeeds, ValuesOK
  <2>4. retry[c] < maxRetries /\ submitted[c] <= Requests(c)
    BY <1>1, <1>2 DEF OperationInv, Sending
  <2>5. /\ retry[c] \in Nat /\ submitted[c] \in Nat /\ executions[c] \in Nat
        /\ maxRetries \in Nat /\ maxRetries <= MaxRetries /\ MaxRetries \in Nat
    BY <1>2, Numbers
  <2>6. OperationInv(c)'
    BY <2>2, <2>3, <2>4, <2>5 DEF OperationInv, Requests
  <2> QED
    BY <1>1, <1>2, <1>9, <2>1, <2>3, <2>6, OneCallMoves, CallsDistinct DEF Succeeds, Inside, Finding, Sending
<1> QED
  BY <1>5, <1>6, <1>7, <1>8, <1>9 DEF sendRequest

\* The cluster may execute what was submitted at any time.
LEMMA ExecuteKeeps ==
    ASSUME CallsInv, NEW c \in Operation, Execute(c)
    PROVE  CallsInv'
<1>1. executions \in [Operation -> Nat] /\ executions' = [executions EXCEPT ![c] = @ + 1]
  BY DEF CallsInv, ClientTypeOK, Execute
<1>2. executions' \in [Operation -> Nat] /\ \A o \in Operation : executions'[o] >= executions[o]
  BY <1>1
<1>3. UNCHANGED <<maxRetries, currentLeader, lastError, mutex_, at, scan, retry, submitted, ledAnswer>>
  BY DEF Execute
<1>4. ClientTypeOK'
  BY <1>2, <1>3 DEF CallsInv, ClientTypeOK
<1>5. ASSUME NEW o \in Operation PROVE OperationInv(o)'
  BY <1>1, <1>2, <1>3 DEF CallsInv, OperationInv, Requests
<1> QED
  BY <1>3, <1>4, <1>5 DEF CallsInv

\* A search that ends well or badly.
LEMMA SearchKeeps ==
    ASSUME CallsInv, NEW c \in Call, FindStep(c)
    PROVE  CallsInv'
<1>1. at[c] \in Finding /\ at[c] \in Inside
  BY DEF FindStep, Probe, SearchEnds, Inside
<1>2. mutex_ = c /\ ValuesOK
  BY <1>1, InsideHolds
<1>3. /\ at \in [Call -> Inside \cup {"new", "true", "false"}]
      /\ c \in Operation => OperationInv(c)
      /\ c \in Connection => at[c] = "connect"
  BY <1>1 DEF CallsInv, ClientTypeOK, Inside, Finding, Sending
<1>4. at[c] \in {"find_first", "find_again"} => c \in Operation
  BY <1>3 DEF Call
<1>5. at[c] = "connect" => c \in Connection /\ c \notin Operation
  BY <1>3 DEF Call, OperationInv
<1>6. UNCHANGED <<maxRetries, submitted, executions, ledAnswer>>
  BY DEF FindStep, Probe, SearchEnds
<1>7. c \in Operation => /\ retry[c] \in Nat /\ submitted[c] \in Nat
                         /\ maxRetries \in Nat /\ maxRetries <= MaxRetries /\ MaxRetries \in Nat
                         /\ at[c] = "find_again" => retry[c] < maxRetries
                         /\ submitted[c] <= Requests(c)
  <2>1. ASSUME c \in Operation
        PROVE  /\ retry[c] \in Nat /\ submitted[c] \in Nat
               /\ maxRetries \in Nat /\ maxRetries <= MaxRetries /\ MaxRetries \in Nat
    BY <1>2, <2>1, Numbers
  <2>2. ASSUME c \in Operation
        PROVE  (at[c] = "find_again" => retry[c] < maxRetries) /\ submitted[c] <= Requests(c)
    BY <1>1, <1>3, <2>2 DEF OperationInv, Finding
  <2> QED
    BY <2>1, <2>2
<1>8. ASSUME NEW address \in Address, SearchSucceeds(c, address), UNCHANGED scan
      PROVE  CallsInv'
  <2>1. currentLeader' = address /\ address # Unknown /\ UNCHANGED <<lastError, retry>>
    BY <1>8, UnknownIsNoServer DEF SearchSucceeds, Address
  <2>2. ValuesOK'
    BY <1>2, <1>6, <1>8, <2>1 DEF ValuesOK, AnswersOK
  <2>3. CASE at[c] = "connect" /\ Return(c, "true")
    BY <1>2, <1>5, <1>6, <2>1, <2>2, <2>3, OneCallMoves, CallsDistinct DEF Return, GoTo, Inside, Finding, Sending
  <2>4. CASE at[c] = "find_first" /\ GoTo(c, "loop") /\ UNCHANGED mutex_
    <3>1. at'[c] = "loop"
      BY <1>3, <2>4 DEF GoTo
    <3>2. OperationInv(c)'
      BY <1>3, <1>4, <1>6, <1>7, <2>1, <2>4, <3>1 DEF OperationInv, Requests
    <3> QED
      BY <1>2, <1>4, <1>6, <2>1, <2>2, <2>4, <3>2, OneCallMoves, CallsDistinct DEF GoTo, Inside
  <2>5. CASE at[c] = "find_again" /\ GoTo(c, "send_again") /\ UNCHANGED mutex_
    <3>1. at'[c] = "send_again"
      BY <1>3, <2>5 DEF GoTo
    <3>2. OperationInv(c)'
      BY <1>3, <1>4, <1>6, <1>7, <2>1, <2>5, <3>1 DEF OperationInv, Requests
    <3> QED
      BY <1>2, <1>4, <1>6, <2>1, <2>2, <2>5, <3>2, OneCallMoves, CallsDistinct DEF GoTo, Inside, Sending
  <2> QED
    BY <1>8, <2>3, <2>4, <2>5 DEF SearchSucceeds
<1>9. CASE Probe(c)
  <2>1. CASE SearchSucceeds(c, scan[c]) /\ UNCHANGED scan
    <3>1. scan[c] \in Address
      BY <1>2, <1>9, ClientBounds DEF Probe, ValuesOK, Address
    <3> QED
      BY <1>8, <2>1, <3>1
  <2>2. CASE \E a \in Address : SearchSucceeds(c, a) /\ UNCHANGED scan
    BY <1>8, <2>2
  <2>3. CASE scan' = [scan EXCEPT ![c] = @ + 1] /\ UNCHANGED <<currentLeader, lastError, mutex_, at, retry>>
    <3>1. scan[c] + 1 \in 1..NumServers + 1 /\ scan \in [Call -> 1..NumServers + 1]
      BY <1>2, <1>9, ClientBounds DEF Probe, ValuesOK
    <3>2. scan' \in [Call -> 1..NumServers + 1]
      BY <2>3, <3>1
    <3>3. ClientTypeOK'
      BY <1>6, <2>3, <3>2 DEF CallsInv, ClientTypeOK
    <3> QED
      BY <1>6, <2>3, <3>3 DEF CallsInv, OperationInv, Requests
  <2> QED
    BY <1>9, <2>1, <2>2, <2>3 DEF Probe
<1>10. CASE SearchEnds(c)
  <2>1. UNCHANGED scan /\ SearchFails(c)
    BY <1>10 DEF SearchEnds
  <2>2. CASE /\ at[c] \in {"connect", "find_first"} /\ Return(c, "false")
             /\ currentLeader' = Unknown
             /\ lastError' = IF at[c] = "connect" THEN lastError ELSE "cannot_find_leader"
             /\ UNCHANGED retry
    <3>1. ValuesOK'
      BY <1>2, <1>6, <2>1, <2>2 DEF ValuesOK, AnswersOK
    <3>2. at'[c] = "false"
      BY <1>3, <2>2 DEF Return, GoTo
    <3>3. c \in Operation => OperationInv(c)'
      BY <1>3, <1>6, <1>7, <2>2, <3>2 DEF OperationInv, Requests
    <3> QED
      BY <1>2, <1>6, <2>2, <3>1, <3>3, OneCallMoves, CallsDistinct DEF Return, GoTo, Inside, Finding, Sending
  <2>3. CASE /\ at[c] = "find_again" /\ GoTo(c, "loop")
             /\ retry' = [retry EXCEPT ![c] = @ + 1]
             /\ lastError' = "cannot_find_leader" /\ UNCHANGED <<currentLeader, mutex_>>
    <3>1. c \in Operation /\ at'[c] = "loop"
      BY <1>3, <1>4, <2>3 DEF GoTo
    <3>2. /\ retry' \in [Operation -> 0..MaxRetries] /\ retry'[c] = retry[c] + 1
          /\ \A o \in Operation : o # c => retry'[o] = retry[o]
      BY <1>2, <1>7, <2>3, <3>1, RetryCounted
    <3>3. ValuesOK'
      BY <1>2, <1>6, <2>1, <2>3, <3>2 DEF ValuesOK, AnswersOK
    <3>4. OperationInv(c)'
      BY <1>3, <1>6, <1>7, <2>3, <3>1, <3>2 DEF OperationInv, Requests
    <3>5. c \notin Connection
      BY <3>1, CallsDistinct
    <3> QED
      BY <1>2, <1>6, <2>3, <3>1, <3>2, <3>3, <3>4, <3>5, OneCallMoves DEF GoTo, Inside
  <2> QED
    BY <2>1, <2>2, <2>3 DEF SearchFails
<1> QED
  BY <1>9, <1>10 DEF FindStep

\* A call begins: mutex_ is free.
LEMMA BeginKeeps ==
    ASSUME CallsInv, NEW c \in Call,
           (c \in Connection /\ connect(c)) \/ (c \in Operation /\ executeOperation(c))
    PROVE  CallsInv'
<1>1. /\ at[c] = "new" /\ mutex_ = NoCall /\ mutex_' = c
      /\ UNCHANGED <<maxRetries, currentLeader, lastError, retry, submitted, executions, ledAnswer>>
  BY DEF connect, executeOperation
<1>2. ValuesOK /\ at \in [Call -> Inside \cup {"new", "true", "false"}] /\ (c \in Operation => OperationInv(c))
  BY DEF CallsInv, ClientTypeOK, ValuesOK, AnswersOK
<1>3. (UNCHANGED scan \/ scan' = [scan EXCEPT ![c] = 1]) => ValuesOK'
  <2>1. 1 \in 1..NumServers + 1 /\ scan \in [Call -> 1..NumServers + 1]
    BY <1>2, ClientBounds DEF ValuesOK
  <2>2. (UNCHANGED scan \/ scan' = [scan EXCEPT ![c] = 1]) => scan' \in [Call -> 1..NumServers + 1]
    BY <2>1
  <2> QED
    BY <1>1, <1>2, <2>2 DEF ValuesOK, AnswersOK
<1>4. CASE connect(c) /\ c \in Connection
  <2>1. at' = [at EXCEPT ![c] = "connect"] /\ ValuesOK'
    BY <1>3, <1>4 DEF connect, FindLeader, GoTo
  <2>2. c \notin Operation
    BY <1>4, CallsDistinct
  <2> QED
    BY <1>1, <2>1, <2>2, OneCallMoves DEF Inside, Finding
<1>5. CASE executeOperation(c) /\ c \in Operation /\ currentLeader = Unknown
  <2>1. at' = [at EXCEPT ![c] = "find_first"] /\ ValuesOK'
    BY <1>3, <1>5 DEF executeOperation, FindLeader, GoTo
  <2>2. at'[c] = "find_first"
    BY <1>2, <2>1
  <2>3. OperationInv(c)'
    BY <1>1, <1>2, <1>5, <2>2 DEF OperationInv, Requests
  <2>4. c \notin Connection
    BY <1>5, CallsDistinct
  <2> QED
    BY <1>1, <2>1, <2>3, <2>4, OneCallMoves DEF Inside, Finding
<1>6. CASE executeOperation(c) /\ c \in Operation /\ currentLeader # Unknown
  <2>1. at' = [at EXCEPT ![c] = "loop"] /\ ValuesOK'
    BY <1>3, <1>6 DEF executeOperation, GoTo
  <2>2. at'[c] = "loop"
    BY <1>2, <2>1
  <2>3. OperationInv(c)'
    BY <1>1, <1>2, <1>6, <2>2 DEF OperationInv, Requests
  <2>4. c \notin Connection
    BY <1>6, CallsDistinct
  <2> QED
    BY <1>1, <2>1, <2>3, <2>4, OneCallMoves DEF Inside
<1> QED
  BY <1>4, <1>5, <1>6

\* Between calls the address and the retries may change.
LEMMA FreeKeeps ==
    ASSUME CallsInv, disconnect \/ \E n \in 0..MaxRetries : setMaxRetries(n)
    PROVE  CallsInv'
<1>1. /\ mutex_ = NoCall
      /\ UNCHANGED <<lastError, mutex_, at, scan, retry, submitted, executions, ledAnswer>>
      /\ currentLeader' \in {currentLeader, Unknown} /\ maxRetries' \in {maxRetries} \cup 0..MaxRetries
  BY DEF disconnect, setMaxRetries
<1>2. ClientTypeOK'
  BY <1>1 DEF CallsInv, ClientTypeOK
<1>3. ASSUME NEW o \in Operation PROVE OperationInv(o)'
  BY <1>1, OthersStay, CallsDistinct DEF CallsInv
<1> QED
  BY <1>1, <1>2, <1>3 DEF CallsInv

\* CallsInv is inductive.
LEMMA CallsStep ==
    ASSUME CallsInv, [ClientNext]_clientVars
    PROVE  CallsInv'
<1>1. CASE UNCHANGED clientVars
  BY <1>1 DEF clientVars, CallsInv, ClientTypeOK, OperationInv, Requests
<1>2. CASE disconnect \/ \E n \in 0..MaxRetries : setMaxRetries(n)
  BY <1>2, FreeKeeps
<1>3. ASSUME NEW c \in Connection, connect(c) PROVE CallsInv'
  <2>1. c \in Call
    BY DEF Call
  <2> QED
    BY <1>3, <2>1, BeginKeeps
<1>4. ASSUME NEW c \in Operation, executeOperation(c) \/ OperationStep(c) \/ Execute(c) PROVE CallsInv'
  BY <1>4, BeginKeeps, LoopHeadKeeps, SendRequestKeeps, ExecuteKeeps DEF Call, OperationStep
<1>5. ASSUME NEW c \in Call, FindStep(c) PROVE CallsInv'
  BY <1>5, SearchKeeps
<1> QED
  BY <1>1, <1>2, <1>3, <1>4, <1>5, Zenon DEF ClientNext

\* CallsInv holds at the start.
LEMMA CallsStart == CLInit => CallsInv
<1> SUFFICES ASSUME ClientInit PROVE CallsInv
  BY DEF CLInit
<1>1. ClientTypeOK
  BY ClientBounds, CallsDistinct DEF ClientInit, ClientTypeOK, Call, Inside, Finding, Sending
<1>2. ASSUME NEW o \in Operation PROVE OperationInv(o)
  BY ClientBounds DEF ClientInit, OperationInv, Requests, Call
<1>3. ASSUME NEW c \in Connection PROVE at[c] = "new"
  BY DEF ClientInit, Call
<1> QED
  BY <1>1, <1>2, <1>3 DEF CallsInv

\* Whatever the process does, the library does what it may do.
LEMMA ProcessCallsTheLibrary ==
    ASSUME [CLNext]_allVars
    PROVE  [ClientNext]_clientVars
<1>1. CASE ProcessStep
  <2>1. CASE ParseArguments \/ OpenFile \/ EndOfFile \/ UseConfig
    BY <2>1 DEF ParseArguments, OpenFile, EndOfFile, UseConfig
  <2>2. ASSUME NEW l \in Line, ReadNextLine(l) PROVE UNCHANGED clientVars
    BY <2>2 DEF ReadNextLine
  <2>3. ASSUME NEW c \in Connection, CallConnect(c) \/ Connected(c) PROVE [ClientNext]_clientVars
    BY <2>3 DEF CallConnect, Connected, ClientNext
  <2>4. ASSUME NEW o \in Operation, RunCommand(o) \/ CommandEnds(o) \/ OperationEnds(o) PROVE [ClientNext]_clientVars
    BY <2>4 DEF RunCommand, CallOperation, CommandEnds, OperationEnds, ClientNext
  <2> QED
    BY <1>1, <2>1, <2>2, <2>3, <2>4, Zenon DEF ProcessStep
<1>2. CASE Quit
  BY <1>2 DEF Quit, ClientNext
<1>3. ASSUME NEW o \in Operation, NEW c \in Command, PromptOperation(o, c) PROVE ClientNext
  BY <1>3 DEF PromptOperation, CallOperation, ClientNext
<1>4. CASE UNCHANGED allVars
  BY <1>4 DEF allVars
<1> QED
  BY <1>1, <1>2, <1>3, <1>4, Zenon DEF CLNext, ClientNext
-----------------------------------------------------------------------------
(* The exit code *)

\* A process with a command makes one operation, and ends after it.
OneCommandInv ==
    mode = "once" =>
      /\ proc # "prompt"
      /\ proc \notin {"operating", "exited"} => \A o \in Operation : at[o] = "new"
      /\ \A o, p \in Operation : at[o] # "new" /\ at[p] # "new" => o = p
      /\ proc = "exited" => \A o \in Operation : at[o] \in {"new", "true", "false"}

\* The library moves only calls that are inside.
LEMMA LibraryMoves ==
    ASSUME CallsInv,
           (\E o \in Operation : OperationStep(o) \/ Execute(o)) \/ (\E c \in Call : FindStep(c))
    PROVE  \A p \in Operation : at'[p] # at[p] \/ ledAnswer'[p] # ledAnswer[p] => at[p] \in Inside
<1>1. /\ at \in [Call -> Inside \cup {"new", "true", "false"}] /\ Operation \subseteq Call
      /\ ledAnswer \in [Operation -> {"none", "error", "success"}]
  BY DEF CallsInv, ClientTypeOK, Call
<1>2. ASSUME NEW c \in Call, NEW place, at[c] \in Inside, at' = [at EXCEPT ![c] = place],
             NEW p \in Operation, at'[p] # at[p]
      PROVE  at[p] \in Inside
  BY <1>1, <1>2
<1>3. ASSUME NEW o \in Operation, NEW answer, at[o] \in Inside, ledAnswer' = [ledAnswer EXCEPT ![o] = answer],
             NEW p \in Operation, ledAnswer'[p] # ledAnswer[p]
      PROVE  at[p] \in Inside
  BY <1>1, <1>3
<1>4. ASSUME NEW o \in Operation, OperationStep(o)
      PROVE  /\ at[o] \in Inside /\ \E place : at' = [at EXCEPT ![o] = place]
             /\ ledAnswer' = ledAnswer \/ \E answer : ledAnswer' = [ledAnswer EXCEPT ![o] = answer]
  BY <1>4, Zenon DEF OperationStep, LoopHead, sendRequest, RpcFails, Refused, NotLeader, Redirected, Succeeds,
         TryAgain, FindLeader, Return, GoTo, Inside, Sending
<1>5. ASSUME NEW c \in Call, FindStep(c)
      PROVE  /\ at[c] \in Inside /\ (at' = at \/ \E place : at' = [at EXCEPT ![c] = place])
             /\ ledAnswer' = ledAnswer
  BY <1>5, Zenon DEF FindStep, Probe, SearchEnds, SearchSucceeds, SearchFails, Return, GoTo, Inside
<1>6. ASSUME NEW o \in Operation, Execute(o)
      PROVE  at' = at /\ ledAnswer' = ledAnswer
  BY <1>6 DEF Execute
<1>7. ASSUME NEW p \in Operation, at'[p] # at[p] PROVE at[p] \in Inside
  BY <1>1, <1>2, <1>4, <1>5, <1>6, <1>7
<1>8. ASSUME NEW p \in Operation, ledAnswer'[p] # ledAnswer[p] PROVE at[p] \in Inside
  BY <1>3, <1>4, <1>5, <1>6, <1>8
<1> QED
  BY <1>7, <1>8

\* No step lets a second operation begin or the exit code become untrue.
LEMMA OneCommandStep ==
    ASSUME CallsInv, OneCommandInv, ExitCodeIsTrue, [CLNext]_allVars
    PROVE  OneCommandInv' /\ ExitCodeIsTrue'
<1>1. mode' = mode
  BY DEF CLNext, ProcessStep, ParseArguments, OpenFile, EndOfFile, UseConfig, ReadNextLine, CallConnect, Connected,
         RunCommand, CommandEnds, OperationEnds, Quit, PromptOperation, processVars, allVars
<1>2. CASE mode # "once"
  BY <1>1, <1>2 DEF OneCommandInv, ExitCodeIsTrue
<1>3. CASE mode = "once"
  <2>1. at \in [Call -> Inside \cup {"new", "true", "false"}] /\ Operation \subseteq Call
    BY DEF CallsInv, ClientTypeOK, Call
  <2>2. \A p \in Operation : at[p] = "true" <=> ledAnswer[p] = "success"
    BY DEF CallsInv, OperationInv
  <2>3. CASE ParseArguments \/ OpenFile \/ EndOfFile \/ UseConfig
    BY <1>1, <1>3, <2>3, <2>2 DEF ParseArguments, OpenFile, EndOfFile, UseConfig, Step, Exit, clientVars,
                           OneCommandInv, ExitCodeIsTrue, Running, Aborted
  <2>4. ASSUME NEW l \in Line, ReadNextLine(l) PROVE OneCommandInv' /\ ExitCodeIsTrue'
    BY <1>1, <1>3, <2>4 DEF ReadNextLine, clientVars, OneCommandInv, ExitCodeIsTrue
  <2>5. ASSUME NEW c \in Connection, CallConnect(c) PROVE OneCommandInv' /\ ExitCodeIsTrue'
    <3>1. \A o \in Operation : at'[o] = at[o]
      BY <2>1, <2>5, CallsDistinct DEF CallConnect, connect, FindLeader, GoTo
    <3>2. proc = "connect" /\ proc' = "connecting"
      BY <2>5 DEF CallConnect, Step
    <3> QED
      BY <1>1, <1>3, <3>1, <3>2 DEF OneCommandInv, ExitCodeIsTrue
  <2>6. ASSUME NEW c \in Connection, Connected(c) PROVE OneCommandInv' /\ ExitCodeIsTrue'
    BY <1>1, <1>3, <2>6, <2>2 DEF Connected, Step, Exit, clientVars, OneCommandInv, ExitCodeIsTrue
  <2>7. ASSUME NEW o \in Operation, RunCommand(o) PROVE OneCommandInv' /\ ExitCodeIsTrue'
    <3>1. proc = "command" /\ \A p \in Operation : at[p] = "new"
      BY <1>3, <2>7 DEF RunCommand, OneCommandInv
    <3>2. CASE Exit(1) /\ UNCHANGED <<clientVars, sent>>
      BY <1>1, <1>3, <2>2, <3>1, <3>2 DEF Exit, Step, clientVars, OneCommandInv, ExitCodeIsTrue
    <3>3. CASE executeOperation(o) /\ Step("operating")
      <4>1. \A p \in Operation : p # o => at'[p] = "new"
        BY <2>1, <3>1, <3>3 DEF executeOperation, FindLeader, GoTo
      <4>2. proc' = "operating"
        BY <3>3 DEF Step
      <4> QED
        BY <1>1, <1>3, <4>1, <4>2 DEF OneCommandInv, ExitCodeIsTrue
    <3> QED
      BY <2>7, <3>2, <3>3 DEF RunCommand, CallOperation
  <2>8. ASSUME NEW o \in Operation, CommandEnds(o) PROVE OneCommandInv' /\ ExitCodeIsTrue'
    <3>1. /\ proc = "operating" /\ proc' = "exited" /\ UNCHANGED <<at, ledAnswer>>
          /\ at[o] \in {"true", "false"} /\ code' = IF at[o] = "true" THEN 0 ELSE 1
      BY <2>8 DEF CommandEnds, disconnect, Exit, Step
    <3>2. \A p \in Operation : p # o => at[p] = "new"
      BY <1>3, <3>1 DEF OneCommandInv
    <3>3. OneCommandInv'
      BY <1>1, <1>3, <3>1, <3>2 DEF OneCommandInv
    <3>4. ExitCodeIsTrue'
      BY <1>1, <1>3, <2>2, <3>1, <3>2 DEF ExitCodeIsTrue
    <3> QED
      BY <3>3, <3>4
  <2>9. ASSUME UNCHANGED processVars,
               (\E o \in Operation : OperationStep(o) \/ Execute(o)) \/ (\E c \in Call : FindStep(c))
        PROVE  OneCommandInv' /\ ExitCodeIsTrue'
    <3>1. \A p \in Operation : at'[p] # at[p] \/ ledAnswer'[p] # ledAnswer[p] => at[p] \in Inside
      BY <2>9, LibraryMoves
    <3>2. \A p \in Operation :
            at[p] \in {"new", "true", "false"} => at'[p] = at[p] /\ ledAnswer'[p] = ledAnswer[p]
      BY <3>1 DEF Inside, Finding, Sending
    <3>3. proc' = proc /\ code' = code
      BY <2>9 DEF processVars
    <3>4. OneCommandInv'
      BY <1>1, <1>3, <3>2, <3>3 DEF OneCommandInv
    <3>5. ExitCodeIsTrue'
      BY <1>1, <1>3, <3>1, <3>2, <3>3 DEF OneCommandInv, ExitCodeIsTrue
    <3> QED
      BY <3>4, <3>5
  <2>10. CASE UNCHANGED allVars
    BY <2>10 DEF allVars, clientVars, processVars, OneCommandInv, ExitCodeIsTrue
  <2>11. proc # "prompt"
    BY <1>3 DEF OneCommandInv
  <2>12. ~Quit /\ \A o \in Operation : ~OperationEnds(o) /\ \A c \in Command : ~PromptOperation(o, c)
    BY <1>3, <2>11 DEF Quit, PromptOperation, OperationEnds
  <2>13. mode # "library"
    BY <1>3
  <2>14. ProcessStep => OneCommandInv' /\ ExitCodeIsTrue'
    BY <2>3, <2>4, <2>5, <2>6, <2>7, <2>8, <2>12, Zenon DEF ProcessStep
  <2> QED
    BY <2>9, <2>10, <2>12, <2>13, <2>14, Zenon DEF CLNext
<1> QED
  BY <1>2, <1>3

\* The invariant of the calls and of the exit code is inductive.
LibraryInv == CallsInv /\ OneCommandInv /\ ExitCodeIsTrue

\* It holds at the start.
LEMMA LibraryStart == CLInit => LibraryInv
<1> SUFFICES ASSUME CLInit PROVE LibraryInv
  OBVIOUS
<1>1. CallsInv
  BY CallsStart
<1>2. proc \in {"library", "arguments"} /\ \A o \in Operation : at[o] = "new"
  BY DEF CLInit, ClientInit, Call
<1> QED
  BY <1>1, <1>2 DEF LibraryInv, OneCommandInv, ExitCodeIsTrue

\* Every step keeps it.
LEMMA LibraryStep == LibraryInv /\ [CLNext]_allVars => LibraryInv'
BY CallsStep, ProcessCallsTheLibrary, OneCommandStep DEF LibraryInv

\* For any number of calls, servers and retries: exactly the holder of mutex_ is
\* inside a call, no request goes to the empty address, a call sends at most two
\* requests per retry, and exit code 0 means that a leader answered success and 1
\* that none did (executeOperation, sendRequest, findLeader; main of kv_client_cli.cpp).
THEOREM CallsAreSerialised == CLSpec => []ClientInv
<1>1. LibraryInv => ClientInv
  <2> SUFFICES ASSUME LibraryInv PROVE ClientInv
    OBVIOUS
  <2>1. ClientTypeOK /\ ExitCodeIsTrue /\ \A o \in Operation : OperationInv(o)
    BY DEF LibraryInv, CallsInv
  <2>2. SendsToAnAddress
    BY <2>1 DEF SendsToAnAddress, OperationInv, Sending
  <2>3. RequestsBounded
    BY <2>1 DEF RequestsBounded, OperationInv
  <2> QED
    BY <2>1, <2>2, <2>3 DEF ClientInv
<1> QED
  BY <1>1, LibraryStart, LibraryStep, PTL DEF CLSpec
=============================================================================
