------------------------------ MODULE KVClient -------------------------------
(***************************************************************************)
(* The client library: connect, disconnect and the operations of one       *)
(* KVClient, shared by threads (src/client/kv_client.cpp).  executeOperation *)
(* holds mutex_ from its first line to its return, over every RPC, retry   *)
(* and search for the leader.                                              *)
(*                                                                         *)
(* The servers answer as HandleRequest may: they know a leader or not, they *)
(* execute a command before they answer, after the client has given up, or *)
(* never.  The kinds of operations, keys and values play no part.          *)
(***************************************************************************)
EXTENDS Naturals, FiniteSets

CONSTANTS
    Operation,    \* calls of put, get and remove, each in a thread of its own
    Connection,   \* calls of connect
    NoCall,       \* no call
    NumServers,   \* length of server_addresses_
    Unknown,      \* the empty address
    MaxRetries,   \* the largest max_retries_
    Redirects     \* do servers that do not lead name the leader?

ASSUME CallsDistinct == Operation \cap Connection = {} /\ NoCall \notin Operation \cup Connection
ASSUME ClientBounds == NumServers \in Nat \ {0} /\ MaxRetries \in Nat
ASSUME UnknownIsNoServer == Unknown \notin 1..NumServers /\ Redirects \in BOOLEAN

VARIABLES
    currentLeader, \* current_leader_
    lastError,     \* last_error_: what it says
    maxRetries,    \* max_retries_
    mutex_,        \* the call that holds mutex_
    at,            \* where each call is
    scan,          \* findLeader: the next position in server_addresses_
    retry,
    submitted,     \* how often each operation's command entered a server's log
    executions,    \* how often it was executed
    ledAnswer      \* history: what a leader last answered the operation

clientVars == <<currentLeader, lastError, maxRetries, mutex_, at, scan, retry, submitted, executions, ledAnswer>>

Call == Operation \cup Connection
Address == 1..NumServers

ClientInit ==
    /\ currentLeader = Unknown /\ lastError = "none"
    /\ maxRetries = MaxRetries
    /\ mutex_ = NoCall
    /\ at = [c \in Call |-> "new"]
    /\ scan = [c \in Call |-> 1]
    /\ retry = [c \in Operation |-> 0]
    /\ submitted = [c \in Operation |-> 0] /\ executions = [c \in Operation |-> 0]
    /\ ledAnswer = [c \in Operation |-> "none"]

GoTo(c, l) == at' = [at EXCEPT ![c] = l]
Return(c, r) == GoTo(c, r) /\ mutex_' = NoCall
FindLeader(c, l) == GoTo(c, l) /\ scan' = [scan EXCEPT ![c] = 1]
-----------------------------------------------------------------------------
disconnect ==
    /\ mutex_ = NoCall
    /\ currentLeader' = Unknown
    /\ UNCHANGED <<lastError, maxRetries, mutex_, at, scan, retry, submitted, executions, ledAnswer>>

\* setMaxRetries; setTimeout is left out: a deadline passes when it passes.
setMaxRetries(n) ==
    /\ mutex_ = NoCall
    /\ maxRetries' = n
    /\ UNCHANGED <<currentLeader, lastError, mutex_, at, scan, retry, submitted, executions, ledAnswer>>

\* The whole call holds mutex_; the addresses are not empty (NumServers > 0).
connect(c) ==
    /\ at[c] = "new" /\ mutex_ = NoCall
    /\ mutex_' = c
    /\ FindLeader(c, "connect")
    /\ UNCHANGED <<maxRetries, currentLeader, lastError, retry, submitted, executions, ledAnswer>>

\* The search for a leader, if none is known, comes before the loop.
executeOperation(c) ==
    /\ at[c] = "new" /\ mutex_ = NoCall
    /\ mutex_' = c
    /\ IF currentLeader = Unknown THEN FindLeader(c, "find_first") ELSE GoTo(c, "loop") /\ UNCHANGED scan
    /\ UNCHANGED <<maxRetries, currentLeader, lastError, retry, submitted, executions, ledAnswer>>

\* The test of the loop over the retries.
LoopHead(c) ==
    /\ at[c] = "loop"
    /\ \/ retry[c] < maxRetries /\ GoTo(c, "send") /\ UNCHANGED <<mutex_, lastError>>
       \/ retry[c] >= maxRetries /\ Return(c, "false") /\ lastError' = "max_retries_exceeded"
    /\ UNCHANGED <<maxRetries, currentLeader, scan, retry, submitted, executions, ledAnswer>>
-----------------------------------------------------------------------------
(* findLeader: the servers in turn, until one answers with an address *)

Finding == {"connect", "find_first", "find_again"}

\* Mutant: an empty result of the search replaces the address that was known.
SearchFailsForgetting(c) ==
    \/ /\ at[c] \in {"connect", "find_first"} /\ Return(c, "false")
       /\ currentLeader' = Unknown /\ lastError' = "cannot_find_leader" /\ UNCHANGED retry
    \/ /\ at[c] = "find_again" /\ GoTo(c, "loop")
       /\ retry' = [retry EXCEPT ![c] = @ + 1]
       /\ currentLeader' = Unknown /\ lastError' = "cannot_find_leader" /\ UNCHANGED mutex_

\* Mutant: a search that fails does not count as a retry.
SearchFailsUncounted(c) ==
    \/ /\ at[c] \in {"connect", "find_first"} /\ Return(c, "false")
       /\ currentLeader' = Unknown /\ lastError' = "cannot_find_leader" /\ UNCHANGED retry
    \/ /\ at[c] = "find_again" /\ GoTo(c, "loop")
       /\ lastError' = "cannot_find_leader" /\ UNCHANGED <<currentLeader, retry, mutex_>>

\* connect and the first search give up; a retry goes on with the old address.
SearchFails(c) ==
    \/ /\ at[c] \in {"connect", "find_first"} /\ Return(c, "false")
       /\ currentLeader' = Unknown
       /\ lastError' = IF at[c] = "connect" THEN lastError ELSE "cannot_find_leader"
       /\ UNCHANGED retry
    \/ /\ at[c] = "find_again" /\ GoTo(c, "loop")
       /\ retry' = [retry EXCEPT ![c] = @ + 1]
       /\ lastError' = "cannot_find_leader" /\ UNCHANGED <<currentLeader, mutex_>>

SearchSucceeds(c, address) ==
    /\ currentLeader' = address
    /\ \/ at[c] = "connect" /\ Return(c, "true")
       \/ at[c] = "find_first" /\ GoTo(c, "loop") /\ UNCHANGED mutex_
       \/ at[c] = "find_again" /\ GoTo(c, "send_again") /\ UNCHANGED mutex_
    /\ UNCHANGED <<lastError, retry>>

\* The probe is a GET: the server leads, names the leader, or neither.
Probe(c) ==
    /\ at[c] \in Finding /\ scan[c] <= NumServers
    /\ \/ SearchSucceeds(c, scan[c]) /\ UNCHANGED scan
       \/ Redirects /\ (\E a \in Address : SearchSucceeds(c, a)) /\ UNCHANGED scan
       \/ scan' = [scan EXCEPT ![c] = @ + 1] /\ UNCHANGED <<currentLeader, lastError, mutex_, at, retry>>
    /\ UNCHANGED <<maxRetries, submitted, executions, ledAnswer>>

SearchEnds(c) ==
    /\ at[c] \in Finding /\ scan[c] > NumServers
    /\ SearchFails(c)
    /\ UNCHANGED <<maxRetries, scan, submitted, executions, ledAnswer>>
-----------------------------------------------------------------------------
(* sendRequest to current_leader_ *)

Sending == {"send", "send_again"}

\* What executeOperation does after a request that failed.
TryAgain(c) ==
    \/ at[c] = "send" /\ FindLeader(c, "find_again") /\ UNCHANGED retry
    \/ /\ at[c] = "send_again" /\ GoTo(c, "loop")
       /\ retry' = [retry EXCEPT ![c] = @ + 1] /\ UNCHANGED scan

\* The command may have entered a log although no good answer came.
MaySubmit(c) == submitted' \in {submitted, [submitted EXCEPT ![c] = @ + 1]}

RpcFails(c) ==
    /\ at[c] \in Sending
    /\ MaySubmit(c)
    /\ TryAgain(c)
    /\ lastError' = "rpc_failed"
    /\ UNCHANGED <<maxRetries, currentLeader, mutex_, executions, ledAnswer>>

\* success() = false from a leader: time-out, or the key is not there.
Refused(c) ==
    /\ at[c] \in Sending
    /\ MaySubmit(c)
    /\ TryAgain(c)
    /\ ledAnswer' = [ledAnswer EXCEPT ![c] = "error"]
    /\ lastError' = "error_of_the_server"
    /\ UNCHANGED <<maxRetries, currentLeader, mutex_, executions>>

NotLeader(c) ==
    /\ at[c] \in Sending
    /\ TryAgain(c)
    /\ lastError' = "not_leader"
    /\ UNCHANGED <<maxRetries, currentLeader, mutex_, submitted, executions, ledAnswer>>

\* The answer names the leader: sendRequest locks mutex_, which is not
\* recursive and which executeOperation holds, and never returns.
Redirected(c) ==
    /\ Redirects /\ at[c] \in Sending
    /\ GoTo(c, "relock")
    /\ UNCHANGED <<maxRetries, currentLeader, lastError, mutex_, scan, retry, submitted, executions, ledAnswer>>

\* Success says that the entry at the index of the command was applied: the
\* command itself or, after a change of leader, another one in its place
\* (Proposals); the command is then in a log and not executed.
Succeeds(c) ==
    /\ at[c] \in Sending
    /\ submitted' = [submitted EXCEPT ![c] = @ + 1]
    /\ executions' \in {executions, [executions EXCEPT ![c] = @ + 1]}
    /\ ledAnswer' = [ledAnswer EXCEPT ![c] = "success"]
    /\ Return(c, "true")
    /\ UNCHANGED <<maxRetries, currentLeader, lastError, scan, retry>>

sendRequest(c) == RpcFails(c) \/ Refused(c) \/ NotLeader(c) \/ Redirected(c) \/ Succeeds(c)

\* The cluster executes a command of its log; nothing tells it from another.
Execute(c) ==
    /\ executions[c] < submitted[c]
    /\ executions' = [executions EXCEPT ![c] = @ + 1]
    /\ UNCHANGED <<maxRetries, currentLeader, lastError, mutex_, at, scan, retry, submitted, ledAnswer>>

OperationStep(c) == LoopHead(c) \/ sendRequest(c)
FindStep(c) == Probe(c) \/ SearchEnds(c)

ClientNext ==
    \/ disconnect
    \/ \E n \in 0..MaxRetries : setMaxRetries(n)
    \/ \E c \in Connection : connect(c)
    \/ \E c \in Operation : executeOperation(c) \/ OperationStep(c) \/ Execute(c)
    \/ \E c \in Call : FindStep(c)

\* Threads that can run do run, and every RPC has a deadline.
ClientFairness ==
    /\ \A c \in Operation : WF_clientVars(OperationStep(c))
    /\ \A c \in Call : WF_clientVars(FindStep(c))

ClientSpec == ClientInit /\ [][ClientNext]_clientVars /\ ClientFairness
-----------------------------------------------------------------------------
Inside == {"loop", "relock"} \cup Finding \cup Sending

\* The variables hold what they are declared for, and exactly the holder of
\* mutex_ is inside a call: the calls of all threads are serialised.
ClientTypeOK ==
    /\ currentLeader \in Address \cup {Unknown}
    /\ lastError \in {"none", "rpc_failed", "error_of_the_server", "not_leader",
                      "cannot_find_leader", "max_retries_exceeded"}
    /\ maxRetries \in 0..MaxRetries
    /\ mutex_ \in Call \cup {NoCall}
    /\ at \in [Call -> Inside \cup {"new", "true", "false"}]
    /\ \A c \in Call : at[c] \in Inside <=> mutex_ = c
    /\ scan \in [Call -> 1..NumServers+1]
    /\ retry \in [Operation -> 0..MaxRetries]
    /\ submitted \in [Operation -> Nat] /\ executions \in [Operation -> Nat]
    /\ ledAnswer \in [Operation -> {"none", "error", "success"}]

\* No request is sent to the empty address, although searches fail in the middle
\* of the retries and other threads disconnect (executeOperation).
SendsToAnAddress ==
    \A c \in Operation : at[c] \in Sending => currentLeader # Unknown

\* A call sends its command at most twice per retry, also when searches for the
\* leader fail in between: what a client repeats is bounded.
RequestsBounded == \A c \in Operation : submitted[c] <= 2 * MaxRetries

\* Every call returns or comes to the lock it holds itself (sendRequest, when a
\* server names the leader): no other answer, failed search or disconnect of
\* another thread keeps a caller of executeOperation or connect waiting for ever.
CallsReturnUnlessRedirected ==
    \A c \in Call : at[c] \in Inside ~> at[c] \in {"true", "false", "relock"}

\* Every call returns: executeOperation gives up after max_retries_, whatever
\* the servers answer ("automatic leader redirection and retries", kv_client.h).
CallsReturn == \A c \in Call : at[c] \in Inside ~> at[c] \in {"true", "false"}

\* An operation takes effect at most once ("deduplication by client id and
\* sequence number", raft-algorithm.md).
ExecutedAtMostOnce == \A c \in Operation : executions[c] <= 1

\* "Max retries exceeded" tells the caller of the last operation that the
\* cluster could not be reached (api-reference.md).
MaxRetriesMeansUnreachable ==
    \A c \in Operation :
      at[c] = "false" /\ lastError = "max_retries_exceeded" => ledAnswer[c] = "none"
=============================================================================
