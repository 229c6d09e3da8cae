------------------------------ MODULE Transport ------------------------------
(***************************************************************************)
(* One client and one server of the RPC interface (include/network/        *)
(* rpc_client.h, rpc_server.h) in its two implementations: gRPC, which the *)
(* server process uses (grpc_rpc_client.cpp, grpc_rpc_server.cpp), and     *)
(* plain sockets (simple_rpc_client.cpp, simple_rpc_server.cpp).           *)
(*                                                                         *)
(* An exchange is a gRPC call on its way, or a TCP connection, which the   *)
(* socket server uses for a single request.  The socket transport sends    *)
(* the text of rpc_messages.h, the tokens between the bars; each side      *)
(* reads it with one recv, which may return the first part only.           *)
(***************************************************************************)
EXTENDS Wire, FiniteSets

CONSTANTS
    Kind,           \* the implementations: a subset of {"grpc", "simple"}
    RETRIES,        \* retries_ of SimpleRPCClient
    MaxCalls,       \* bound on the calls
    MaxConnects     \* connect is called explicitly only before this many exchanges

ASSUME TransportKinds == Kind \subseteq {"grpc", "simple"}
ASSUME TransportBounds == RETRIES \in Nat /\ MaxCalls \in Nat

VARIABLES
    kind,           \* of this client and server
    server,         \* state and raft_node_ of the server
    exchange,       \* all exchanges, in the order in which they were made
    client,         \* the client: connected_ (or stub_), its exchange, sockets
    call            \* the current or the last call

vars == <<kind, server, exchange, client, call>>

None == 0
-----------------------------------------------------------------------------
(* What is sent: a vote request, an entry; and the replies *)

VoteArgs == [term |-> 3, candidateId |-> 1, lastLogIndex |-> 2, lastLogTerm |-> 12]
AppendArgs == [term |-> 3, leaderId |-> 1, prevLogIndex |-> 0, prevLogTerm |-> 0,
               entries |-> <<[term |-> 3, index |-> 1, command |-> <<"GET", "k">>]>>, leaderCommit |-> 0]

Calls == {[method |-> "RequestVote", args |-> VoteArgs], [method |-> "AppendEntries", args |-> AppendArgs]}

Replies(method) ==
    IF method = "RequestVote"
    THEN {[term |-> 3, voteGranted |-> TRUE]}
    ELSE {[term |-> 3, success |-> TRUE, conflictIndex |-> -1, conflictTerm |-> -1],
          [term |-> 3, success |-> FALSE, conflictIndex |-> 4, conflictTerm |-> 12]}
-----------------------------------------------------------------------------
(* The text of SimpleRPC: serialize and deserialize of rpc_messages.h.  A   *)
(* token is a number; an entry with its length prefix is one token.         *)

Thrown == [thrown |-> TRUE]      \* std::invalid_argument

serializeRequestVoteArgs(a) == <<a.term, a.candidateId, a.lastLogIndex, a.lastLogTerm>>

deserializeRequestVoteArgs(t) ==
    IF Len(t) < 4 THEN Thrown
    ELSE [term |-> t[1], candidateId |-> t[2], lastLogIndex |-> t[3], lastLogTerm |-> t[4]]

serializeRequestVoteReply(r) == <<r.term, IF r.voteGranted THEN 1 ELSE 0>>

deserializeRequestVoteReply(t) ==
    IF Len(t) < 2 THEN Thrown ELSE [term |-> t[1], voteGranted |-> t[2] = 1]

serializeAppendEntriesArgs(a) ==
    <<a.term, a.leaderId, a.prevLogIndex, a.prevLogTerm, a.leaderCommit, Len(a.entries)>> \o a.entries

\* Mutant: entries that are missing are left out.
deserializeAppendEntriesArgsShort(t) ==
    IF Len(t) < 6 THEN Thrown
    ELSE [term |-> t[1], leaderId |-> t[2], prevLogIndex |-> t[3], prevLogTerm |-> t[4],
          leaderCommit |-> t[5], entries |-> SubSeq(t, 7, Len(t))]

\* The lengths detect an entry that is missing or incomplete.
deserializeAppendEntriesArgs(t) ==
    IF Len(t) < 6 \/ Len(t) < 6 + t[6] THEN Thrown
    ELSE [term |-> t[1], leaderId |-> t[2], prevLogIndex |-> t[3], prevLogTerm |-> t[4],
          leaderCommit |-> t[5], entries |-> SubSeq(t, 7, 6 + t[6])]

serializeAppendEntriesReply(r) ==
    <<r.term, IF r.success THEN 1 ELSE 0, r.conflictIndex, r.conflictTerm>>

deserializeAppendEntriesReply(t) ==
    IF Len(t) < 4 THEN Thrown
    ELSE [term |-> t[1], success |-> t[2] = 1, conflictIndex |-> t[3], conflictTerm |-> t[4]]

\* What one recv may return of a text: all of it or a beginning, which may cut
\* the digits of a number (a lone minus sign is no number: it is left out).
Header(t) == IF Len(t) > 6 THEN 6 ELSE Len(t)
Received(t) ==
    {SubSeq(t, 1, i) : i \in 0..Len(t)}
    \cup {SubSeq(t, 1, i - 1) \o <<t[i] \div 10>> : i \in {j \in 1..Header(t) : t[j] >= 10}}
-----------------------------------------------------------------------------
(* Encoding and decoding, by kind *)

EncodeRequest(method, args) ==
    IF kind = "simple"
    THEN IF method = "RequestVote" THEN serializeRequestVoteArgs(args) ELSE serializeAppendEntriesArgs(args)
    ELSE IF method = "RequestVote"
         THEN SerializeRequestVoteRequest(requestVoteArgsToProto(args))
         ELSE SerializeAppendEntriesRequest(appendEntriesArgsToProto(args))

DecodeRequest(method, t) ==
    IF kind = "simple"
    THEN IF method = "RequestVote" THEN deserializeRequestVoteArgs(t) ELSE deserializeAppendEntriesArgs(t)
    ELSE IF method = "RequestVote"
         THEN protoToRequestVoteArgs(ParseRequestVoteRequest(t))
         ELSE protoToAppendEntriesArgs(ParseAppendEntriesRequest(t))

EncodeReply(method, reply) ==
    IF kind = "simple"
    THEN IF method = "RequestVote" THEN serializeRequestVoteReply(reply) ELSE serializeAppendEntriesReply(reply)
    ELSE IF method = "RequestVote"
         THEN SerializeRequestVoteResponse(requestVoteReplyToProto(reply))
         ELSE SerializeAppendEntriesResponse(appendEntriesReplyToProto(reply))

DecodeReply(method, t) ==
    IF kind = "simple"
    THEN IF method = "RequestVote" THEN deserializeRequestVoteReply(t) ELSE deserializeAppendEntriesReply(t)
    ELSE IF method = "RequestVote"
         THEN protoToRequestVoteReply(ParseRequestVoteResponse(t))
         ELSE protoToAppendEntriesReply(ParseAppendEntriesResponse(t))
-----------------------------------------------------------------------------
Init ==
    /\ kind \in Kind
    /\ \E node \in BOOLEAN : server = [state |-> "new", raft_node |-> node]
    /\ exchange = <<>>
    /\ client = [connected |-> kind = "grpc", current |-> None, open |-> {}, rest |-> FALSE]
    /\ call = [id |-> 0, pc |-> "idle", method |-> "RequestVote", args |-> VoteArgs, attempt |-> 0,
               result |-> FALSE, reply |-> Thrown, fault |-> FALSE, failed |-> 0]

\* The call returns.
Return(result) ==
    [call EXCEPT !.pc = "idle", !.result = result, !.failed = @ + (IF result THEN 0 ELSE 1)]

\* An exchange that is over; nobody reads it in a later call.
Over == [call |-> -1, method |-> "RequestVote", request |-> <<>>,
         phase |-> "done", got |-> Thrown, status |-> "none", reply |-> <<>>]

\* A call of the application: sendRequestVote or sendAppendEntries.
Begin(c) ==
    /\ call.pc = "idle"
    /\ call.id < MaxCalls
    /\ call' = [call EXCEPT !.id = @ + 1, !.pc = "try", !.method = c.method, !.args = c.args,
                            !.attempt = 0, !.result = FALSE, !.reply = Thrown, !.fault = FALSE]
    /\ exchange' = [i \in DOMAIN exchange |->
                      IF exchange[i].phase \in {"done", "reset"} /\ exchange[i].call # None
                      THEN Over ELSE exchange[i]]
    /\ UNCHANGED <<kind, server, client>>

\* A new exchange, and the socket for it of the client c, in place of socket_.
NewExchange(c, id, request) ==
    /\ exchange' = Append(exchange, [call |-> id, method |-> call.method, request |-> request,
                                     phase |-> "queued", got |-> Thrown, status |-> "none", reply |-> <<>>])
    /\ client' = [connected |-> TRUE, current |-> Len(exchange) + 1, rest |-> FALSE,
                  open |-> IF kind = "simple" THEN c.open \cup {Len(exchange) + 1} ELSE {}]

\* The client c after disconnect.
Disconnect(c) ==
    [connected |-> FALSE, current |-> None, rest |-> FALSE, open |-> c.open \ {c.current}]

\* disconnect of the application.
disconnect ==
    /\ call.pc = "idle"
    /\ client' = Disconnect(client)
    /\ UNCHANGED <<kind, server, exchange, call>>
-----------------------------------------------------------------------------
(* GrpcRPCClient *)

\* connect makes a channel and a stub, without a server too.
GrpcConnect ==
    /\ kind = "grpc"
    /\ call.pc = "idle"
    /\ client' = [client EXCEPT !.connected = TRUE]
    /\ UNCHANGED <<kind, server, exchange, call>>

\* A call without a stub, or without a server that can be reached, fails.
GrpcSend ==
    /\ kind = "grpc"
    /\ call.pc = "try"
    /\ \/ /\ client.connected
          /\ NewExchange(client, call.id, EncodeRequest(call.method, call.args))
          /\ call' = [call EXCEPT !.pc = "wait"]
       \/ /\ ~client.connected \/ server.state # "running"
          /\ call' = [Return(FALSE) EXCEPT !.fault = TRUE]
          /\ UNCHANGED <<exchange, client>>
    /\ UNCHANGED <<kind, server>>

\* The status is OK, or the server's error.
GrpcReceive ==
    /\ kind = "grpc"
    /\ call.pc = "wait"
    /\ LET e == exchange[client.current]
       IN  /\ e.phase = "done"
           /\ call' = IF e.status = "ok"
                      THEN [Return(TRUE) EXCEPT !.reply = DecodeReply(call.method, e.reply)]
                      ELSE Return(FALSE)
    /\ UNCHANGED <<kind, server, exchange, client>>

\* The deadline passes, or the connection breaks.
GrpcDeadline ==
    /\ kind = "grpc"
    /\ call.pc = "wait"
    /\ call' = [Return(FALSE) EXCEPT !.fault = TRUE]
    /\ UNCHANGED <<kind, server, exchange, client>>
-----------------------------------------------------------------------------
(* SimpleRPCClient *)

\* connectWithTimeout fails: socket_ is invalid; one it still held is lost.
Refused(c) == [connected |-> FALSE, current |-> None, rest |-> FALSE, open |-> c.open]

\* connect of the application.
SimpleConnect ==
    /\ kind = "simple"
    /\ call.pc = "idle"
    /\ LET c == IF client.connected THEN Disconnect(client) ELSE client
       IN  \/ /\ server.state \in {"running", "stopping"}
              /\ Len(exchange) < MaxConnects
              /\ NewExchange(c, None, <<>>)
           \/ client' = Refused(c) /\ UNCHANGED exchange
    /\ UNCHANGED <<kind, server, call>>

\* The end of a turn of the loop that did not return; c is the client by then.
TurnEnds(retries, c, fault) ==
    IF call.attempt < retries
    THEN client' = Disconnect(c) /\ call' = [call EXCEPT !.pc = "try", !.attempt = @ + 1, !.fault = @ \/ fault]
    ELSE client' = c /\ call' = [Return(FALSE) EXCEPT !.fault = @ \/ fault]

\* Mutants: one retry too few; the attempts are not counted.
AttemptFailedEarly(c, fault) == TurnEnds(RETRIES - 1, c, fault)
AttemptFailedForever(c, fault) ==
    client' = Disconnect(c) /\ call' = [call EXCEPT !.pc = "try", !.fault = @ \/ fault]

AttemptFailed(c, fault) == TurnEnds(RETRIES, c, fault)

\* sendRequest, up to recv.  A connection that is fresh is used; one that has had
\* its answer is closed by the server, and recv returns nothing, or what was
\* left of the last answer.
SimpleSend ==
    /\ kind = "simple"
    /\ call.pc = "try"
    /\ LET request == EncodeRequest(call.method, call.args)
       IN  \/ /\ ~client.connected
              /\ server.state \in {"running", "stopping"}
              /\ NewExchange(client, call.id, request)
              /\ call' = [call EXCEPT !.pc = "wait"]
           \/ /\ ~client.connected
              /\ AttemptFailed(Refused(client), TRUE)
              /\ UNCHANGED exchange
           \/ /\ client.connected /\ exchange[client.current].call = None
              /\ exchange' = [exchange EXCEPT ![client.current].call = call.id,
                                              ![client.current].method = call.method,
                                              ![client.current].request = request]
              /\ call' = [call EXCEPT !.pc = "wait"]
              /\ UNCHANGED client
           \/ /\ client.connected /\ exchange[client.current].call # None
              /\ \/ AttemptFailed([client EXCEPT !.connected = FALSE], FALSE)
                 \/ client.rest /\ AttemptFailed([client EXCEPT !.rest = FALSE], FALSE)
              /\ UNCHANGED exchange
    /\ UNCHANGED <<kind, server>>

\* recv returns an answer or a beginning of it: "OK|..." or "ERROR:...".
SimpleReceive ==
    /\ kind = "simple"
    /\ call.pc = "wait"
    /\ LET e == exchange[client.current]
       IN  /\ e.status # "none"
           /\ \/ /\ e.status = "ok"
                 /\ \E t \in Received(e.reply) :
                      LET reply == DecodeReply(call.method, t)
                          c == [client EXCEPT !.rest = t # e.reply]
                      IN  IF reply = Thrown THEN AttemptFailed(c, TRUE)
                          ELSE /\ client' = c
                               /\ call' = [Return(TRUE) EXCEPT !.reply = reply]
              \/ e.status = "error" /\ AttemptFailed(client, FALSE)
    /\ UNCHANGED <<kind, server, exchange>>

\* recv times out, or the connection is closed without an answer.
SimpleTimeout ==
    /\ kind = "simple"
    /\ call.pc = "wait"
    /\ AttemptFailed([client EXCEPT !.connected = FALSE], TRUE)
    /\ UNCHANGED <<kind, server, exchange>>
-----------------------------------------------------------------------------
(* The servers *)

\* start; a start that fails changes nothing.  A server is started once.
start ==
    /\ server.state = "new"
    /\ server' = [server EXCEPT !.state = "running"]
    /\ UNCHANGED <<kind, exchange, client, call>>

\* With gRPC the services are replaced, so it must not run yet.
setRaftNode ==
    /\ ~server.raft_node
    /\ kind = "grpc" => server.state = "new"
    /\ server' = [server EXCEPT !.raft_node = TRUE]
    /\ UNCHANGED <<kind, exchange, client, call>>

\* A handler takes the exchange: a thread of gRPC, or acceptLoop and handleClient.
Accept(i) ==
    /\ exchange[i].phase = "queued"
    /\ \/ server.state = "running"
       \/ server.state = "stopping" /\ kind = "simple"
    /\ exchange' = [exchange EXCEPT ![i].phase = "accepted"]
    /\ UNCHANGED <<kind, server, client, call>>

\* What the handler receives: with gRPC all or nothing.
Arrived(request) == IF kind = "simple" THEN Received(request) ELSE {request}

\* The handler ends with this status, the arguments it had and the reply, which
\* is lost if the client has given up this exchange.
Finish(i, status, args, reply, fault) ==
    /\ exchange' = [exchange EXCEPT ![i] =
         IF @.call \notin {None, call.id} THEN Over
         ELSE IF i # client.current THEN [Over EXCEPT !.call = exchange[i].call, !.got = args]
         ELSE [@ EXCEPT !.phase = "done", !.status = status, !.got = args, !.reply = reply]]
    /\ call' = IF exchange[i].call = call.id THEN [call EXCEPT !.fault = @ \/ fault] ELSE call
    /\ UNCHANGED <<kind, server, client>>

\* RequestVote, AppendEntries (gRPC) or processRequest: the call of RaftNode.
Handle(i) ==
    /\ exchange[i].phase = "accepted"
    /\ exchange[i].call # None
    /\ IF ~server.raft_node THEN Finish(i, "error", Thrown, <<>>, TRUE)
       ELSE \E t \in Arrived(exchange[i].request) :
              LET method == exchange[i].method
                  args == DecodeRequest(method, t)
              IN  IF args = Thrown THEN Finish(i, "error", Thrown, <<>>, TRUE)
                  ELSE \E r \in Replies(method) :
                         Finish(i, "ok", args, EncodeReply(method, r), t # exchange[i].request)

\* handleClient of a connection that was closed without a request.
HandleClosed(i) ==
    /\ exchange[i].phase = "accepted"
    /\ exchange[i].call = None
    /\ i \notin client.open
    /\ Finish(i, "none", Thrown, <<>>, FALSE)

\* What was not accepted is refused.
ResetQueued == [i \in DOMAIN exchange |-> IF exchange[i].phase = "queued"
                                          THEN [exchange[i] EXCEPT !.phase = "reset"] ELSE exchange[i]]

\* stop begins: running_ is cleared, or Shutdown is called.
StopBegin ==
    /\ server.state = "running"
    /\ server' = [server EXCEPT !.state = "stopping"]
    /\ exchange' = IF kind = "grpc" THEN ResetQueued ELSE exchange
    /\ UNCHANGED <<kind, client, call>>

\* Mutant: Shutdown does not wait.
StopEndNow ==
    /\ server.state = "stopping"
    /\ server' = [server EXCEPT !.state = "stopped"]
    /\ exchange' = ResetQueued
    /\ UNCHANGED <<kind, client, call>>

\* stop ends: Shutdown has waited for the handlers; the accept thread has found
\* running_ cleared, but the detached handlers go on.
StopEnd ==
    /\ server.state = "stopping"
    /\ kind = "grpc" => \A i \in DOMAIN exchange : exchange[i].phase # "accepted"
    /\ server' = [server EXCEPT !.state = "stopped"]
    /\ exchange' = ResetQueued
    /\ UNCHANGED <<kind, client, call>>
-----------------------------------------------------------------------------
ClientStep ==
    GrpcSend \/ GrpcReceive \/ GrpcDeadline \/ SimpleSend \/ SimpleReceive \/ SimpleTimeout

HandlerStep == \E i \in DOMAIN exchange : Handle(i) \/ HandleClosed(i)

Next ==
    \/ \E c \in Calls : Begin(c)
    \/ disconnect \/ GrpcConnect \/ SimpleConnect
    \/ ClientStep \/ HandlerStep
    \/ start \/ setRaftNode \/ StopBegin \/ StopEnd
    \/ \E i \in DOMAIN exchange : Accept(i)

\* A call has a deadline, a handler of RaftNode returns, the accept thread looks
\* at running_ every second.
Fairness == WF_vars(ClientStep) /\ WF_vars(HandlerStep) /\ WF_vars(StopEnd)

Spec == Init /\ [][Next]_vars /\ Fairness
-----------------------------------------------------------------------------
\* The types of the state.
TypeOK ==
    /\ kind \in Kind
    /\ server \in [state : {"new", "stopped", "running", "stopping"}, raft_node : BOOLEAN]
    /\ \A i \in DOMAIN exchange : /\ exchange[i].phase \in {"queued", "accepted", "done", "reset"}
                                  /\ exchange[i].status \in {"none", "ok", "error"}
                                  /\ exchange[i].call \in -1..MaxCalls
    /\ client.connected \in BOOLEAN /\ client.current \in 0..Len(exchange)
    /\ client.open \subseteq DOMAIN exchange
    /\ call.pc \in {"idle", "try", "wait"} /\ call.attempt \in 0..RETRIES /\ call.result \in BOOLEAN

Returned == call.id > 0 /\ call.pc = "idle"
ExchangesOf(id) == {i \in DOMAIN exchange : exchange[i].call = id}
Executed == {i \in DOMAIN exchange : exchange[i].got # Thrown}

\* Whatever part of a request a recv returns, RaftNode gets the arguments that
\* were sent, in full, or nothing; only the last number of a vote request may be
\* cut, which makes the candidate's log look older and is safe (deserialize of
\* rpc_messages.h; the gRPC messages lose nothing).
HandlersGetWhatWasSent ==
    \A i \in Executed \cap ExchangesOf(call.id) :
      LET got == exchange[i].got
      IN  \/ got = call.args
          \/ /\ kind = "simple" /\ call.method = "RequestVote"
             /\ got.lastLogTerm <= call.args.lastLogTerm
             /\ [got EXCEPT !.lastLogTerm = call.args.lastLogTerm] = call.args

\* A call that returns true has the reply that RaftNode gave to this very call,
\* never one of an earlier call on the same connection or the default of a
\* message; with sockets the last number may be cut.
TrueMeansAnswered ==
    Returned /\ call.result =>
      \E i \in ExchangesOf(call.id), r \in Replies(call.method) :
        /\ exchange[i].status = "ok" /\ exchange[i].reply = EncodeReply(call.method, r)
        /\ \/ call.reply = r
           \/ /\ kind = "simple" /\ call.method = "AppendEntries"
              /\ call.reply = [r EXCEPT !.conflictTerm = @ \div 10]

\* RaftNode sees a call twice only after a time-out or a partial read, and never
\* with gRPC: the retry that a reused connection always needs does not repeat it.
RepeatedOnlyAfterFault ==
    Cardinality(Executed \cap ExchangesOf(call.id)) > 1 => kind = "simple" /\ call.fault

\* A call during which nothing goes wrong succeeds, the second one on a
\* connection too, which the server has closed after the first (sendRequest,
\* the loop over retries_).
HealthyCallsSucceed == Returned /\ ~call.fault /\ RETRIES > 0 => call.result

\* The client keeps at most one socket for each call that failed: the sockets
\* of earlier attempts are closed, only that of the last attempt is overwritten.
SocketsBounded == Cardinality(client.open) <= 1 + call.failed

\* After the stop of a gRPC server no handler uses the RaftNode any more, so it
\* may be destroyed (GrpcRPCServer::stop).
StoppedServerIsQuiet ==
    kind = "grpc" /\ server.state = "stopped" => \A i \in DOMAIN exchange : exchange[i].phase # "accepted"

\* What the two ends keep is bounded: sockets at the client, handlers at a
\* server that has been stopped (SimpleRPCClient, GrpcRPCServer::stop).
TransportInv ==
    /\ TypeOK
    /\ SocketsBounded
    /\ StoppedServerIsQuiet

\* The loop over retries_ repeats often enough and no more than needed: a call
\* during which nothing goes wrong succeeds and is executed once.
RetriesSound ==
    /\ HealthyCallsSucceed
    /\ RepeatedOnlyAfterFault

\* Every call returns, whatever happens to the server.
CallsReturn == []<>(call.pc = "idle")

\* stop returns, although requests keep coming.
StopReturns == []<>(server.state # "stopping")

\* Neither end waits for ever for the other (sendRequest, stop).
BothEndsReturn == CallsReturn /\ StopReturns

\* The same of both servers (simple_rpc_server.cpp detaches its handlers).
EveryStoppedServerIsQuiet ==
    server.state = "stopped" => \A i \in DOMAIN exchange : exchange[i].phase # "accepted"
=============================================================================
