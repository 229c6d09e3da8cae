-------------------------------- MODULE Wire ---------------------------------
(***************************************************************************)
(* The messages of proto/raft.proto and their encoding: the classes that   *)
(* protoc generated (proto/raft.pb.h, raft.pb.cc) and the conversions from *)
(* and to the structures of RaftNode (src/network/grpc_rpc_client.cpp,     *)
(* grpc_rpc_server.cpp).                                                   *)
(*                                                                         *)
(* An encoded message is the sequence of its fields.  A field with the     *)
(* default value of its type is not written.  The two sizes of integers    *)
(* are scaled down.  A string is the sequence of its parts between colons: *)
(* "a:b" is <<"a", "b">>, and the empty string is <<"">>.                  *)
(***************************************************************************)
EXTENDS Integers, Sequences, FiniteSets

Mod32 == 2^8     \* stands for 2^32: an int32 is one of -Mod32/2 .. Mod32/2 - 1
Mod64 == 2^16    \* stands for 2^64: the varints of the encoding

EmptyString == <<"">>
NotUtf8 == "\\xff"     \* a part with bytes that are not UTF-8
Utf8(s) == \A i \in DOMAIN s : s[i] # NotUtf8

Malformed == [malformed |-> TRUE]    \* the message does not parse
-----------------------------------------------------------------------------
(* Fields *)

Field(n, v) == <<[number |-> n, value |-> v]>>

\* A negative int32 is written as a varint of the larger size.
Int32Field(n, v) == IF v = 0 THEN <<>> ELSE Field(n, IF v < 0 THEN v + Mod64 ELSE v)
BoolField(n, v) == IF v THEN Field(n, 1) ELSE <<>>
StringField(n, v) == IF v = EmptyString THEN <<>> ELSE Field(n, v)

\* The last field of this number wins.
Latest(w, n, default) ==
    LET found == {i \in DOMAIN w : w[i].number = n}
    IN  IF found = {} THEN default
        ELSE w[CHOOSE i \in found : \A j \in found : j <= i].value

\* The values of a repeated field, in the order in which they were written.
Repeated(w, n) ==
    LET found == {i \in DOMAIN w : w[i].number = n}
    IN  [k \in 1..Cardinality(found) |->
           w[CHOOSE i \in found : Cardinality({j \in found : j <= i}) = k].value]

\* The varint is cut to the smaller size when it is read.
Int32At(w, n) ==
    LET low == Latest(w, n, 0) % Mod32
    IN  IF low >= Mod32 \div 2 THEN low - Mod32 ELSE low
BoolAt(w, n) == Latest(w, n, 0) # 0
StringAt(w, n) == Latest(w, n, EmptyString)

\* Every string is verified where it is read, the ones a later field replaces too.
StringsValid(w, numbers) == \A i \in DOMAIN w : w[i].number \in numbers => Utf8(w[i].value)
-----------------------------------------------------------------------------
(* The messages: their default values, _InternalSerialize, _InternalParse *)

LogEntryProto == [term |-> 0, index |-> 0, command |-> EmptyString]
RequestVoteRequest == [term |-> 0, candidate_id |-> 0, last_log_index |-> 0, last_log_term |-> 0]
RequestVoteResponse == [term |-> 0, vote_granted |-> FALSE]
AppendEntriesRequest == [term |-> 0, leader_id |-> 0, prev_log_index |-> 0, prev_log_term |-> 0,
                         entries |-> <<>>, leader_commit |-> 0]
AppendEntriesResponse == [term |-> 0, success |-> FALSE, conflict_index |-> 0, conflict_term |-> 0]
ClientRequest == [operation |-> 0, key |-> EmptyString, value |-> EmptyString]
ClientResponse == [success |-> FALSE, value |-> EmptyString, error |-> EmptyString,
                   is_leader |-> FALSE, leader_address |-> EmptyString]

SerializeLogEntryProto(m) ==
    Int32Field(1, m.term) \o Int32Field(2, m.index) \o StringField(3, m.command)

ParseLogEntryProto(w) ==
    IF ~StringsValid(w, {3}) THEN Malformed
    ELSE [term |-> Int32At(w, 1), index |-> Int32At(w, 2), command |-> StringAt(w, 3)]

SerializeRequestVoteRequest(m) ==
    Int32Field(1, m.term) \o Int32Field(2, m.candidate_id)
    \o Int32Field(3, m.last_log_index) \o Int32Field(4, m.last_log_term)

ParseRequestVoteRequest(w) ==
    [term |-> Int32At(w, 1), candidate_id |-> Int32At(w, 2),
     last_log_index |-> Int32At(w, 3), last_log_term |-> Int32At(w, 4)]

SerializeRequestVoteResponse(m) == Int32Field(1, m.term) \o BoolField(2, m.vote_granted)

ParseRequestVoteResponse(w) == [term |-> Int32At(w, 1), vote_granted |-> BoolAt(w, 2)]

SerializeAppendEntriesRequest(m) ==
    Int32Field(1, m.term) \o Int32Field(2, m.leader_id)
    \o Int32Field(3, m.prev_log_index) \o Int32Field(4, m.prev_log_term)
    \o [i \in DOMAIN m.entries |-> [number |-> 5, value |-> SerializeLogEntryProto(m.entries[i])]]
    \o Int32Field(6, m.leader_commit)

\* An entry that does not parse spoils the whole message.
ParseAppendEntriesRequest(w) ==
    LET parts == Repeated(w, 5)
        entries == [i \in DOMAIN parts |-> ParseLogEntryProto(parts[i])]
    IN  IF \E i \in DOMAIN entries : entries[i] = Malformed THEN Malformed
        ELSE [term |-> Int32At(w, 1), leader_id |-> Int32At(w, 2),
              prev_log_index |-> Int32At(w, 3), prev_log_term |-> Int32At(w, 4),
              entries |-> entries, leader_commit |-> Int32At(w, 6)]

SerializeAppendEntriesResponse(m) ==
    Int32Field(1, m.term) \o BoolField(2, m.success)
    \o Int32Field(3, m.conflict_index) \o Int32Field(4, m.conflict_term)

ParseAppendEntriesResponse(w) ==
    [term |-> Int32At(w, 1), success |-> BoolAt(w, 2),
     conflict_index |-> Int32At(w, 3), conflict_term |-> Int32At(w, 4)]

SerializeClientRequest(m) ==
    Int32Field(1, m.operation) \o StringField(2, m.key) \o StringField(3, m.value)

\* Mutant: keys and values are taken as bytes.
ParseClientRequestBytes(w) ==
    [operation |-> Int32At(w, 1), key |-> StringAt(w, 2), value |-> StringAt(w, 3)]

\* The enumeration is open: an unknown operation is kept.
ParseClientRequest(w) ==
    IF ~StringsValid(w, {2, 3}) THEN Malformed
    ELSE [operation |-> Int32At(w, 1), key |-> StringAt(w, 2), value |-> StringAt(w, 3)]

SerializeClientResponse(m) ==
    BoolField(1, m.success) \o StringField(2, m.value) \o StringField(3, m.error)
    \o BoolField(4, m.is_leader) \o StringField(5, m.leader_address)

ParseClientResponse(w) ==
    IF ~StringsValid(w, {2, 3, 5}) THEN Malformed
    ELSE [success |-> BoolAt(w, 1), value |-> StringAt(w, 2), error |-> StringAt(w, 3),
          is_leader |-> BoolAt(w, 4), leader_address |-> StringAt(w, 5)]
-----------------------------------------------------------------------------
(* Conversions from and to the structures of RaftNode *)

requestVoteArgsToProto(args) ==
    [RequestVoteRequest EXCEPT !.term = args.term, !.candidate_id = args.candidateId,
                               !.last_log_index = args.lastLogIndex, !.last_log_term = args.lastLogTerm]

protoToRequestVoteArgs(m) ==
    [term |-> m.term, candidateId |-> m.candidate_id,
     lastLogIndex |-> m.last_log_index, lastLogTerm |-> m.last_log_term]

requestVoteReplyToProto(reply) ==
    [RequestVoteResponse EXCEPT !.term = reply.term, !.vote_granted = reply.voteGranted]

protoToRequestVoteReply(m) == [term |-> m.term, voteGranted |-> m.vote_granted]

appendEntriesArgsToProto(args) ==
    LET proto(e) == [LogEntryProto EXCEPT !.term = e.term, !.index = e.index, !.command = e.command]
    IN  [AppendEntriesRequest EXCEPT
           !.term = args.term, !.leader_id = args.leaderId, !.prev_log_index = args.prevLogIndex,
           !.prev_log_term = args.prevLogTerm, !.leader_commit = args.leaderCommit,
           !.entries = [i \in DOMAIN args.entries |-> proto(args.entries[i])]]

protoToAppendEntriesArgs(m) ==
    [term |-> m.term, leaderId |-> m.leader_id, prevLogIndex |-> m.prev_log_index,
     prevLogTerm |-> m.prev_log_term, entries |-> m.entries, leaderCommit |-> m.leader_commit]

\* Mutant: the conflict is not copied; the fields keep their default, which is
\* not that of AppendEntriesReply.
appendEntriesReplyToProtoBare(reply) ==
    [AppendEntriesResponse EXCEPT !.term = reply.term, !.success = reply.success]

appendEntriesReplyToProto(reply) ==
    [AppendEntriesResponse EXCEPT !.term = reply.term, !.success = reply.success,
                                  !.conflict_index = reply.conflictIndex,
                                  !.conflict_term = reply.conflictTerm]

protoToAppendEntriesReply(m) ==
    [term |-> m.term, success |-> m.success,
     conflictIndex |-> m.conflict_index, conflictTerm |-> m.conflict_term]
=============================================================================
