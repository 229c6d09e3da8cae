------------------------------- MODULE KVStore -------------------------------
(***************************************************************************)
(* What a client's request becomes at the leader: HandleRequest            *)
(* (src/network/grpc_rpc_server.cpp) builds a command as text, the log     *)
(* carries it, Command::deserialize (src/storage/command.cpp) reads it,    *)
(* KVStore (src/storage/kv_store.cpp) executes it on the skip list, and    *)
(* HandleRequest reads the text of the result.  The way through the log is *)
(* left to ClientCommands: a request is executed in one step.              *)
(*                                                                         *)
(* Strings are sequences of their parts between colons (Wire).             *)
(***************************************************************************)
EXTENDS SkipList, Wire

CONSTANTS
    KeyPart,      \* parts of keys
    MorePart,     \* a part after a colon
    ValuePart     \* the value of a request

ASSUME KeyParts == IsFiniteSet(KeyPart) /\ "" \notin KeyPart /\ NotUtf8 \notin KeyPart
ASSUME KeysOfParts == Key = 2..(2 * Cardinality(KeyPart) + 1)
ASSUME OtherPartsAreUtf8 == MorePart # NotUtf8 /\ ValuePart # NotUtf8

VARIABLES
    request,      \* the last ClientRequest, as the client made it
    response      \* what came of it

kvVars == <<vars, request, response>>

\* The place of a key in the order of strings: "a" < "a:..." < "b".
PartNumber == CHOOSE f \in [KeyPart -> 1..Cardinality(KeyPart)] :
                  \A p, q \in KeyPart : f[p] = f[q] => p = q
KeyNumber(s) == 2 * PartNumber[s[1]] + (IF Len(s) > 1 THEN 1 ELSE 0)
-----------------------------------------------------------------------------
(* Command *)

Command(t, k, v) == [type |-> t, key |-> k, value |-> v]
Thrown == [thrown |-> TRUE]      \* std::invalid_argument
NoResult == <<>>

\* serialize; HandleRequest writes the same text.
serialize(c) == <<c.type>> \o c.key \o (IF c.type = "PUT" THEN c.value ELSE <<>>)

\* PUT cuts the text at its second colon, GET and DELETE do not.
deserialize(s) ==
    IF Len(s) < 2 \/ s[1] \notin {"PUT", "GET", "DELETE"} THEN Thrown
    ELSE LET key == IF s[1] = "PUT" THEN <<s[2]>> ELSE Tail(s)
         IN  IF key = EmptyString \/ (s[1] = "PUT" /\ Len(s) < 3) THEN Thrown
             ELSE Command(s[1], key, IF s[1] = "PUT" THEN SubSeq(s, 3, Len(s)) ELSE EmptyString)
-----------------------------------------------------------------------------
(* KVStore *)

\* A key that no node can have: nothing is found, nothing changes.
Absent(c) == c.key[1] \notin KeyPart

\* The operation on store_, under mtx_.
Execute(c) ==
    IF Absent(c) THEN UNCHANGED vars
    ELSE CASE c.type = "PUT" -> insert(KeyNumber(c.key), c.value)
           [] c.type = "GET" -> search(KeyNumber(c.key))
           [] c.type = "DELETE" -> remove(KeyNumber(c.key))

\* An exception of deserialize goes through, with the store untouched.
applyCommand(s) ==
    LET c == deserialize(s) IN IF c = Thrown THEN UNCHANGED vars ELSE Execute(c)

\* The same operations on store_; Result is what it returns.
applyCommandWithResult(s) == applyCommand(s)

\* The text of the result, from what the operation on store_ returned.
Result(c) ==
    IF c = Thrown THEN NoResult
    ELSE IF Absent(c) THEN <<"NOT_FOUND">>
    ELSE CASE c.type = "PUT" -> <<"OK">>
           [] c.type = "GET" -> IF ret'[2] = NoValue THEN <<"NOT_FOUND">> ELSE <<"VALUE">> \o ret'[2]
           [] c.type = "DELETE" -> IF ret'[2] THEN <<"OK">> ELSE <<"NOT_FOUND">>
-----------------------------------------------------------------------------
(* HandleRequest at the leader *)

OperationName == <<"PUT", "GET", "DELETE">>      \* operation + 1

\* Mutant: the result is not cut after "VALUE:".
AnswerUncut(m, result) ==
    [ClientResponse EXCEPT !.success = result # <<"NOT_FOUND">> \/ m.operation # 1,
                           !.is_leader = TRUE,
                           !.value = IF m.operation = 1 THEN result ELSE EmptyString]

\* After a submitCommand that succeeded; only GET looks at the result.
Answer(m, result) ==
    LET ok == [ClientResponse EXCEPT !.success = TRUE, !.is_leader = TRUE]
    IN  IF m.operation # 1 THEN ok
        ELSE IF result[1] = "VALUE" /\ Len(result) > 1 THEN [ok EXCEPT !.value = Tail(result)]
        ELSE IF result = <<"NOT_FOUND">>
             THEN [ok EXCEPT !.success = FALSE, !.error = <<"Key not found">>]
             ELSE [ok EXCEPT !.value = result]

\* A command whose execution throws completes nobody: submitCommand times out.
TimedOut == [ClientResponse EXCEPT !.is_leader = TRUE, !.error = <<"Command execution failed or timeout">>]

Respond(r) == response' = ParseClientResponse(SerializeClientResponse(r))

CommandText(m) == serialize(Command(OperationName[m.operation + 1], m.key, m.value))

HandleRequest(m) ==
    IF m.operation \notin 0..2
    THEN UNCHANGED vars /\ Respond([ClientResponse EXCEPT !.is_leader = TRUE, !.error = <<"Unknown operation">>])
    ELSE LET text == CommandText(m)
             result == Result(deserialize(text))
         IN  /\ applyCommandWithResult(text)
             /\ Respond(IF result = NoResult THEN TimedOut ELSE Answer(m, result))

\* The stub's call: the request is encoded, parsed by the server and handled.
CallHandleRequest(m) ==
    LET received == ParseClientRequest(SerializeClientRequest(m))
    IN  /\ request' = m
        /\ IF received = Malformed
           THEN UNCHANGED vars /\ response' = Malformed
           ELSE HandleRequest(received)

\* A follower, or a restarted node, applies the same text without a client.
ApplyAtFollower(m) ==
    /\ m.operation \in 0..2
    /\ applyCommandWithResult(CommandText(m))
    /\ UNCHANGED <<request, response>>

ApplyDirectly(m) ==
    /\ m.operation \in 0..2
    /\ applyCommand(CommandText(m))
    /\ UNCHANGED <<request, response>>

\* Keys: empty, plain, with a colon, starting with one, not UTF-8.
RequestKey == {EmptyString, <<"", MorePart>>, <<NotUtf8>>}
              \cup {<<p>> : p \in KeyPart} \cup {<<p, MorePart>> : p \in KeyPart}
Request == [operation : 0..3, key : RequestKey, value : {EmptyString, <<ValuePart>>}]
StoredValue == {r.value : r \in Request} \cup {<<MorePart>> \o r.value : r \in Request}

ASSUME ValuesAreOfRequests == Value = StoredValue

KVInit == Init /\ request = ClientRequest /\ response = ClientResponse

KVNext ==
    \/ \E m \in Request : CallHandleRequest(m)
    \/ \E m \in {r \in Request : Utf8(r.key)} : ApplyAtFollower(m) \/ ApplyDirectly(m)

\* What the next steps depend on: not the last request and its answers.
StoreView == <<forward, value, currentLevel, size>>

KVSpec == KVInit /\ [][KVNext]_kvVars
-----------------------------------------------------------------------------
\* The skip list, the last request and its response have their types.
KVTypeOK ==
    /\ TypeOK
    /\ request \in Request \cup {ClientRequest}
    /\ response = Malformed \/ DOMAIN response = DOMAIN ClientResponse

\* What a leader accepts can be sent on: if the request parses, the entry with
\* its command parses at every follower and the response parses at the client,
\* so no accepted command makes AppendEntries fail for ever (the UTF-8
\* verification of raft.pb.cc).
AcceptedCanBeReplicated ==
    [][\A m \in Request : CallHandleRequest(m) =>
         \/ response' = Malformed /\ ~Utf8(m.key)
         \/ /\ response' # Malformed
            /\ m.operation \in 0..2 =>
                 LET e == [LogEntryProto EXCEPT !.command = CommandText(m)]
                 IN  ParseLogEntryProto(SerializeLogEntryProto(e)) = e]_kvVars

\* No key in the store contains a colon or is empty, whatever the clients ask
\* for: a PUT cuts its key at the colon (Command::deserialize), so a GET or
\* DELETE with a colon never finds or removes anything.
StoredKeysArePlain == \A k \in Linked : k % 2 = 0

\* The invariant of the store: every level of the skip list is a sorted list,
\* none is empty on top, and only plain keys are in it (insert, remove,
\* Command::deserialize).
KVInv ==
    /\ KVTypeOK
    /\ LevelsAreLists
    /\ LevelIsTight
    /\ StoredKeysArePlain

Plain(s) == Len(s) = 1 /\ s # EmptyString /\ Utf8(s)
Stored(s) == Lookup(KeyNumber(s))

\* A client whose key has no colon gets the truth: its PUT is what the store
\* holds afterwards, its GET returns exactly what the store held, its DELETE
\* leaves nothing, and success says so; the text of the command and the text of
\* the result lose nothing on the way (HandleRequest, deserialize,
\* applyCommandWithResult).
PlainKeysAnsweredTruly ==
    [][\A m \in Request : CallHandleRequest(m) /\ Plain(m.key) =>
         CASE m.operation = 0 -> response'.success /\ Stored(m.key)' = m.value
           [] m.operation = 1 -> /\ response'.success <=> Stored(m.key) # NoValue
                                 /\ response'.success => response'.value = Stored(m.key)
           [] m.operation = 2 -> response'.success /\ Stored(m.key)' = NoValue
           [] OTHER -> ~response'.success]_kvVars

\* What was stored under a key is found under it, with or without a colon
\* (command.h has no such limit; deserialize cuts the key of PUT).
ColonKeysAnsweredTruly ==
    [][\A m \in Request : CallHandleRequest(m) /\ m.operation = 0 /\ m.key[1] \in KeyPart
         => Stored(m.key)' = m.value]_kvVars
=============================================================================
