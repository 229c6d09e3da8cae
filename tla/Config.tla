------------------------------- MODULE Config --------------------------------
(***************************************************************************)
(* The cluster configuration: loadFromFile, getNodeConfig and getAllNodes  *)
(* (src/util/config.cpp).  A file is a sequence of lines; comments, blanks *)
(* and lines without "=" are one kind of line.                             *)
(***************************************************************************)
EXTENDS Integers, Sequences

NodeId == 0..2          \* ids in section names; 0 is not taken for a node
Bad == -1               \* text that stoi refuses
Undefined == -2         \* an int that was never set

Skip == [kind |-> "skip"]
Section(s) == [kind |-> "section", name |-> s]
NodeSection(n) == [kind |-> "node", id |-> n]       \* "[node_n]"
Pair(k, v) == [kind |-> "pair", key |-> k, value |-> v]

Line == {Skip, Section("cluster"), Section("raft"), NodeSection(Bad), Pair("host", 7), Pair("data_dir", 8),
         Pair("node_count", 3), Pair("node_count", Bad), Pair("heartbeat_interval", 9), Pair("heartbeat_interval", Bad)}
        \cup {NodeSection(n) : n \in NodeId} \cup {Pair("port", p) : p \in {1, 2, Bad}}

\* NodeConfig(): everything is zero or empty.
NodeConfig == [id |-> 0, host |-> 0, port |-> 0, data_dir |-> 0]

\* The loop's variables before the first line.  current_node is declared without
\* an initializer: its numbers are undefined.
Start ==
    [section |-> "", current |-> [NodeConfig EXCEPT !.id = Undefined, !.port = Undefined],
     id |-> -1, nodes |-> [n \in NodeId |-> NodeConfig],
     node_count |-> 0, heartbeat_interval |-> 50, thrown |-> FALSE]

Save(st) == IF st.id > 0 THEN [st EXCEPT !.nodes[st.id] = st.current, !.current = NodeConfig] ELSE st

\* Mutant: the next node starts with the values of the last one.
OpenSectionKeeping(st, l) ==
    LET saved == [Save(st) EXCEPT !.current = st.current]
    IN  IF l.kind = "section" THEN [saved EXCEPT !.section = l.name, !.id = -1]
        ELSE IF l.id = Bad THEN [saved EXCEPT !.thrown = TRUE]
        ELSE [saved EXCEPT !.section = "node", !.id = l.id, !.current.id = l.id]

\* "[...]": the node before it is complete.
OpenSection(st, l) ==
    LET saved == Save(st)
    IN  IF l.kind = "section" THEN [saved EXCEPT !.section = l.name, !.id = -1]
        ELSE IF l.id = Bad THEN [saved EXCEPT !.thrown = TRUE]
        ELSE [saved EXCEPT !.section = "node", !.id = l.id, !.current.id = l.id]

\* "key = value", by the section; the other parameters of [raft] are as
\* heartbeat_interval.
SetPair(st, l) ==
    IF st.section = "cluster" /\ l.key = "node_count"
    THEN IF l.value = Bad THEN [st EXCEPT !.thrown = TRUE] ELSE [st EXCEPT !.node_count = l.value]
    ELSE IF st.section = "raft" /\ l.key = "heartbeat_interval"
    THEN IF l.value = Bad THEN [st EXCEPT !.thrown = TRUE] ELSE [st EXCEPT !.heartbeat_interval = l.value]
    ELSE IF st.section = "node" /\ st.id > 0
    THEN CASE l.key = "host" -> [st EXCEPT !.current.host = l.value]
           [] l.key = "port" -> IF l.value = Bad THEN [st EXCEPT !.thrown = TRUE]
                                ELSE [st EXCEPT !.current.port = l.value]
           [] l.key = "data_dir" -> [st EXCEPT !.current.data_dir = l.value]
           [] OTHER -> st
    ELSE st

ReadLine(st, l) ==
    CASE st.thrown -> st
      [] l.kind = "skip" -> st
      [] l.kind = "pair" -> SetPair(st, l)
      [] OTHER -> OpenSection(st, l)

\* After the last line: the last node is complete.
Loaded(st) == IF st.thrown THEN st ELSE Save(st)

\* The map's entries; getNodeConfig of another id returns NodeConfig().
Configured(config) == {n \in NodeId : config.nodes[n] # NodeConfig}
getNodeConfig(config, n) == IF n \in NodeId THEN config.nodes[n] ELSE NodeConfig

\* loadFromFile returns false.
NoNodes(config) == Configured(config) = {}
-----------------------------------------------------------------------------
(* The reference: what a file says *)

\* The section line that line i is under, or 0.
Above(lines, i) ==
    LET sections == {j \in 1..i - 1 : lines[j].kind \in {"section", "node"}}
    IN  IF sections = {} THEN 0 ELSE CHOOSE j \in sections : \A m \in sections : m <= j

\* The last value of a key under the section line j.
LastValue(lines, j, key, default) ==
    LET found == {i \in DOMAIN lines : lines[i].kind = "pair" /\ Above(lines, i) = j /\ lines[i].key = key}
    IN  IF found = {} THEN default
        ELSE lines[CHOOSE i \in found : \A m \in found : m <= i].value

\* A file with a number that is none, where a number is expected.
BadFile(lines) ==
    \E i \in DOMAIN lines :
      \/ lines[i].kind = "node" /\ lines[i].id = Bad
      \/ /\ lines[i].kind = "pair" /\ lines[i].value = Bad /\ Above(lines, i) > 0
         /\ LET s == lines[Above(lines, i)]
            IN  \/ s.kind = "section" /\ s.name = "cluster" /\ lines[i].key = "node_count"
                \/ s.kind = "section" /\ s.name = "raft" /\ lines[i].key = "heartbeat_interval"
                \/ s.kind = "node" /\ s.id > 0 /\ lines[i].key = "port"

\* A node is what its last section says; the port may be undefined only in the
\* first of the sections, and only if it names none.
NodeAsWritten(lines, n, node) ==
    LET sections == {j \in DOMAIN lines : lines[j].kind = "node" /\ lines[j].id = n}
    IN  IF sections = {} \/ n = 0 THEN node = NodeConfig
        ELSE LET j == CHOOSE i \in sections : \A m \in sections : m <= i
             IN  /\ node.id = n
                 /\ node.host = LastValue(lines, j, "host", 0)
                 /\ node.data_dir = LastValue(lines, j, "data_dir", 0)
                 /\ \/ node.port = LastValue(lines, j, "port", 0)
                    \/ /\ node.port = Undefined /\ LastValue(lines, j, "port", Undefined) = Undefined
                       /\ \A m \in 1..j - 1 : lines[m].kind = "node" => lines[m].id = 0

AsWritten(lines, config) ==
    /\ config.thrown <=> BadFile(lines)
    /\ ~config.thrown => \A n \in NodeId : NodeAsWritten(lines, n, config.nodes[n])
=============================================================================
