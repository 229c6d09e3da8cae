----------------------------- MODULE CommandLine -----------------------------
(***************************************************************************)
(* The command-line client (src/kv_client_cli.cpp): the arguments, the     *)
(* configuration file (Config), connect, one operation or a prompt, the    *)
(* exit code.  It calls the client library (KVClient), whose steps are     *)
(* taken here on behalf of the process; a program that uses the library    *)
(* from several threads is the other way to start.                         *)
(*                                                                         *)
(* A word of the command line is its position and whether it looks like a  *)
(* path (contains "/" or ".conf").                                         *)
(***************************************************************************)
EXTENDS KVClient, Config

CONSTANTS
    MaxWords,     \* bound on the words after the command
    MaxLines      \* bound on the lines of the configuration file

ASSUME WordsAreBounded == MaxWords \in Nat

VARIABLES
    mode,         \* "library", "once" (a command in the arguments) or "prompt"
    proc,         \* where the process is
    words,        \* args
    typed,        \* history: the words after the command, as typed
    command,      \* the present operation: PUT, GET or DELETE
    lines,        \* the file
    config,       \* what was read of it
    sent,         \* what the present operation asks for
    code          \* the exit code

processVars == <<mode, proc, words, typed, command, lines, config, sent, code>>
allVars == <<clientVars, processVars>>

Command == {"PUT", "GET", "DELETE"}
Word(i, path) == [pos |-> i, path |-> path]
Nothing == [key |-> 0, value |-> <<>>]
Running == 0 - 1              \* no exit code yet
Aborted == 134                \* an exception that main does not catch

CLInit ==
    /\ ClientInit
    /\ mode \in {"library", "once", "prompt"}
    /\ proc = IF mode = "library" THEN "library" ELSE "arguments"
    /\ words = <<>> /\ typed = <<>> /\ command = "GET"
    /\ lines = <<>> /\ config = Start
    /\ sent = Nothing
    /\ code = Running

Step(p) == proc' = p
Exit(c) == code' = c /\ Step("exited")
-----------------------------------------------------------------------------
\* Mutant: a path is looked for in the first word too.
SplitArgumentsFirst(w) == IF w # <<>> /\ w[1].path THEN Tail(w) ELSE w

\* The last word is the configuration file if it looks like one.
SplitArguments(w) ==
    IF w # <<>> /\ w[Len(w)].path THEN SubSeq(w, 1, Len(w) - 1) ELSE w

\* The first argument is a command, or the configuration file.
ParseArguments ==
    /\ proc = "arguments"
    /\ IF mode = "once"
       THEN \E n \in 0..MaxWords, c \in Command : \E paths \in SUBSET (1..n) :
              /\ typed' = [i \in 1..n |-> Word(i, i \in paths)]
              /\ words' = SplitArguments([i \in 1..n |-> Word(i, i \in paths)])
              /\ command' = c
       ELSE UNCHANGED <<words, typed, command>>
    /\ Step("open")
    /\ UNCHANGED <<clientVars, mode, lines, config, sent, code>>

\* loadFromFile: the file may not open.
OpenFile ==
    /\ proc = "open"
    /\ \/ Exit(1)
       \/ Step("reading") /\ UNCHANGED code
    /\ UNCHANGED <<clientVars, mode, words, typed, command, lines, config, sent>>

\* A line.  The file does not depend on the other arguments: with a command,
\* files of one line bring all that loadFromFile may return.
ReadNextLine(l) ==
    /\ proc = "reading" /\ ~config.thrown
    /\ Len(lines) < (IF mode = "once" THEN 1 ELSE MaxLines)
    /\ lines' = Append(lines, l)
    /\ config' = ReadLine(config, l)
    /\ UNCHANGED <<clientVars, mode, proc, words, typed, command, sent, code>>

\* The end of the file, or an exception.
EndOfFile ==
    /\ proc = "reading"
    /\ config' = Loaded(config)
    /\ Step("loaded")
    /\ UNCHANGED <<clientVars, mode, words, typed, command, lines, sent, code>>

\* An exception of stoi ends the process; no nodes, too.  Else the client is
\* made, and connect is called.
UseConfig ==
    /\ proc = "loaded"
    /\ IF config.thrown THEN Exit(Aborted)
       ELSE IF NoNodes(config) THEN Exit(1)
       ELSE Step("connect") /\ UNCHANGED code
    /\ lines' = <<>> /\ config' = Start
    /\ UNCHANGED <<clientVars, mode, words, typed, command, sent>>

\* The calls of the library: the process waits in the call.
CallConnect(c) ==
    /\ proc = "connect"
    /\ connect(c)
    /\ Step("connecting")
    /\ UNCHANGED <<mode, words, typed, command, lines, config, sent, code>>

Connected(c) ==
    /\ proc = "connecting"
    /\ \/ at[c] = "false" /\ Exit(1)
       \/ at[c] = "true" /\ Step(IF mode = "once" THEN "command" ELSE "prompt") /\ UNCHANGED code
    /\ UNCHANGED <<clientVars, mode, words, typed, command, lines, config, sent>>

CallOperation(o, request) ==
    /\ executeOperation(o)
    /\ sent' = request
    /\ Step("operating")

\* The usage is checked only now; the words after the second join the value.
RunCommand(o) ==
    /\ proc = "command"
    /\ IF Len(words) < (IF command = "PUT" THEN 2 ELSE 1)
       THEN Exit(1) /\ UNCHANGED <<clientVars, sent>>
       ELSE /\ CallOperation(o, [key |-> words[1].pos,
                                 value |-> IF command = "PUT" THEN [i \in 1..Len(words)-1 |-> words[i+1].pos]
                                           ELSE <<>>])
            /\ UNCHANGED code
    /\ UNCHANGED <<mode, words, typed, command, lines, config>>

CommandEnds(o) ==
    /\ proc = "operating" /\ mode = "once"
    /\ at[o] \in {"true", "false"}
    /\ disconnect
    /\ Exit(IF at[o] = "true" THEN 0 ELSE 1)
    /\ UNCHANGED <<mode, words, typed, command, lines, config, sent>>

\* A line at the prompt: end of input or quit; an operation; anything else
\* (blank, help, unknown, wrong usage) only prints.
Quit ==
    /\ proc = "prompt"
    /\ disconnect
    /\ Exit(0)
    /\ UNCHANGED <<mode, words, typed, command, lines, config, sent>>

PromptOperation(o, c) ==
    /\ proc = "prompt"
    /\ CallOperation(o, [key |-> 1, value |-> IF c = "PUT" THEN <<2>> ELSE <<>>])
    /\ command' = c
    /\ UNCHANGED <<mode, words, typed, lines, config, code>>

\* OK, the value or the error is printed.
OperationEnds(o) ==
    /\ proc = "operating" /\ mode = "prompt"
    /\ mutex_ = NoCall /\ at[o] \in {"true", "false"}
    /\ Step("prompt")
    /\ sent' = Nothing
    /\ UNCHANGED <<clientVars, mode, words, typed, command, lines, config, code>>
-----------------------------------------------------------------------------
\* What the process does itself.
ProcessStep ==
    \/ ParseArguments \/ OpenFile \/ EndOfFile \/ UseConfig
    \/ \E l \in Line : ReadNextLine(l)
    \/ \E c \in Connection : CallConnect(c) \/ Connected(c)
    \/ \E o \in Operation : RunCommand(o) \/ CommandEnds(o) \/ OperationEnds(o)

CLNext ==
    \/ mode = "library" /\ ClientNext /\ UNCHANGED processVars
    \/ /\ mode # "library"
       /\ \/ ProcessStep
          \/ Quit
          \/ \E o \in Operation, c \in Command : PromptOperation(o, c)
          \/ (\E o \in Operation : OperationStep(o) \/ Execute(o)) /\ UNCHANGED processVars
          \/ (\E c \in Call : FindStep(c)) /\ UNCHANGED processVars

\* The process does not stop by itself, every RPC has a deadline; nothing is
\* assumed of who types at the prompt.
CLFairness ==
    /\ WF_allVars(mode # "library" /\ ProcessStep)
    /\ \A o \in Operation : WF_allVars(OperationStep(o) /\ UNCHANGED processVars)
    /\ \A c \in Call : WF_allVars(FindStep(c) /\ UNCHANGED processVars)

CLSpec == CLInit /\ [][CLNext]_allVars /\ CLFairness
-----------------------------------------------------------------------------
Stuck == \E c \in Call : at[c] = "relock"

\* A node of the configuration is what the last section of its id says, nothing
\* of another section, whatever the order of lines; a malformed number that is
\* read stops the program, one that is not read does not (loadFromFile, against
\* the reference of Config).
ConfigAsWritten == proc = "loaded" => AsWritten(lines, config)

\* Exit code 0 of a command means that a leader answered success; after 1 no
\* request of the operation, of all its retries, had that answer.  Whether
\* success is true of the command itself is a question to the servers
\* (TruthfulWhileLeading of Proposals).
ExitCodeIsTrue ==
    mode = "once" /\ proc = "exited" =>
      /\ code = 0 => \E o \in Operation : at[o] = "true" /\ ledAnswer[o] = "success"
      /\ code = 1 => \A o \in Operation : at[o] \in {"new", "false"} /\ ledAnswer[o] # "success"

\* What is sent is what was typed: the key is the first word and the value all
\* the others in their order, but for a last word that looks like a path.
SendsWhatWasTyped ==
    mode = "once" /\ sent # Nothing =>
      LET n == IF typed[Len(typed)].path THEN Len(typed) - 1 ELSE Len(typed)
      IN  /\ sent.key = 1
          /\ command = "PUT" => sent.value = [i \in 1..n-1 |-> i + 1]

\* The invariant of the client: requests go to an address that is known and are
\* bounded by the retries, and the exit code says what a leader answered (executeOperation,
\* main of kv_client_cli.cpp).
ClientInv ==
    /\ ClientTypeOK
    /\ SendsToAnAddress
    /\ RequestsBounded
    /\ ExitCodeIsTrue

\* Calls of the library return, a process with a command ends, and the prompt comes back after every
\* operation, unless a call is stuck in its own lock (sendRequest's redirect).
ProcessEnds ==
    /\ CallsReturnUnlessRedirected
    /\ mode = "once" ~> proc = "exited" \/ Stuck
    /\ proc = "operating" ~> proc \in {"prompt", "exited"} \/ Stuck

\* Every value is sent as typed, those with a slash too (printUsage: "PUT <key>
\* <value> [config_file]").
SendsEveryWord ==
    mode = "once" /\ sent # Nothing /\ command = "PUT" => Len(sent.value) = Len(typed) - 1
=============================================================================
