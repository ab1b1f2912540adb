---------------------------- MODULE CompileServer ----------------------------
(***************************************************************************)
(* The compilation server (package proxy): the main thread accepts one     *)
(* client at a time and joins the thread that serves it; that thread reads *)
(* requests, has each compiled by a thread of its own, joins it, and       *)
(* answers.  The output of a back end that the compiler feeds through      *)
(* pipes is forwarded by threads that nobody joins.  All these threads     *)
(* share the process's System.err and out, and, since they inherit it from *)
(* the main thread, one list of temporary directories: ResourceManager's   *)
(* tempDirList.                                                            *)
(***************************************************************************)
EXTENDS Integers, FiniteSets

CONSTANTS
  Clients,
  Server,        \* what belongs to the server itself, not to a client
  MaxRequests    \* bound: requests read

ASSUME CompileServerAssumption == Server \notin Clients /\ MaxRequests \in Nat

VARIABLES
  jvm,            \* "running" or "exited"
  connection,     \* client -> "away", "waiting" (to be accepted), "open"
  joined,         \* the client whose thread the main thread waits for, or Server
  thread,         \* client -> its ServerThread: "none", "reading", "joining", "ended"
  compiler,       \* client -> its CompilerThread: "none", "started", "running",
                  \* "compiled", "closed", "ended", "dead"
  result,         \* client -> CompilerThread.result: "ok" or "failed"
  counter,        \* requests read
  err,            \* whose buffer System.err and out are; Server: the console
  backup_err,     \* client -> what they were when its compiler started
  captured,       \* client -> whose messages are in the buffer of its compiler
  forwarded,      \* client -> whose back ends' lines are in that buffer
  readers,        \* the clients for whom a back end's output is still being read
  dirs,           \* existing temporary directories, by owner
  tempDirList,    \* those registered
  binaries,       \* the outputFiles that exist, in the directory of the server
  answer          \* client -> its last answer: "none", "ok", "empty", "failed", "broken"

streams   == <<err, backup_err, captured, forwarded, readers>>
files     == <<dirs, tempDirList, binaries>>
threads   == <<connection, joined, thread, compiler, result, counter>>
vars      == <<jvm, threads, streams, files, answer>>

Set(f, c, v) == f' = [f EXCEPT ![c] = v]

Init ==
  /\ jvm = "running" /\ joined = Server /\ counter = 0
  /\ connection = [c \in Clients |-> "away"]
  /\ thread = [c \in Clients |-> "none"] /\ compiler = [c \in Clients |-> "none"]
  /\ result = [c \in Clients |-> "ok"]   /\ answer = [c \in Clients |-> "none"]
  /\ err = Server /\ backup_err = [c \in Clients |-> Server]
  /\ captured = [c \in Clients |-> {}] /\ forwarded = [c \in Clients |-> {}]
  /\ readers = {}
  /\ dirs = {Server} /\ tempDirList = {Server} /\ binaries = {}

-----------------------------------------------------------------------------
(* The clients.                                                             *)

Connect(c) ==
  /\ jvm = "running" /\ connection[c] = "away"
  /\ Set(connection, c, "waiting")
  /\ UNCHANGED <<jvm, joined, thread, compiler, result, counter, streams, files, answer>>

-----------------------------------------------------------------------------
(* ProxyServer.mainNonStatic: accept, start, join.                          *)

\* Mutation of JoinReturns: the main thread does not wait.
JoinSkipped == TRUE

JoinReturns == joined # Server => thread[joined] = "ended"

Accept(c) ==
  /\ jvm = "running" /\ JoinReturns /\ connection[c] = "waiting"
  /\ Set(connection, c, "open") /\ Set(thread, c, "reading")
  /\ joined' = c
  /\ UNCHANGED <<jvm, compiler, result, counter, streams, files, answer>>

-----------------------------------------------------------------------------
(* ServerThread.run.                                                        *)

Reading(c) == jvm = "running" /\ thread[c] = "reading"

\* The socket is closed by the client.
ReadEnd(c) ==
  /\ Reading(c)
  /\ Set(thread, c, "ended")
  /\ UNCHANGED <<jvm, connection, joined, compiler, result, counter, streams, files, answer>>

\* Request -1: the thread ends, and with it the connection, but not the server.
ReadStop(c) ==
  /\ Reading(c)
  /\ Set(thread, c, "ended")
  /\ UNCHANGED <<jvm, connection, joined, compiler, result, counter, streams, files, answer>>

\* A request: its program is saved in the server's directory, without which an
\* exception ends the thread, and a compiler is started.
ReadRequest(c) ==
  /\ Reading(c) /\ counter < MaxRequests
  /\ counter' = counter + 1
  /\ Set(answer, c, "none")
  /\ IF Server \in dirs
     THEN /\ Set(thread, c, "joining") /\ Set(compiler, c, "started")
          /\ Set(captured, c, {}) /\ Set(forwarded, c, {}) /\ Set(result, c, "ok")
     ELSE Set(thread, c, "ended") /\ UNCHANGED <<compiler, captured, forwarded, result>>
  /\ UNCHANGED <<jvm, connection, joined, err, backup_err, readers, files>>

\* Mutation of CompilerJoined: the thread waits for a result, not for the death
\* of the compiler.
HasResult(c) == compiler[c] = "ended"

CompilerJoined(c) == compiler[c] \in {"ended", "dead"}

\* What is written back.  A compiler that died has left result 0, which is
\* sent, and no buffer: an exception then ends the thread.  So does a binary that
\* is missing, once its size, 0, has been sent.
AnswerTo(c) ==
  CASE compiler[c] = "dead" -> "broken"
    [] compiler[c] # "dead" /\ result[c] = "failed" -> "failed"
    [] compiler[c] # "dead" /\ result[c] = "ok" -> IF c \in binaries THEN "ok" ELSE "empty"

WriteAnswer(c) ==
  /\ jvm = "running" /\ thread[c] = "joining" /\ CompilerJoined(c)
  /\ Set(answer, c, AnswerTo(c))
  /\ Set(thread, c, IF AnswerTo(c) \in {"ok", "failed"} THEN "reading" ELSE "ended")
  /\ Set(compiler, c, "none")
  /\ binaries' = IF AnswerTo(c) \in {"ok", "failed"} THEN binaries \ {c} ELSE binaries
  /\ UNCHANGED <<jvm, connection, joined, result, counter, streams, dirs, tempDirList>>

-----------------------------------------------------------------------------
(* CompilerThread.run, and the compiler's use of what is shared.            *)

At(c, pc) == jvm = "running" /\ compiler[c] = pc

Redirect(c) ==
  /\ At(c, "started")
  /\ Set(compiler, c, "running")
  /\ Set(backup_err, c, err) /\ err' = c
  /\ UNCHANGED <<jvm, connection, joined, thread, result, counter, captured, forwarded,
                 readers, files, answer>>

\* What the compiler prints goes where System.err and out are then.
Prints(c) ==
  /\ At(c, "running")
  /\ IF err = Server THEN UNCHANGED captured ELSE Set(captured, err, captured[err] \cup {c})
  /\ UNCHANGED <<jvm, threads, err, backup_err, forwarded, readers, files, answer>>

\* ExecHelper: a back end is started, and the threads that read its output.
StartBackend(c) ==
  /\ At(c, "running") /\ c \notin readers
  /\ readers' = readers \cup {c}
  /\ UNCHANGED <<jvm, threads, err, backup_err, captured, forwarded, files, answer>>

\* The compiler creates and registers its own directory (unless it stops at
\* its options), and ends, whatever the readers have left to print: with a
\* binary, with an error, or, for options such as '-v', with neither.
Compile(c) ==
  /\ At(c, "running")
  /\ Set(compiler, c, "compiled")
  /\ \E own \in SUBSET {c} : dirs' = dirs \cup own /\ tempDirList' = tempDirList \cup own
  /\ \/ Set(result, c, "ok") /\ Server \in dirs /\ binaries' = binaries \cup {c}
     \/ Set(result, c, "ok") /\ UNCHANGED binaries
     \/ Set(result, c, "failed") /\ UNCHANGED binaries
  /\ UNCHANGED <<jvm, connection, joined, thread, counter, streams, answer>>

\* Mutation of Shutdown: after an error nothing is deleted.
ShutdownIfOk(c) ==
  IF result[c] = "ok"
  THEN /\ dirs' = dirs \ tempDirList /\ tempDirList' = {}
       /\ binaries' = IF Server \in tempDirList THEN {} ELSE binaries
  ELSE UNCHANGED files

\* ResourceManager.shutdown: all the directories of the list are deleted, with
\* what they contain.
Shutdown(c) == /\ dirs' = dirs \ tempDirList /\ tempDirList' = {}
               /\ binaries' = IF Server \in tempDirList THEN {} ELSE binaries

CloseResources(c) ==
  /\ At(c, "compiled")
  /\ Set(compiler, c, "closed")
  /\ Shutdown(c)
  /\ UNCHANGED <<jvm, connection, joined, thread, result, counter, streams, answer>>

Restore(c) ==
  /\ At(c, "closed")
  /\ Set(compiler, c, "ended")
  /\ err' = backup_err[c]
  /\ UNCHANGED <<jvm, connection, joined, thread, result, counter, backup_err, captured,
                 forwarded, readers, files, answer>>

\* An error other than CompilerExit (a stack overflow) ends the compiler: its
\* result is the initial one, nothing is closed, nothing is restored.
Die(c) ==
  /\ At(c, "running")
  /\ Set(compiler, c, "dead")
  /\ \E own \in SUBSET {c} : dirs' = dirs \cup own /\ tempDirList' = tempDirList \cup own
  /\ UNCHANGED <<jvm, connection, joined, thread, result, counter, streams, binaries,
                 answer>>

-----------------------------------------------------------------------------
(* The threads that read a back end's output.                               *)

\* A line is printed where System.err and out are at that moment.
Forward(c) ==
  /\ jvm = "running" /\ c \in readers /\ err # Server
  /\ Set(forwarded, err, forwarded[err] \cup {c})
  /\ UNCHANGED <<jvm, threads, err, backup_err, captured, readers, files, answer>>

\* The back end has ended, and all it printed has been read.
ReaderEnds(c) ==
  /\ jvm = "running" /\ c \in readers
  /\ readers' = readers \ {c}
  /\ UNCHANGED <<jvm, threads, err, backup_err, captured, forwarded, files, answer>>

-----------------------------------------------------------------------------
\* The JVM ends on a signal.  The server's shutdown hook was created before
\* the list: it has a list of its own, empty.  A compiler's hook shares the
\* list, once the compiler has registered its directory.
Terminate ==
  /\ jvm = "running" /\ jvm' = "exited"
  /\ IF tempDirList \ {Server} # {}
     THEN /\ dirs' = dirs \ tempDirList /\ tempDirList' = {}
          /\ binaries' = IF Server \in tempDirList THEN {} ELSE binaries
     ELSE UNCHANGED files
  /\ UNCHANGED <<threads, streams, answer>>

-----------------------------------------------------------------------------
CompilerStep(c) == Redirect(c) \/ Compile(c) \/ CloseResources(c) \/ Restore(c) \/ Die(c)

Output(c) == Prints(c) \/ StartBackend(c) \/ Forward(c) \/ ReaderEnds(c)

Next == \/ Terminate
        \/ \E c \in Clients : \/ Connect(c) \/ Accept(c) \/ CompilerStep(c) \/ Output(c)
                              \/ ReadEnd(c) \/ ReadStop(c) \/ ReadRequest(c) \/ WriteAnswer(c)

\* The JVM runs the main thread, the server's threads and the compilers, which
\* end; what clients, signals and back ends do is up to them.
Spec == /\ Init /\ [][Next]_vars
        /\ \A c \in Clients : /\ WF_vars(Accept(c)) /\ WF_vars(WriteAnswer(c))
                              /\ WF_vars(CompilerStep(c))

-----------------------------------------------------------------------------
(* Properties.                                                              *)

TypeOK ==
  /\ jvm \in {"running", "exited"} /\ joined \in Clients \cup {Server}
  /\ connection \in [Clients -> {"away", "waiting", "open"}]
  /\ thread \in [Clients -> {"none", "reading", "joining", "ended"}]
  /\ compiler \in [Clients -> {"none", "started", "running", "compiled", "closed", "ended",
                               "dead"}]
  /\ result \in [Clients -> {"ok", "failed"}]
  /\ answer \in [Clients -> {"none", "ok", "empty", "failed", "broken"}]
  /\ counter \in 0..MaxRequests
  /\ err \in Clients \cup {Server}
  /\ backup_err \in [Clients -> Clients \cup {Server}]
  /\ captured \in [Clients -> SUBSET Clients] /\ forwarded \in [Clients -> SUBSET Clients]
  /\ readers \subseteq Clients
  /\ dirs \subseteq Clients \cup {Server} /\ tempDirList \subseteq dirs
  /\ binaries \subseteq Clients

\* What a client is sent of the messages of compilers is those of its own
\* compilation, although every compiler prints to the process's streams: one
\* client is served at a time.
MessagesNeverCross == \A c \in Clients : captured[c] \subseteq {c}

\* The process's streams are the console's whenever no compiler has them: however
\* the compilers follow each other, what one saves and restores is never the buffer
\* of another, unless that one died and nobody has restored the streams since.
StreamsRestored ==
  err # Server => \/ compiler[err] \in {"running", "compiled", "closed", "dead"}
                  \/ answer[err] = "broken"

\* When nothing is being compiled, no compiler has left a directory behind,
\* successful or not, unless it died.
NoDirectoryLeft ==
  (\A c \in Clients : compiler[c] \in {"none", "ended"} /\ answer[c] # "broken")
    => dirs \subseteq {Server}

\* Every request that is read is answered, or the connection is given up and
\* the next client can be accepted, unless the JVM ends: a compiler that dies
\* does not block the server.
RequestsEnd ==
  \A c \in Clients : thread[c] = "joining" ~> thread[c] # "joining" \/ jvm = "exited"
=============================================================================
