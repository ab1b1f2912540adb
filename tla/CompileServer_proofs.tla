------------------------- MODULE CompileServer_proofs -------------------------
(***************************************************************************)
(* The server's threads take turns, for any set of clients and any number   *)
(* of requests.                                                             *)
(***************************************************************************)
EXTENDS CompileServer, TLAPS

Busy == {"reading", "joining"}
Redirected == {"running", "compiled", "closed"}

\* The only thread that serves a client is the one the main thread waits for.
OneThread == \A c \in Clients : thread[c] \in Busy => joined = c

\* A compiler only exists while the thread that started it waits for it.
OneCompiler == \A c \in Clients : compiler[c] # "none" => thread[c] = "joining"

\* While a compiler has redirected the streams, they are its own.
OwnStreams == \A c \in Clients : compiler[c] \in Redirected => err = c

TurnInv == TypeOK /\ OneThread /\ OneCompiler /\ OwnStreams /\ MessagesNeverCross

USE CompileServerAssumption

LEMMA TurnInit == Init => TurnInv
<1> SUFFICES ASSUME Init PROVE TurnInv OBVIOUS
<1>1. TypeOK
  <2>1. /\ answer \in [Clients -> {"none", "ok", "empty", "failed", "broken"}]
        /\ result \in [Clients -> {"ok", "failed"}]
        /\ captured \in [Clients -> SUBSET Clients]
        /\ forwarded \in [Clients -> SUBSET Clients] /\ readers \subseteq Clients
        /\ backup_err \in [Clients -> Clients \cup {Server}]
    BY DEF Init
  <2>2. /\ connection \in [Clients -> {"away", "waiting", "open"}]
        /\ thread \in [Clients -> {"none", "reading", "joining", "ended"}]
        /\ compiler \in [Clients -> {"none", "started", "running", "compiled", "closed",
                                     "ended", "dead"}]
    BY DEF Init
  <2>3. /\ jvm \in {"running", "exited"} /\ joined \in Clients \cup {Server}
        /\ err \in Clients \cup {Server}
    BY DEF Init
  <2>4. counter \in 0..MaxRequests
    BY DEF Init
  <2>5. /\ dirs \subseteq Clients \cup {Server} /\ tempDirList \subseteq dirs
        /\ binaries \subseteq Clients
    BY DEF Init
  <2> QED BY <2>1, <2>2, <2>3, <2>4, <2>5 DEF TypeOK
<1>2. OneThread /\ OneCompiler BY DEF Init, OneThread, OneCompiler, Busy
<1>3. OwnStreams /\ MessagesNeverCross BY DEF Init, OwnStreams, MessagesNeverCross, Redirected
<1> QED BY <1>1, <1>2, <1>3 DEF TurnInv

LEMMA TypeNext == TypeOK /\ [Next]_vars => TypeOK'
<1> SUFFICES ASSUME TypeOK, [Next]_vars PROVE TypeOK' OBVIOUS
<1> USE DEF TypeOK, Set
<1>1. CASE Terminate
  BY <1>1 DEF Terminate, threads, streams, files
<1>2. ASSUME NEW c \in Clients, Connect(c) PROVE TypeOK'
  BY <1>2 DEF Connect, streams, files
<1>3. ASSUME NEW c \in Clients, Accept(c) PROVE TypeOK'
  BY <1>3 DEF Accept, streams, files
<1>4. ASSUME NEW c \in Clients, ReadEnd(c) PROVE TypeOK'
  BY <1>4 DEF ReadEnd, Reading, streams, files
<1>5. ASSUME NEW c \in Clients, ReadStop(c) PROVE TypeOK'
  BY <1>5 DEF ReadStop, Reading, streams, files
<1>6. ASSUME NEW c \in Clients, ReadRequest(c) PROVE TypeOK'
  BY <1>6 DEF ReadRequest, Reading, streams, files
<1>7. ASSUME NEW c \in Clients, WriteAnswer(c) PROVE TypeOK'
  <2>1. AnswerTo(c) \in {"ok", "empty", "failed", "broken"} BY DEF AnswerTo
  <2> QED BY <1>7, <2>1 DEF WriteAnswer, streams, files
<1>8. ASSUME NEW c \in Clients, Redirect(c) PROVE TypeOK'
  BY <1>8 DEF Redirect, At, streams, files
<1>9. ASSUME NEW c \in Clients, Compile(c) PROVE TypeOK'
  BY <1>9 DEF Compile, At, streams, files
<1>10. ASSUME NEW c \in Clients, CloseResources(c) PROVE TypeOK'
  BY <1>10 DEF CloseResources, Shutdown, At, streams, files
<1>11. ASSUME NEW c \in Clients, Restore(c) PROVE TypeOK'
  BY <1>11 DEF Restore, At, streams, files
<1>12. ASSUME NEW c \in Clients, Die(c) PROVE TypeOK'
  BY <1>12 DEF Die, At, streams, files
<1>13. ASSUME NEW c \in Clients, Output(c) PROVE TypeOK'
  <2>1. CASE Prints(c) BY <2>1 DEF Prints, At, threads, files
  <2>2. CASE StartBackend(c) BY <2>2 DEF StartBackend, At, threads, files
  <2>3. CASE Forward(c) BY <2>3 DEF Forward, threads, files
  <2>4. CASE ReaderEnds(c) BY <2>4 DEF ReaderEnds, threads, files
  <2> QED BY <1>13, <2>1, <2>2, <2>3, <2>4 DEF Output
<1>14. CASE UNCHANGED vars
  BY <1>14 DEF vars, threads, streams, files
<1> QED BY <1>1, <1>2, <1>3, <1>4, <1>5, <1>6, <1>7, <1>8, <1>9, <1>10, <1>11, <1>12, <1>13,
       <1>14
        DEF Next, CompilerStep

LEMMA TurnNext == TurnInv /\ [Next]_vars => TurnInv'
<1> SUFFICES ASSUME TurnInv, [Next]_vars PROVE TurnInv' OBVIOUS
<1> DEFINE Turn == OneThread /\ OneCompiler /\ OwnStreams /\ MessagesNeverCross
<1>0. TypeOK /\ TypeOK' BY TypeNext DEF TurnInv
<1> SUFFICES Turn' BY <1>0 DEF TurnInv
<1> USE <1>0 DEF TurnInv, TypeOK, Set, OneThread, OneCompiler, OwnStreams, MessagesNeverCross,
                 Busy, Redirected
<1>1. CASE Terminate
  BY <1>1 DEF Terminate, threads, streams
<1>2. ASSUME NEW c \in Clients, Connect(c) PROVE Turn'
  BY <1>2 DEF Connect, streams
<1>3. ASSUME NEW c \in Clients, Accept(c) PROVE Turn'
  BY <1>3 DEF Accept, JoinReturns, streams
<1>4. ASSUME NEW c \in Clients, ReadEnd(c) PROVE Turn'
  BY <1>4 DEF ReadEnd, Reading, streams
<1>5. ASSUME NEW c \in Clients, ReadStop(c) PROVE Turn'
  BY <1>5 DEF ReadStop, Reading, streams
<1>6. ASSUME NEW c \in Clients, ReadRequest(c) PROVE Turn'
  BY <1>6 DEF ReadRequest, Reading
<1>7. ASSUME NEW c \in Clients, WriteAnswer(c) PROVE Turn'
  BY <1>7 DEF WriteAnswer, CompilerJoined, streams
<1>8. ASSUME NEW c \in Clients, Redirect(c) PROVE Turn'
  BY <1>8 DEF Redirect, At
<1>9. ASSUME NEW c \in Clients, Compile(c) PROVE Turn'
  BY <1>9 DEF Compile, At, streams
<1>10. ASSUME NEW c \in Clients, CloseResources(c) PROVE Turn'
  BY <1>10 DEF CloseResources, At, streams
<1>11. ASSUME NEW c \in Clients, Restore(c) PROVE Turn'
  BY <1>11 DEF Restore, At
<1>12. ASSUME NEW c \in Clients, Die(c) PROVE Turn'
  BY <1>12 DEF Die, At, streams
<1>13. ASSUME NEW c \in Clients, Output(c) PROVE Turn'
  <2>1. CASE Prints(c) BY <2>1 DEF Prints, At, threads
  <2>2. CASE StartBackend(c) BY <2>2 DEF StartBackend, At, threads
  <2>3. CASE Forward(c) BY <2>3 DEF Forward, threads
  <2>4. CASE ReaderEnds(c) BY <2>4 DEF ReaderEnds, threads
  <2> QED BY <1>13, <2>1, <2>2, <2>3, <2>4 DEF Output
<1>14. CASE UNCHANGED vars
  BY <1>14 DEF vars, threads, streams
<1> QED BY <1>1, <1>2, <1>3, <1>4, <1>5, <1>6, <1>7, <1>8, <1>9, <1>10, <1>11, <1>12, <1>13,
       <1>14
        DEF Next, CompilerStep

\* The server's state is well formed for any set of clients, and a directory
\* that is registered exists.
THEOREM ServerTypeCorrect == Spec => []TypeOK
<1>1. Init => TypeOK BY TurnInit DEF TurnInv
<1> QED BY <1>1, TypeNext, PTL DEF Spec

\* The messages of a compiler reach the client it compiles for and no other,
\* whatever clients connect, stop or send, and however compilers end: only the
\* lines of back ends may go astray.
THEOREM MessagesAreSeparate == Spec => []MessagesNeverCross
<1>1. TurnInv => MessagesNeverCross BY DEF TurnInv
<1> QED BY <1>1, TurnInit, TurnNext, PTL DEF Spec

-----------------------------------------------------------------------------
\* A thread serves a client that has connected, once.
ServedOnce == \A c \in Clients : thread[c] # "none" => connection[c] = "open"

\* A broken answer was the last one of its connection.
BrokenEnds ==
  \A c \in Clients : answer[c] = "broken" => thread[c] = "ended" /\ connection[c] = "open"

\* The directory of a compiler is registered, and belongs to one that has still
\* to delete it or that died.
DirectoriesOwned ==
  \A c \in Clients : c \in dirs =>
    /\ c \in tempDirList
    /\ compiler[c] \in {"compiled", "dead"} \/ answer[c] = "broken"

DirInv == TurnInv /\ ServedOnce /\ BrokenEnds /\ DirectoriesOwned

LEMMA DirNext == DirInv /\ [Next]_vars => DirInv'
<1> SUFFICES ASSUME DirInv, [Next]_vars PROVE DirInv' OBVIOUS
<1> DEFINE Dir == ServedOnce /\ BrokenEnds /\ DirectoriesOwned
<1>0. TurnInv /\ TurnInv' /\ TypeOK
  BY TurnNext DEF DirInv, TurnInv
<1>a. OneCompiler BY <1>0 DEF TurnInv
<1> SUFFICES Dir' BY <1>0 DEF DirInv
<1> USE <1>0, <1>a DEF DirInv, TypeOK, Set, OneCompiler, ServedOnce, BrokenEnds, DirectoriesOwned
<1>1. CASE Terminate
  BY <1>1 DEF Terminate, threads, files
<1>2. ASSUME NEW c \in Clients, Connect(c) PROVE Dir'
  BY <1>2 DEF Connect, files
<1>3. ASSUME NEW c \in Clients, Accept(c) PROVE Dir'
  BY <1>3 DEF Accept, files
<1>4. ASSUME NEW c \in Clients, ReadEnd(c) PROVE Dir'
  BY <1>4 DEF ReadEnd, Reading, files
<1>5. ASSUME NEW c \in Clients, ReadStop(c) PROVE Dir'
  BY <1>5 DEF ReadStop, Reading, files
<1>6. ASSUME NEW c \in Clients, ReadRequest(c) PROVE Dir'
  <2>1. compiler[c] = "none" /\ answer[c] # "broken"
    BY <1>6 DEF ReadRequest, Reading
  <2> QED BY <1>6, <2>1 DEF ReadRequest, Reading, files
<1>7. ASSUME NEW c \in Clients, WriteAnswer(c) PROVE Dir'
  BY <1>7 DEF WriteAnswer, CompilerJoined, AnswerTo
<1>8. ASSUME NEW c \in Clients, Redirect(c) PROVE Dir'
  BY <1>8 DEF Redirect, At, files
<1>9. ASSUME NEW c \in Clients, Compile(c) PROVE Dir'
  BY <1>9 DEF Compile, At
<1>10. ASSUME NEW c \in Clients, CloseResources(c) PROVE Dir'
  BY <1>10 DEF CloseResources, Shutdown, At
<1>11. ASSUME NEW c \in Clients, Restore(c) PROVE Dir'
  BY <1>11 DEF Restore, At, files
<1>12. ASSUME NEW c \in Clients, Die(c) PROVE Dir'
  BY <1>12 DEF Die, At
<1>13. ASSUME NEW c \in Clients, Output(c) PROVE Dir'
  <2>1. CASE Prints(c) BY <2>1 DEF Prints, At, threads, files
  <2>2. CASE StartBackend(c) BY <2>2 DEF StartBackend, At, threads, files
  <2>3. CASE Forward(c) BY <2>3 DEF Forward, threads, files
  <2>4. CASE ReaderEnds(c) BY <2>4 DEF ReaderEnds, threads, files
  <2> QED BY <1>13, <2>1, <2>2, <2>3, <2>4 DEF Output
<1>14. CASE UNCHANGED vars
  BY <1>14 DEF vars, threads, files
<1> QED BY <1>1, <1>2, <1>3, <1>4, <1>5, <1>6, <1>7, <1>8, <1>9, <1>10, <1>11, <1>12, <1>13,
       <1>14
        DEF Next, CompilerStep

\* Whatever compilers do, with errors and signals at any point, the directory of
\* one that has ended is gone, unless it died.
THEOREM DirectoriesAreDeleted == Spec => []NoDirectoryLeft
<1>1. Init => DirInv
  <2>1. Init => ServedOnce /\ BrokenEnds /\ DirectoriesOwned
    BY DEF Init, ServedOnce, BrokenEnds, DirectoriesOwned
  <2> QED BY <2>1, TurnInit DEF DirInv
<1>2. DirInv => NoDirectoryLeft
  BY DEF DirInv, TurnInv, TypeOK, DirectoriesOwned, NoDirectoryLeft
<1> QED BY <1>1, <1>2, DirNext, PTL DEF Spec

-----------------------------------------------------------------------------
\* What a compiler has saved is to be restored after it: it belongs to nobody, or
\* to a compiler that died.
SavedAtRest ==
  \A c \in Clients : compiler[c] \in Redirected =>
    backup_err[c] = Server \/ answer[backup_err[c]] = "broken"

StreamInv == DirInv /\ SavedAtRest /\ StreamsRestored

\* An answer that is broken stays the last one.
LEMMA BrokenStays ==
  DirInv /\ [Next]_vars =>
    \A c \in Clients : answer[c] = "broken" => answer'[c] = "broken"
<1> SUFFICES ASSUME DirInv, [Next]_vars, NEW d \in Clients, answer[d] = "broken"
    PROVE  answer'[d] = "broken"
  OBVIOUS
<1>0. TypeOK /\ thread[d] = "ended" BY DEF DirInv, TurnInv, BrokenEnds
<1>1. ASSUME UNCHANGED answer PROVE answer'[d] = "broken" BY <1>1
<1>2. ASSUME NEW c \in Clients, ReadRequest(c) PROVE answer'[d] = "broken"
  BY <1>0, <1>2 DEF ReadRequest, Reading, Set, TypeOK
<1>3. ASSUME NEW c \in Clients, WriteAnswer(c) PROVE answer'[d] = "broken"
  BY <1>0, <1>3 DEF WriteAnswer, Set, TypeOK
<1>4. ASSUME NEW c \in Clients,
             Connect(c) \/ Accept(c) \/ CompilerStep(c) \/ Output(c) \/ ReadEnd(c) \/ ReadStop(c)
      PROVE  UNCHANGED answer
  BY <1>4 DEF Connect, Accept, CompilerStep, ReadEnd, ReadStop, Redirect, Compile,
              CloseResources, Restore, Die, Output, Prints, StartBackend, Forward, ReaderEnds
<1>5. Terminate \/ UNCHANGED vars => UNCHANGED answer BY DEF Terminate, vars
<1> QED BY <1>1, <1>2, <1>3, <1>4, <1>5 DEF Next

LEMMA StreamNext == StreamInv /\ [Next]_vars => StreamInv'
<1> SUFFICES ASSUME StreamInv, [Next]_vars PROVE StreamInv' OBVIOUS
<1> DEFINE Stream == SavedAtRest /\ StreamsRestored
<1>0. DirInv /\ DirInv' /\ TypeOK /\ TypeOK' BY DirNext DEF StreamInv, DirInv, TurnInv
<1>a. OneThread /\ OneCompiler /\ BrokenEnds BY <1>0 DEF DirInv, TurnInv
<1>b. \A c \in Clients : answer[c] = "broken" => answer'[c] = "broken" BY <1>0, BrokenStays
<1>c. SavedAtRest /\ StreamsRestored BY DEF StreamInv
<1> SUFFICES Stream' BY <1>0 DEF StreamInv
<1> HIDE DEF StreamInv
<1> USE <1>0, <1>a, <1>b, <1>c
    DEF TypeOK, Set, OneThread, OneCompiler, BrokenEnds, SavedAtRest, StreamsRestored, Redirected,
        Busy
<1>1. ASSUME UNCHANGED <<compiler, err, backup_err>> PROVE Stream'
  BY <1>1
<1>2. ASSUME NEW c \in Clients, ReadRequest(c) PROVE Stream'
  BY <1>2 DEF ReadRequest, Reading
<1>3. ASSUME NEW c \in Clients, WriteAnswer(c) PROVE Stream'
  BY <1>3 DEF WriteAnswer, CompilerJoined, AnswerTo, streams
<1>4. ASSUME NEW c \in Clients, Redirect(c) PROVE Stream'
  <2>1. \A d \in Clients \ {c} : compiler[d] = "none" BY <1>4 DEF Redirect, At
  <2>2. err = Server \/ answer[err] = "broken" BY <1>4, <2>1 DEF Redirect, At
  <2> QED BY <1>4, <2>1, <2>2 DEF Redirect, At
<1>5. ASSUME NEW c \in Clients, Compile(c) PROVE Stream'
  BY <1>5 DEF Compile, At, streams
<1>6. ASSUME NEW c \in Clients, CloseResources(c) PROVE Stream'
  BY <1>6 DEF CloseResources, At, streams
<1>7. ASSUME NEW c \in Clients, Restore(c) PROVE Stream'
  BY <1>7 DEF Restore, At
<1>8. ASSUME NEW c \in Clients, Die(c) PROVE Stream'
  BY <1>8 DEF Die, At, streams
<1>9. ASSUME NEW c \in Clients, Connect(c) \/ Accept(c) \/ ReadEnd(c) \/ ReadStop(c) \/ Output(c)
      PROVE  UNCHANGED <<compiler, err, backup_err>>
  BY <1>9 DEF Connect, Accept, ReadEnd, ReadStop, Output, Prints, StartBackend, Forward,
              ReaderEnds, streams, threads
<1>10. Terminate \/ UNCHANGED vars => UNCHANGED <<compiler, err, backup_err>>
  BY DEF Terminate, vars, threads, streams
<1> QED BY <1>1, <1>2, <1>3, <1>4, <1>5, <1>6, <1>7, <1>8, <1>9, <1>10 DEF Next, CompilerStep

\* However compilers, errors and deaths follow each other, for any clients, the
\* process's streams are not left on the buffer of a compilation that has ended,
\* unless its compiler died.
THEOREM StreamsAreRestored == Spec => []StreamsRestored
<1>1. Init => StreamInv
  <2>1. Init => ServedOnce /\ BrokenEnds /\ DirectoriesOwned
    BY DEF Init, ServedOnce, BrokenEnds, DirectoriesOwned
  <2>2. Init => SavedAtRest /\ StreamsRestored
    BY DEF Init, SavedAtRest, StreamsRestored, Redirected
  <2> QED BY <2>1, <2>2, TurnInit DEF StreamInv, DirInv
<1>2. StreamInv => StreamsRestored BY DEF StreamInv
<1> QED BY <1>1, <1>2, StreamNext, PTL DEF Spec
=============================================================================
