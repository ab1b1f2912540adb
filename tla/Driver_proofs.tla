---------------------------- MODULE Driver_proofs ----------------------------
(***************************************************************************)
(* The driver and the back end, for any number of files.                    *)
(***************************************************************************)
EXTENDS Driver, TLAPS

USE DriverAssumption

\* Until the back end is done, the files it has gone through are those it has
\* met a writer for, and no other file was opened, as long as no signal has let
\* the hook take the pipes away.
ReaderOK ==
  /\ ~interrupted /\ pipe /\ backend \in {"next", "opening"} =>
       \A u \in Units : content[u] = "none" <=> u >= rank
  /\ ~interrupted /\ pipe /\ backend = "reading" =>
       \A u \in Units : content[u] = "none" <=> u > rank

\* Where the main thread is after its compilation.
Ending == {"return", "deleting", "done"}

USE DEF Ending

\* What the main thread has written when it is about to open or parse a file.
WriterOK ==
  /\ pc \in {"start", "created", "preprocess", "pipes", "fork"} =>
       \A u \in Units : content[u] = "none"
  /\ pc \in {"parse", "link"} =>
       \A u \in Units : content[u] = IF u < FirstOfBatch(unit) THEN "complete" ELSE "none"
  /\ pc = "open" =>
       \A u \in Units : content[u] = IF u < unit THEN "complete" ELSE "none"
  /\ pc = "emit" =>
       /\ content[unit] = "partial"
       /\ \A u \in Units : u # unit => content[u] = IF u < unit THEN "complete" ELSE "none"
  /\ pc \in {"wait", "backend"} => \A u \in Units : content[u] = "complete"
  /\ pc \in Ending /\ status = 0 /\ stop = "no" =>
       \A u \in Units : content[u] = "complete"

\* The back end is a process of the compilation stages, with pipes only.
StagesOK ==
  /\ pc \in {"pipes", "fork"} => unit = 1
  /\ pc = "link" => unit = FirstOfBatch(unit)
  /\ pc \in {"pipes", "fork", "wait"} => pipe /\ stop # "preproc" /\ N > 0
  /\ pc \in {"parse", "link", "open", "emit"} => stop # "preproc" /\ N > 0
  /\ pc = "backend" => stop = "no" /\ (pipe => N = 0)
  /\ pc \in {"start", "created", "preprocess", "pipes", "fork"} => backend = "none"
  /\ backend = "none" => rank = 1
  /\ ~pipe \/ N = 0 \/ stop = "preproc" => backend \in {"none", "ended"}
  /\ pc = "backend" => backend = "none"
  /\ ~pipe /\ pc \in {"parse", "link", "open", "emit"} => backend = "none"
  /\ verdict # "none" <=> backend = "ended"

\* What a back end that succeeds has read, while the main thread waits for it.
ReadOK ==
  /\ jvm # "exited" /\ pipe /\ backend # "none" =>
       \A u \in Units : u < rank => consumed[u] = "complete"
  /\ pipe /\ N > 0 /\ verdict = "ok" => rank = N + 1
  /\ pc \in Ending /\ status = 0 /\ stop = "no" =>
       verdict = "ok" /\ \A u \in Units : consumed[u] = "complete"

\* The exit status tells how the JVM came to exit.  Only after a signal are there
\* two threads that delete the directory, or one that writes in it meanwhile.
EndOK ==
  /\ pc = "exit" => status = 1
  /\ jvm = "stopping" => status = 1
  /\ jvm = "exited" /\ status = 0 => pc = "done"
  /\ interrupted => jvm # "running"
  /\ jvm # "running" /\ ~interrupted => pc \in {"done", "dead"}
  /\ jvm = "stopping" /\ ~interrupted => pc = "dead"
  /\ pc \in {"start", "created"} => ~hooked
  /\ pc \notin {"start", "created", "dead"} => hooked
  /\ pc # "start" => tempDir # "none"
  /\ "main" \in deleting => pc = "deleting"
  /\ "hook" \in deleting => jvm = "stopping" /\ hooked
  /\ ~interrupted => stale = {}
  /\ tempDir = "deleted" /\ ~interrupted => pc = "done" \/ jvm = "exited"
  /\ pc = "done" => tempDir = "deleted" \/ reported
  /\ reported => interrupted \/ refuses
  /\ TempDirDeleted

DriverInv == TypeOK /\ ReaderOK /\ WriterOK /\ StagesOK /\ ReadOK /\ EndOK

\* A batch is an interval of the files.
LEMMA BatchBounds ==
  ASSUME TypeOK, NEW u \in Units
  PROVE  FirstOfBatch(u) \in 1..u /\ LastOfBatch(u) \in u..N
BY DEF TypeOK, Units, N, FirstOfBatch, LastOfBatch

\* Inside a batch the next file is of the same batch; after it, it begins one.
LEMMA BatchSteps ==
  ASSUME TypeOK, NEW u \in Units, u < N
  PROVE  /\ u < LastOfBatch(u) => FirstOfBatch(u + 1) = FirstOfBatch(u)
         /\ u = LastOfBatch(u) => FirstOfBatch(u + 1) = u + 1
BY DEF TypeOK, Units, N, FirstOfBatch, LastOfBatch

\* Where the main thread goes after a file.
LEMMA AfterEmitCases ==
  ASSUME TypeOK, pc = "emit"
  PROVE  \/ AfterEmit = "open" /\ unit < LastOfBatch(unit) /\ unit < N
         \/ AfterEmit = "parse" /\ unit = LastOfBatch(unit) /\ unit < N
         \/ AfterEmit = "wait" /\ unit = N /\ pipe
         \/ AfterEmit = "backend" /\ unit = N /\ ~pipe /\ stop = "no"
         \/ AfterEmit = "return" /\ unit = N /\ ~pipe /\ stop # "no"
<1>1. unit \in Units BY DEF TypeOK
<1>2. LastOfBatch(unit) \in unit..N BY <1>1, BatchBounds
<1>3. N \in Nat /\ pipe \in BOOLEAN BY DEF TypeOK, N
<1> QED BY <1>1, <1>2, <1>3 DEF AfterEmit, Units

-----------------------------------------------------------------------------

LEMMA ExitStatus == DriverInv => (pc = "exit" => status = 1)
BY DEF DriverInv, EndOK

LEMMA TypeNext == DriverInv /\ [Next]_vars => TypeOK'
<1> SUFFICES ASSUME DriverInv, [Next]_vars PROVE TypeOK'
  OBVIOUS
<1> USE DEF TypeOK, StagesOK, N, Units
<1>0. TypeOK /\ StagesOK BY DEF DriverInv
<1>1. CASE CreateTempDir BY <1>0, <1>1 DEF CreateTempDir, At, input, gcc, removal, GoTo
<1>2. CASE RegisterTempDir
  <2>1. /\ pc' \in {"preprocess", "dead"} /\ hooked' \in {TRUE, hooked}
        /\ UNCHANGED <<input, jvm, interrupted, unit, errors, status, removal, content, gcc>>
    BY <1>2 DEF RegisterTempDir, GoTo
  <2>2. hooked' \in BOOLEAN BY <1>0, <2>1, Zenon
  <2> QED BY <1>0, <2>1, <2>2 DEF input, gcc, removal
<1>3. CASE Preprocess BY <1>0, <1>3 DEF Preprocess, Creates, At, input, gcc, removal, Exit
<1>4. CASE AfterPreprocess BY <1>0, <1>4 DEF AfterPreprocess, At, input, gcc, removal, GoTo
<1>5. CASE MakePipes BY <1>0, <1>5 DEF MakePipes, Creates, At, input, gcc, removal, Exit, GoTo
<1>6. CASE StartBackend BY <1>0, <1>6 DEF StartBackend, At, input, gcc, removal, Exit, GoTo
<1>7. CASE Parse
  <2>1. unit \in Units BY <1>0, <1>7 DEF Parse, At
  <2>2. FirstOfBatch(unit) \in 1..unit /\ LastOfBatch(unit) \in unit..N
    BY <1>0, <2>1, BatchBounds
  <2>3. CASE Exit BY <1>0, <1>7, <2>1, <2>3 DEF Parse, At, input, gcc, removal, Exit, GoTo
  <2>4. CASE ~Exit
    <3>1. /\ errors' \in BOOLEAN /\ status' = status
          /\ UNCHANGED <<input, jvm, interrupted, hooked, removal, content, gcc>>
      BY <1>0, <1>7, <2>4 DEF Parse, GoTo
    <3>2. pc' \in {"parse", "link", "dead"}
      BY <1>0, <1>7, <2>4 DEF Parse, GoTo, At
    <3>3. /\ unit' \in {unit, unit + 1, FirstOfBatch(unit)}
          /\ (unit' = unit + 1 => unit < LastOfBatch(unit))
      BY <1>0, <1>7, <2>1, <2>2, <2>4 DEF Parse, GoTo, At
    <3>4. unit' \in Units /\ N' = N BY <1>0, <2>1, <2>2, <3>1, <3>3 DEF input
    <3> QED BY <1>0, <3>1, <3>2, <3>4 DEF input, gcc, removal
  <2> QED BY <2>3, <2>4
<1>8. CASE Link BY <1>0, <1>8 DEF Link, At, input, gcc, removal, Exit, GoTo
<1>9. CASE OpenOutput
  <2>1. /\ UNCHANGED <<input, jvm, interrupted, unit, errors, hooked, tempDir, deleting, reported,
                       consumed, rank, verdict>>
        /\ pc' \in {"emit", "exit"} /\ status' \in {status, 1} /\ At("open")
        /\ stale' \in {stale, deleting}
        /\ backend' = backend \/ (backend = "opening" /\ backend' = "reading")
        /\ content' = content \/ content' = [content EXCEPT ![unit] = "partial"]
    <3>1. /\ UNCHANGED <<input, jvm, interrupted, unit, hooked, tempDir, deleting, reported,
                         consumed, rank, verdict>>
          /\ At("open")
      BY <1>9 DEF OpenOutput
    <3>2. /\ pc' \in {"emit", "exit"} /\ status' \in {status, 1} /\ errors' = errors
          /\ content' = content \/ content' = [content EXCEPT ![unit] = "partial"]
      BY <1>9 DEF OpenOutput, GoTo, Exit
    <3>3. backend' = backend \/ (backend = "opening" /\ backend' = "reading")
      BY <1>9 DEF OpenOutput
    <3>4. stale' \in {stale, deleting}
      BY <1>9 DEF OpenOutput, Creates
    <3> QED BY <3>1, <3>2, <3>3, <3>4
  <2>2. content' \in [1..MaxFiles -> Contents]
    BY <1>0, <2>1 DEF Contents
  <2>3. stale' \subseteq deleting' /\ reported' \in BOOLEAN
    BY <1>0, <2>1, Zenon
  <2> QED BY <1>0, <2>1, <2>2, <2>3 DEF At, input
<1>10. CASE Emit
  <2>1. CASE Exit BY <1>0, <1>10, <2>1 DEF Emit, At, input, gcc, removal, Exit, GoTo, Contents
  <2>2. CASE GoTo("dead") /\ UNCHANGED unit
    BY <1>0, <1>10, <2>2 DEF Emit, At, input, gcc, removal, GoTo, Contents
  <2>3. CASE GoTo(AfterEmit) /\ unit' = IF AfterEmit \in {"open", "parse"} THEN unit + 1 ELSE unit
    BY <1>0, <1>10, <2>3, AfterEmitCases DEF Emit, At, input, gcc, removal, GoTo, Contents
  <2> QED BY <1>10, <2>1, <2>2, <2>3 DEF Emit
<1>11. CASE EmitFails BY <1>0, <1>11 DEF EmitFails, At, input, gcc, removal, Exit, GoTo
<1>12. CASE WaitFor BY <1>0, <1>12 DEF WaitFor, At, input, gcc, removal, Exit, GoTo
<1>13. CASE RunBackend
  BY <1>0, <1>13 DEF RunBackend, At, input, gcc, removal, Exit, GoTo, Contents
<1>14. CASE MainLists BY <1>0, <1>14 DEF MainLists, At, input, gcc, GoTo, Lists
<1>15. CASE MainDeletes
  <2>1. /\ pc' = "done"
        /\ UNCHANGED <<input, jvm, interrupted, errors, status, unit, hooked, content, gcc>>
        /\ tempDir' \in {tempDir, "deleted"} /\ reported' \in {reported, TRUE}
        /\ deleting' \subseteq deleting /\ stale' \subseteq deleting'
    BY <1>0, <1>15 DEF MainDeletes, GoTo, Removes
  <2>2. reported' \in BOOLEAN BY <1>0, <2>1, Zenon
  <2> QED BY <1>0, <2>1, <2>2 DEF input, gcc
<1>16. CASE EndMain BY <1>0, <1>16 DEF EndMain, input, gcc, removal
<1>17. CASE DeadExit BY <1>0, <1>17 DEF DeadExit, input, gcc, removal
<1>18. CASE Signal BY <1>0, <1>18 DEF Signal, input, gcc, removal
<1>19. CASE HookLists BY <1>0, <1>19 DEF HookLists, input, gcc, Lists
<1>20. CASE HookDeletes
  <2>1. /\ jvm' = "exited"
        /\ UNCHANGED <<input, interrupted, pc, unit, errors, status, hooked, content, gcc>>
        /\ tempDir' \in {tempDir, "deleted"} /\ reported' \in {reported, TRUE}
        /\ deleting' \subseteq deleting /\ stale' \subseteq deleting'
    BY <1>0, <1>20 DEF HookDeletes, Removes
  <2>2. reported' \in BOOLEAN BY <1>0, <2>1, Zenon
  <2> QED BY <1>0, <2>1, <2>2 DEF input, gcc
<1>21. CASE NoHook BY <1>0, <1>21 DEF NoHook, input, gcc, removal
<1>22. CASE BackendOpens BY <1>0, <1>22 DEF BackendOpens, main, input, gcc, removal
<1>23. CASE BackendReads
  BY <1>0, <1>23 DEF BackendReads, main, input, gcc, removal, BackendFile, Closed, Contents
<1>24. CASE BackendEnds BY <1>0, <1>24 DEF BackendEnds, main, input, gcc, removal
<1>25. CASE BackendQuits BY <1>0, <1>25 DEF BackendQuits, main, input, gcc, removal
<1>26. CASE UNCHANGED vars BY <1>0, <1>26 DEF vars, input, removal, gcc
<1> QED BY <1>1, <1>2, <1>3, <1>4, <1>5, <1>6, <1>7, <1>8, <1>9, <1>10, <1>11, <1>12,
       <1>13, <1>14, <1>15, <1>16, <1>17, <1>18, <1>19, <1>22, <1>23, <1>24, <1>25, <1>26,
       <1>20, <1>21 DEF Next, MainThread, Backend, Hook

LEMMA WriterNext == DriverInv /\ [Next]_vars => WriterOK'
<1> SUFFICES ASSUME DriverInv, [Next]_vars PROVE WriterOK'
  OBVIOUS
<1> USE DEF TypeOK, WriterOK, StagesOK, N, Units, FirstOfBatch
<1>0. TypeOK /\ WriterOK /\ StagesOK BY DEF DriverInv
<1>1. CASE CreateTempDir BY <1>0, <1>1 DEF CreateTempDir, At, input, gcc, removal, GoTo
<1>2. CASE RegisterTempDir BY <1>0, <1>2 DEF RegisterTempDir, At, input, gcc, removal, GoTo
<1>3. CASE Preprocess BY <1>0, <1>3 DEF Preprocess, Creates, At, input, gcc, removal, Exit
<1>4. CASE AfterPreprocess BY <1>0, <1>4 DEF AfterPreprocess, At, input, gcc, removal, GoTo
<1>5. CASE MakePipes BY <1>0, <1>5 DEF MakePipes, Creates, At, input, gcc, removal, Exit, GoTo
<1>6. CASE StartBackend BY <1>0, <1>6 DEF StartBackend, At, input, gcc, removal, Exit, GoTo
<1>7. CASE Parse BY <1>0, <1>7 DEF Parse, At, input, gcc, removal, Exit, GoTo, LastOfBatch
<1>8. CASE Link BY <1>0, <1>8 DEF Link, At, input, gcc, removal, Exit, GoTo, LastOfBatch
<1>9. CASE OpenOutput
  BY <1>0, <1>9 DEF OpenOutput, Creates, At, input, gcc, GoTo, Exit, BackendFile
<1>10. CASE Emit
  <2>1. CASE Exit BY <1>0, <1>10, <2>1 DEF Emit, At, input, gcc, removal, Exit, GoTo
  <2>2. CASE GoTo("dead") /\ UNCHANGED unit
    BY <1>0, <1>10, <2>2 DEF Emit, At, input, gcc, removal, GoTo
  <2>3. CASE GoTo(AfterEmit) /\ unit' = IF AfterEmit \in {"open", "parse"} THEN unit + 1 ELSE unit
    <3> DEFINE done == \A u \in Units : content'[u] = IF u <= unit THEN "complete" ELSE "none"
    <3>1. done BY <1>0, <1>10 DEF Emit, At
    <3>2. unit \in Units BY <1>0, <1>10 DEF Emit, At
    <3> HIDE DEF done
    <3>3. CASE AfterEmit \in {"wait", "backend", "return"}
      <4>1. done /\ unit = N /\ UNCHANGED input
        BY <1>0, <1>10, <3>1, <3>3, AfterEmitCases DEF Emit, At
      <4> QED BY <1>0, <2>3, <3>3, <4>1 DEF GoTo, input, done
    <3>4. CASE AfterEmit = "open"
      <4>1. done /\ unit' = unit + 1 /\ UNCHANGED input
        BY <1>0, <1>10, <2>3, <3>1, <3>4 DEF Emit, At, GoTo, Exit
      <4> QED BY <1>0, <2>3, <3>2, <3>4, <4>1 DEF GoTo, input, done
    <3>5. CASE AfterEmit = "parse"
      <4>1. done /\ unit' = unit + 1 /\ UNCHANGED input
        BY <1>0, <1>10, <2>3, <3>1, <3>5 DEF Emit, At, GoTo, Exit
      <4>2. FirstOfBatch(unit + 1) = unit + 1
        BY <1>0, <1>10, <3>2, <3>5, AfterEmitCases, BatchSteps DEF Emit, At
      <4> QED BY <1>0, <2>3, <3>2, <3>5, <4>1, <4>2 DEF GoTo, input, done
    <3> QED BY <1>0, <1>10, <3>3, <3>4, <3>5, AfterEmitCases DEF Emit, At
  <2> QED BY <1>10, <2>1, <2>2, <2>3 DEF Emit
<1>11. CASE EmitFails BY <1>0, <1>11 DEF EmitFails, At, input, gcc, removal, Exit, GoTo
<1>12. CASE WaitFor BY <1>0, <1>12 DEF WaitFor, At, input, gcc, removal, Exit, GoTo
<1>13. CASE RunBackend BY <1>0, <1>13 DEF RunBackend, At, input, gcc, removal, Exit, GoTo
<1>14. CASE MainLists BY <1>0, <1>14, ExitStatus DEF MainLists, At, input, gcc, GoTo, Lists
<1>15. CASE MainDeletes BY <1>0, <1>15 DEF MainDeletes, At, input, gcc, GoTo, Removes
<1>16. CASE EndMain BY <1>0, <1>16 DEF EndMain, input, gcc, removal
<1>17. CASE DeadExit BY <1>0, <1>17 DEF DeadExit, input, gcc, removal
<1>18. CASE Signal BY <1>0, <1>18 DEF Signal, input, gcc, removal
<1>19. CASE HookLists BY <1>0, <1>19 DEF HookLists, input, gcc, Lists
<1>20. CASE HookDeletes BY <1>0, <1>20 DEF HookDeletes, input, gcc, Removes
<1>21. CASE NoHook BY <1>0, <1>21 DEF NoHook, input, gcc, removal
<1>22. CASE BackendOpens BY <1>0, <1>22 DEF BackendOpens, main, input, gcc, removal
<1>23. CASE BackendReads
  BY <1>0, <1>23 DEF BackendReads, main, input, gcc, removal, BackendFile, Closed
<1>24. CASE BackendEnds BY <1>0, <1>24 DEF BackendEnds, main, input, gcc, removal
<1>25. CASE BackendQuits BY <1>0, <1>25 DEF BackendQuits, main, input, gcc, removal
<1>26. CASE UNCHANGED vars BY <1>0, <1>26 DEF vars, input, removal, gcc
<1> QED BY <1>1, <1>2, <1>3, <1>4, <1>5, <1>6, <1>7, <1>8, <1>9, <1>10, <1>11, <1>12,
       <1>13, <1>14, <1>15, <1>16, <1>17, <1>18, <1>19, <1>22, <1>23, <1>24, <1>25, <1>26,
       <1>20, <1>21 DEF Next, MainThread, Backend, Hook

LEMMA ReaderNext == DriverInv /\ [Next]_vars => ReaderOK'
<1> SUFFICES ASSUME DriverInv, [Next]_vars PROVE ReaderOK'
  OBVIOUS
<1> USE DEF TypeOK, ReaderOK, WriterOK, StagesOK, N, Units
<1>a. /\ "hook" \in deleting => interrupted \/ pc \in {"done", "dead"}
      /\ jvm = "exited" /\ ~interrupted => pc \in {"done", "dead"}
  BY DEF DriverInv, EndOK
<1>0. TypeOK /\ ReaderOK /\ WriterOK /\ StagesOK BY DEF DriverInv
<1>1. CASE CreateTempDir BY <1>0, <1>1 DEF CreateTempDir, At, input, gcc, removal, GoTo
<1>2. CASE RegisterTempDir BY <1>0, <1>2 DEF RegisterTempDir, At, input, gcc, removal, GoTo
<1>3. CASE Preprocess BY <1>0, <1>3 DEF Preprocess, Creates, At, input, gcc, removal, Exit
<1>4. CASE AfterPreprocess BY <1>0, <1>4 DEF AfterPreprocess, At, input, gcc, removal, GoTo
<1>5. CASE MakePipes BY <1>0, <1>5 DEF MakePipes, Creates, At, input, gcc, removal, Exit, GoTo
<1>6. CASE StartBackend BY <1>0, <1>6 DEF StartBackend, At, input, gcc, removal, Exit, GoTo
<1>7. CASE Parse
  BY <1>0, <1>7 DEF Parse, At, input, gcc, removal, Exit, GoTo, FirstOfBatch, LastOfBatch
<1>8. CASE Link
  BY <1>0, <1>8 DEF Link, At, input, gcc, removal, Exit, GoTo, FirstOfBatch, LastOfBatch
<1>9. CASE OpenOutput
  BY <1>0, <1>a, <1>9 DEF OpenOutput, Creates, At, input, gcc, GoTo, Exit, BackendFile
<1>10. CASE Emit
  <2>1. CASE Exit BY <1>0, <1>10, <2>1 DEF Emit, At, input, gcc, removal, Exit, GoTo
  <2>2. CASE GoTo("dead") /\ UNCHANGED unit
    BY <1>0, <1>10, <2>2 DEF Emit, At, input, gcc, removal, GoTo
  <2>3. CASE GoTo(AfterEmit) /\ unit' = IF AfterEmit \in {"open", "parse"} THEN unit + 1 ELSE unit
    BY <1>0, <1>10, <2>3, AfterEmitCases DEF Emit, At, input, gcc, removal, GoTo
  <2> QED BY <1>10, <2>1, <2>2, <2>3 DEF Emit
<1>11. CASE EmitFails BY <1>0, <1>11 DEF EmitFails, At, input, gcc, removal, Exit, GoTo
<1>12. CASE WaitFor BY <1>0, <1>12 DEF WaitFor, At, input, gcc, removal, Exit, GoTo
<1>13. CASE RunBackend BY <1>0, <1>13 DEF RunBackend, At, input, gcc, removal, Exit, GoTo
<1>14. CASE MainLists BY <1>0, <1>14 DEF MainLists, At, input, gcc, GoTo, Lists
<1>15. CASE MainDeletes BY <1>0, <1>15 DEF MainDeletes, At, input, gcc, GoTo, Removes
<1>16. CASE EndMain BY <1>0, <1>16 DEF EndMain, input, gcc, removal
<1>17. CASE DeadExit BY <1>0, <1>17 DEF DeadExit, input, gcc, removal
<1>18. CASE Signal BY <1>0, <1>18 DEF Signal, input, gcc, removal
<1>19. CASE HookLists BY <1>0, <1>19 DEF HookLists, input, gcc, Lists
<1>20. CASE HookDeletes BY <1>0, <1>20 DEF HookDeletes, input, gcc, Removes
<1>21. CASE NoHook BY <1>0, <1>21 DEF NoHook, input, gcc, removal
<1>22. CASE BackendOpens BY <1>0, <1>22 DEF BackendOpens, main, input, gcc, removal
<1>23. CASE BackendReads
  BY <1>0, <1>23 DEF BackendReads, main, input, gcc, removal, BackendFile, Closed
<1>24. CASE BackendEnds BY <1>0, <1>24 DEF BackendEnds, main, input, gcc, removal
<1>25. CASE BackendQuits BY <1>0, <1>25 DEF BackendQuits, main, input, gcc, removal
<1>26. CASE UNCHANGED vars BY <1>0, <1>26 DEF vars, input, removal, gcc
<1> QED BY <1>1, <1>2, <1>3, <1>4, <1>5, <1>6, <1>7, <1>8, <1>9, <1>10, <1>11, <1>12,
       <1>13, <1>14, <1>15, <1>16, <1>17, <1>18, <1>19, <1>22, <1>23, <1>24, <1>25, <1>26,
       <1>20, <1>21 DEF Next, MainThread, Backend, Hook

LEMMA StagesNext == DriverInv /\ [Next]_vars => StagesOK'
<1> SUFFICES ASSUME DriverInv, [Next]_vars PROVE StagesOK'
  OBVIOUS
<1> USE DEF TypeOK, StagesOK, N, Units, FirstOfBatch
<1>0. TypeOK /\ StagesOK BY DEF DriverInv
<1>1. CASE CreateTempDir BY <1>0, <1>1 DEF CreateTempDir, At, input, gcc, removal, GoTo
<1>2. CASE RegisterTempDir BY <1>0, <1>2 DEF RegisterTempDir, At, input, gcc, removal, GoTo
<1>3. CASE Preprocess BY <1>0, <1>3 DEF Preprocess, Creates, At, input, gcc, removal, Exit
<1>4. CASE AfterPreprocess BY <1>0, <1>4 DEF AfterPreprocess, At, input, gcc, removal, GoTo
<1>5. CASE MakePipes BY <1>0, <1>5 DEF MakePipes, Creates, At, input, gcc, removal, Exit, GoTo
<1>6. CASE StartBackend BY <1>0, <1>6 DEF StartBackend, At, input, gcc, removal, Exit, GoTo
<1>7. CASE Parse BY <1>0, <1>7 DEF Parse, At, input, gcc, removal, Exit, GoTo, LastOfBatch
<1>8. CASE Link BY <1>0, <1>8 DEF Link, At, input, gcc, removal, Exit, GoTo, LastOfBatch
<1>9. CASE OpenOutput
  BY <1>0, <1>9 DEF OpenOutput, Creates, At, input, gcc, GoTo, Exit, BackendFile
<1>10. CASE Emit
  <2>1. CASE Exit BY <1>0, <1>10, <2>1 DEF Emit, At, input, gcc, removal, Exit, GoTo
  <2>2. CASE GoTo("dead") /\ UNCHANGED unit
    BY <1>0, <1>10, <2>2 DEF Emit, At, input, gcc, removal, GoTo
  <2>3. CASE GoTo(AfterEmit) /\ unit' = IF AfterEmit \in {"open", "parse"} THEN unit + 1 ELSE unit
    BY <1>0, <1>10, <2>3, AfterEmitCases DEF Emit, At, input, gcc, removal, GoTo, LastOfBatch
  <2> QED BY <1>10, <2>1, <2>2, <2>3 DEF Emit
<1>11. CASE EmitFails BY <1>0, <1>11 DEF EmitFails, At, input, gcc, removal, Exit, GoTo
<1>12. CASE WaitFor BY <1>0, <1>12 DEF WaitFor, At, input, gcc, removal, Exit, GoTo
<1>13. CASE RunBackend BY <1>0, <1>13 DEF RunBackend, At, input, gcc, removal, Exit, GoTo
<1>14. CASE MainLists BY <1>0, <1>14 DEF MainLists, At, input, gcc, GoTo, Lists
<1>15. CASE MainDeletes BY <1>0, <1>15 DEF MainDeletes, At, input, gcc, GoTo, Removes
<1>16. CASE EndMain BY <1>0, <1>16 DEF EndMain, input, gcc, removal
<1>17. CASE DeadExit BY <1>0, <1>17 DEF DeadExit, input, gcc, removal
<1>18. CASE Signal BY <1>0, <1>18 DEF Signal, input, gcc, removal
<1>19. CASE HookLists BY <1>0, <1>19 DEF HookLists, input, gcc, Lists
<1>20. CASE HookDeletes BY <1>0, <1>20 DEF HookDeletes, input, gcc, Removes
<1>21. CASE NoHook BY <1>0, <1>21 DEF NoHook, input, gcc, removal
<1>22. CASE BackendOpens BY <1>0, <1>22 DEF BackendOpens, main, input, gcc, removal
<1>23. CASE BackendReads
  BY <1>0, <1>23 DEF BackendReads, main, input, gcc, removal, BackendFile, Closed
<1>24. CASE BackendEnds BY <1>0, <1>24 DEF BackendEnds, main, input, gcc, removal
<1>25. CASE BackendQuits BY <1>0, <1>25 DEF BackendQuits, main, input, gcc, removal
<1>26. CASE UNCHANGED vars BY <1>0, <1>26 DEF vars, input, removal, gcc
<1> QED BY <1>1, <1>2, <1>3, <1>4, <1>5, <1>6, <1>7, <1>8, <1>9, <1>10, <1>11, <1>12,
       <1>13, <1>14, <1>15, <1>16, <1>17, <1>18, <1>19, <1>22, <1>23, <1>24, <1>25, <1>26,
       <1>20, <1>21 DEF Next, MainThread, Backend, Hook

LEMMA ReadNext == DriverInv /\ [Next]_vars => ReadOK'
<1> SUFFICES ASSUME DriverInv, [Next]_vars PROVE ReadOK'
  OBVIOUS
<1> USE DEF TypeOK, ReadOK, WriterOK, StagesOK, N, Units
<1>0. TypeOK /\ ReadOK /\ WriterOK /\ StagesOK BY DEF DriverInv
<1>1. CASE CreateTempDir BY <1>0, <1>1 DEF CreateTempDir, At, input, gcc, removal, GoTo
<1>2. CASE RegisterTempDir BY <1>0, <1>2 DEF RegisterTempDir, At, input, gcc, removal, GoTo
<1>3. CASE Preprocess BY <1>0, <1>3 DEF Preprocess, Creates, At, input, gcc, removal, Exit
<1>4. CASE AfterPreprocess BY <1>0, <1>4 DEF AfterPreprocess, At, input, gcc, removal, GoTo
<1>5. CASE MakePipes BY <1>0, <1>5 DEF MakePipes, Creates, At, input, gcc, removal, Exit, GoTo
<1>6. CASE StartBackend BY <1>0, <1>6 DEF StartBackend, At, input, gcc, removal, Exit, GoTo
<1>7. CASE Parse
  BY <1>0, <1>7 DEF Parse, At, input, gcc, removal, Exit, GoTo, FirstOfBatch, LastOfBatch
<1>8. CASE Link
  BY <1>0, <1>8 DEF Link, At, input, gcc, removal, Exit, GoTo, FirstOfBatch, LastOfBatch
<1>9. CASE OpenOutput
  BY <1>0, <1>9 DEF OpenOutput, Creates, At, input, gcc, GoTo, Exit, BackendFile
<1>10. CASE Emit
  <2>1. CASE Exit BY <1>0, <1>10, <2>1 DEF Emit, At, input, gcc, removal, Exit, GoTo
  <2>2. CASE GoTo("dead") /\ UNCHANGED unit
    BY <1>0, <1>10, <2>2 DEF Emit, At, input, gcc, removal, GoTo
  <2>3. CASE GoTo(AfterEmit) /\ unit' = IF AfterEmit \in {"open", "parse"} THEN unit + 1 ELSE unit
    BY <1>0, <1>10, <2>3, AfterEmitCases DEF Emit, At, input, gcc, removal, GoTo
  <2> QED BY <1>10, <2>1, <2>2, <2>3 DEF Emit
<1>11. CASE EmitFails BY <1>0, <1>11 DEF EmitFails, At, input, gcc, removal, Exit, GoTo
<1>12. CASE WaitFor BY <1>0, <1>12 DEF WaitFor, At, input, gcc, removal, Exit, GoTo
<1>13. CASE RunBackend BY <1>0, <1>13 DEF RunBackend, At, input, gcc, removal, Exit, GoTo
<1>14. CASE MainLists BY <1>0, <1>14, ExitStatus DEF MainLists, At, input, gcc, GoTo, Lists
<1>15. CASE MainDeletes BY <1>0, <1>15 DEF MainDeletes, At, input, gcc, GoTo, Removes
<1>16. CASE EndMain BY <1>0, <1>16 DEF EndMain, input, gcc, removal
<1>17. CASE DeadExit BY <1>0, <1>17 DEF DeadExit, input, gcc, removal
<1>18. CASE Signal BY <1>0, <1>18 DEF Signal, input, gcc, removal
<1>19. CASE HookLists BY <1>0, <1>19 DEF HookLists, input, gcc, Lists
<1>20. CASE HookDeletes BY <1>0, <1>20 DEF HookDeletes, input, gcc, Removes
<1>21. CASE NoHook BY <1>0, <1>21 DEF NoHook, input, gcc, removal
<1>22. CASE BackendOpens BY <1>0, <1>22 DEF BackendOpens, main, input, gcc, removal
<1>23. CASE BackendReads
  BY <1>0, <1>23 DEF BackendReads, main, input, gcc, removal, BackendFile, Closed
<1>24. CASE BackendEnds BY <1>0, <1>24 DEF BackendEnds, main, input, gcc, removal
<1>25. CASE BackendQuits BY <1>0, <1>25 DEF BackendQuits, main, input, gcc, removal
<1>26. CASE UNCHANGED vars BY <1>0, <1>26 DEF vars, input, removal, gcc
<1> QED BY <1>1, <1>2, <1>3, <1>4, <1>5, <1>6, <1>7, <1>8, <1>9, <1>10, <1>11, <1>12,
       <1>13, <1>14, <1>15, <1>16, <1>17, <1>18, <1>19, <1>22, <1>23, <1>24, <1>25, <1>26,
       <1>20, <1>21 DEF Next, MainThread, Backend, Hook

LEMMA EndNext == DriverInv /\ [Next]_vars => EndOK'
<1> SUFFICES ASSUME DriverInv, [Next]_vars PROVE EndOK'
  OBVIOUS
<1> USE DEF EndOK, TempDirDeleted, TypeOK
<1>0. TypeOK /\ EndOK BY DEF DriverInv
<1>1. CASE CreateTempDir BY <1>0, <1>1 DEF CreateTempDir, At, input, gcc, removal, GoTo
<1>2. CASE RegisterTempDir BY <1>0, <1>2 DEF RegisterTempDir, At, input, gcc, removal, GoTo
<1>3. CASE Preprocess BY <1>0, <1>3 DEF Preprocess, Creates, At, input, gcc, removal, Exit
<1>4. CASE AfterPreprocess
  <2>1. pc' \in {"return", "backend", "pipes", "parse"}
    BY <1>0, <1>4 DEF AfterPreprocess, GoTo, N
  <2> QED BY <1>0, <1>4, <2>1 DEF AfterPreprocess, At, GoTo, removal, input
<1>5. CASE MakePipes BY <1>0, <1>5 DEF MakePipes, Creates, At, input, gcc, removal, Exit, GoTo
<1>6. CASE StartBackend BY <1>0, <1>6 DEF StartBackend, At, input, gcc, removal, Exit, GoTo
<1>7. CASE Parse
  BY <1>0, <1>7 DEF Parse, At, input, gcc, removal, Exit, GoTo, FirstOfBatch, LastOfBatch
<1>8. CASE Link
  BY <1>0, <1>8 DEF Link, At, input, gcc, removal, Exit, GoTo, FirstOfBatch, LastOfBatch
<1>9. CASE OpenOutput
  BY <1>0, <1>9 DEF OpenOutput, Creates, At, input, gcc, GoTo, Exit, BackendFile
<1>10. CASE Emit
  <2>1. CASE Exit BY <1>0, <1>10, <2>1 DEF Emit, At, input, gcc, removal, Exit, GoTo
  <2>2. CASE GoTo("dead") /\ UNCHANGED unit
    BY <1>0, <1>10, <2>2 DEF Emit, At, input, gcc, removal, GoTo
  <2>3. CASE GoTo(AfterEmit) /\ unit' = IF AfterEmit \in {"open", "parse"} THEN unit + 1 ELSE unit
    BY <1>0, <1>10, <2>3, AfterEmitCases DEF Emit, At, input, gcc, removal, GoTo
  <2> QED BY <1>10, <2>1, <2>2, <2>3 DEF Emit
<1>11. CASE EmitFails BY <1>0, <1>11 DEF EmitFails, At, input, gcc, removal, Exit, GoTo
<1>12. CASE WaitFor BY <1>0, <1>12 DEF WaitFor, At, input, gcc, removal, Exit, GoTo
<1>13. CASE RunBackend BY <1>0, <1>13 DEF RunBackend, At, input, gcc, removal, Exit, GoTo
<1>14. CASE MainLists BY <1>0, <1>14 DEF MainLists, At, input, gcc, GoTo, Lists
<1>15. CASE MainDeletes BY <1>0, <1>15 DEF MainDeletes, At, input, gcc, GoTo, Removes
<1>16. CASE EndMain BY <1>0, <1>16 DEF EndMain, input, gcc, removal
<1>17. CASE DeadExit BY <1>0, <1>17 DEF DeadExit, input, gcc, removal
<1>18. CASE Signal BY <1>0, <1>18 DEF Signal, input, gcc, removal
<1>19. CASE HookLists BY <1>0, <1>19 DEF HookLists, input, gcc, Lists
<1>20. CASE HookDeletes
  <2>1. /\ jvm = "stopping" /\ jvm' = "exited" /\ "hook" \in deleting
        /\ deleting' = deleting \ {"hook"} /\ stale' = stale \ {"hook"}
        /\ UNCHANGED <<input, interrupted, pc, unit, errors, status, hooked, content, gcc>>
    BY <1>20 DEF HookDeletes, Removes
  <2>2. \/ tempDir' = "deleted" /\ reported' = reported
        \/ reported' = TRUE /\ tempDir' = tempDir /\ (interrupted \/ refuses)
    BY <1>0, <1>20, <2>1 DEF HookDeletes, Removes
  <2> QED BY <1>0, <2>1, <2>2 DEF input
<1>21. CASE NoHook BY <1>0, <1>21 DEF NoHook, input, gcc, removal
<1>22. CASE BackendOpens BY <1>0, <1>22 DEF BackendOpens, main, input, gcc, removal
<1>23. CASE BackendReads
  BY <1>0, <1>23 DEF BackendReads, main, input, gcc, removal, BackendFile, Closed
<1>24. CASE BackendEnds BY <1>0, <1>24 DEF BackendEnds, main, input, gcc, removal
<1>25. CASE BackendQuits BY <1>0, <1>25 DEF BackendQuits, main, input, gcc, removal
<1>26. CASE UNCHANGED vars BY <1>0, <1>26 DEF vars, input, removal, gcc
<1> QED BY <1>1, <1>2, <1>3, <1>4, <1>5, <1>6, <1>7, <1>8, <1>9, <1>10, <1>11, <1>12,
       <1>13, <1>14, <1>15, <1>16, <1>17, <1>18, <1>19, <1>22, <1>23, <1>24, <1>25, <1>26,
       <1>20, <1>21 DEF Next, MainThread, Backend, Hook

LEMMA InitInv == Init => DriverInv
<1> SUFFICES ASSUME Init PROVE DriverInv
  OBVIOUS
<1>1. TypeOK
  <2>1. nbOcl \in Nat /\ nbC \in Nat /\ N <= MaxFiles /\ 1 \in 1..(N + 1) BY DEF Init, N
  <2>2. pipe \in BOOLEAN BY Zenon DEF Init
  <2>3. content \in [1..MaxFiles -> Contents] /\ consumed \in [1..MaxFiles -> Contents]
    BY DEF Init, Contents
  <2> QED BY <2>1, <2>2, <2>3 DEF Init, TypeOK
<1>2. ReaderOK /\ WriterOK BY DEF Init, ReaderOK, WriterOK, N, Units
<1>3. StagesOK /\ ReadOK /\ EndOK BY DEF Init, StagesOK, ReadOK, EndOK, TempDirDeleted, N
<1> QED BY <1>1, <1>2, <1>3 DEF DriverInv

LEMMA NextInv == DriverInv /\ [Next]_vars => DriverInv'
BY TypeNext, ReaderNext, WriterNext, StagesNext, ReadNext, EndNext DEF DriverInv

LEMMA InvProperties == DriverInv => SamePipe /\ SuccessIsWhole
<1> SUFFICES ASSUME DriverInv PROVE SamePipe /\ SuccessIsWhole
  OBVIOUS
<1>1. SamePipe
  <2> SUFFICES ASSUME jvm = "running", pipe, pc = "open", backend = "opening"
               PROVE  rank = unit
    BY DEF SamePipe, BackendFile
  <2>0. ~interrupted BY DEF DriverInv, EndOK
  <2>1. rank \in Units /\ unit \in Units BY DEF DriverInv, TypeOK
  <2>2. \A u \in Units : u < unit <=> u < rank
    <3> TAKE u \in Units
    <3>1. content[u] = "none" <=> u >= rank BY <2>0 DEF DriverInv, ReaderOK
    <3>2. content[u] = "none" <=> ~(u < unit) BY DEF DriverInv, WriterOK
    <3> QED BY <2>1, <3>1, <3>2 DEF Units, N, TypeOK, DriverInv
  <2> QED BY <2>1, <2>2 DEF Units, N, TypeOK, DriverInv
<1>2. SuccessIsWhole BY DEF SuccessIsWhole, DriverInv, EndOK, WriterOK, ReadOK
<1> QED BY <1>1, <1>2

\* The main thread compiles one of the files, and the back end reads one, in
\* every state of the driver (AstC2C.java 548-597, 652-679).
THEOREM DriverTypeCorrect == Spec => []TypeOK
BY InitInv, NextInv, PTL DEF Spec, DriverInv

\* The order in which runC2C opens the named pipes is that of the back end's
\* command line: no two processes wait for each other on different pipes, for
\* any number of OpenCL and C files.
THEOREM PipesAgree == Spec => []SamePipe
<1>1. DriverInv => SamePipe BY InvProperties
<1> QED BY InitInv, NextInv, <1>1, PTL DEF Spec

\* A successful exit status of the compiler means that every generated file
\* was written whole and read whole by a back end that succeeded.
THEOREM SuccessMeansWhole == Spec => []SuccessIsWhole
<1>1. DriverInv => SuccessIsWhole BY InvProperties
<1> QED BY InitInv, NextInv, <1>1, PTL DEF Spec

\* Once the hook is attached, the temporary directory is deleted by a return, an
\* error or a throwable, unless the file system refuses; after a signal, when the
\* hook runs beside the main thread and the back end, it is deleted or reported.
THEOREM TempDirIsDeleted == Spec => []TempDirDeleted
<1>1. DriverInv => TempDirDeleted BY DEF DriverInv, EndOK
<1> QED BY InitInv, NextInv, <1>1, PTL DEF Spec
=============================================================================
