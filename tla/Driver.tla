------------------------------- MODULE Driver -------------------------------
(***************************************************************************)
(* One run of the driver (driver/AstC2C.java): preprocessing, compilation  *)
(* of the OpenCL files and then of the C files, and the back-end compiler. *)
(* By default the back end is started first and reads each generated file  *)
(* from a named pipe, while it is written: opening a pipe blocks until the *)
(* other side opens it too.  Otherwise the back end runs last, on files.   *)
(*                                                                         *)
(* The temporary directory is deleted by the main thread when it ends, and *)
(* by the shutdown hook.  A signal starts the hook beside the main thread  *)
(* and the back end, which go on until the hook ends and the JVM with it.  *)
(*                                                                         *)
(* The generated files are numbered: those of the nbOcl OpenCL inputs,     *)
(* then those of the nbC C inputs.                                         *)
(***************************************************************************)
EXTENDS Integers

CONSTANT MaxFiles      \* bound: generated files

ASSUME DriverAssumption == MaxFiles \in Nat

VARIABLES
  nbOcl, nbC, pipe, stop,  \* the command line; stop: "preproc", "c2c", "no"
  refuses,    \* the file system refuses to delete something in the directory
  jvm,        \* "running", "stopping" (the hook runs), "exited"
  interrupted,  \* it stops because of a signal
  pc,         \* where the main thread is; "dead": a throwable ended it
  unit,       \* the file it is at
  errors,     \* CompilerError.GLOBAL has counted an error
  status,     \* the exit status: 0, or 1 for an error
  tempDir,    \* "none", "exists", "deleted"
  hooked,     \* the directory is registered and the shutdown hook attached
  deleting,   \* the threads, "main" or "hook", that have listed the directory
              \* and delete what they found in it
  stale,      \* those for which something has been created or deleted since
  reported,   \* one could not delete the directory, and has printed it
  content,    \* file -> what was written in it: "none", "partial", "complete"
  consumed,   \* file -> what the back end has read of it
  backend,    \* the process: "none", "next", "opening", "reading", "ended"
  rank,       \* the place in its command line of the file it is at
  verdict     \* its status: "none" until it ends, "ok", "failed"

input   == <<nbOcl, nbC, pipe, stop, refuses>>
gcc     == <<consumed, backend, rank, verdict>>
removal == <<tempDir, deleting, stale, reported>>
vars    == <<input, jvm, interrupted, pc, unit, errors, status, hooked, removal, content, gcc>>

N     == nbOcl + nbC
Units == 1..N

\* The batch of a file: runC2C is called for each language.
FirstOfBatch(u) == IF u <= nbOcl THEN 1 ELSE nbOcl + 1
LastOfBatch(u)  == IF u <= nbOcl THEN nbOcl ELSE N

\* Mutation of BackendFile: C files come first in the command line.
CFilesFirst(k) == IF k <= nbC THEN nbOcl + k ELSE k - nbC

\* The k-th generated file in the back end's command line.
BackendFile(k) == k

\* DriverOptions.check: stopping before the back end switches pipes off.  With
\* no file to compile the inputs are objects, for the back end.
Init ==
  /\ nbOcl \in 0..MaxFiles /\ nbC \in 0..(MaxFiles - nbOcl)
  /\ stop \in {"preproc", "c2c", "no"} /\ pipe \in {b \in BOOLEAN : b => stop # "c2c"}
  /\ refuses \in BOOLEAN
  /\ jvm = "running" /\ interrupted = FALSE
  /\ pc = "start" /\ unit = 1 /\ errors = FALSE /\ status = 0
  /\ tempDir = "none" /\ hooked = FALSE
  /\ deleting = {} /\ stale = {} /\ reported = FALSE
  /\ content = [u \in 1..MaxFiles |-> "none"] /\ consumed = [u \in 1..MaxFiles |-> "none"]
  /\ backend = "none" /\ rank = 1 /\ verdict = "none"

-----------------------------------------------------------------------------
(* The main thread.                                                         *)

\* A JVM that stops lets its threads run until the hook ends.
At(p) == jvm # "exited" /\ pc = p

GoTo(p) == pc' = p /\ UNCHANGED <<errors, status>>

\* A file may appear in the directory that is not in a listing made before.
Creates == stale' \in {stale, deleting}

\* CompilerExit, thrown by any of the errors; every handler lets it through.
Exit == pc' = "exit" /\ status' = 1 /\ UNCHANGED errors

CreateTempDir ==
  /\ At("start") /\ GoTo("created")
  /\ tempDir' = "exists"
  /\ UNCHANGED <<input, jvm, interrupted, unit, hooked, deleting, stale, reported, content,
                 gcc>>

\* A hook cannot be attached any more when the JVM stops: an exception, before
\* the handlers of main.
RegisterTempDir ==
  /\ At("created")
  /\ \/ jvm = "running" /\ GoTo("preprocess") /\ hooked' = TRUE
     \/ jvm = "stopping" /\ GoTo("dead") /\ UNCHANGED hooked
  /\ UNCHANGED <<input, jvm, interrupted, unit, removal, content, gcc>>

\* The preprocessor runs to its end; it may fail, and so may a copy.
Preprocess ==
  /\ At("preprocess") /\ unit <= N
  /\ \/ unit' = unit + 1 /\ UNCHANGED <<pc, errors, status>>
     \/ Exit /\ UNCHANGED unit
  /\ Creates
  /\ UNCHANGED <<input, jvm, interrupted, hooked, tempDir, deleting, reported, content, gcc>>

AfterPreprocess ==
  /\ At("preprocess") /\ unit = N + 1
  /\ unit' = 1
  /\ GoTo(CASE stop = "preproc"                    -> "return"
            [] stop # "preproc" /\ N = 0           -> IF stop = "no" THEN "backend" ELSE "return"
            [] stop # "preproc" /\ N > 0 /\ pipe   -> "pipes"
            [] stop # "preproc" /\ N > 0 /\ ~pipe  -> "parse")
  /\ UNCHANGED <<input, jvm, interrupted, hooked, removal, content, gcc>>

MakePipes ==
  /\ At("pipes")
  /\ \/ tempDir = "exists" /\ GoTo("fork")
     \/ Exit
  /\ Creates
  /\ UNCHANGED <<input, jvm, interrupted, unit, hooked, tempDir, deleting, reported, content,
                 gcc>>

StartBackend ==
  /\ At("fork")
  /\ \/ GoTo("parse") /\ backend' = "next"
     \/ Exit /\ UNCHANGED backend
  /\ UNCHANGED <<input, jvm, interrupted, unit, hooked, removal, content, consumed, rank,
                 verdict>>

\* A file is parsed and its symbol table built: an input that cannot be read is
\* a counted error, skipped; errors in it end the compilation; a throwable
\* that is no Exception (a stack overflow) ends the thread.
Parse ==
  /\ At("parse")
  /\ \/ /\ \/ UNCHANGED errors
           \/ errors' = TRUE
        /\ UNCHANGED status
        /\ IF unit < LastOfBatch(unit) THEN unit' = unit + 1 /\ UNCHANGED pc
           ELSE unit' = FirstOfBatch(unit) /\ pc' = "link"
     \/ Exit /\ UNCHANGED unit
     \/ GoTo("dead") /\ UNCHANGED unit
  /\ UNCHANGED <<input, jvm, interrupted, hooked, removal, content, gcc>>

\* CEngine.link: module Linker, then exitIfError.  A file may still be refused
\* before it is opened, by a check or in its rewriting: the first one is here.
Link ==
  /\ At("link")
  /\ \/ ~errors /\ (GoTo("open") \/ GoTo("dead"))
     \/ Exit
  /\ UNCHANGED <<input, jvm, interrupted, unit, hooked, removal, content, gcc>>

\* postLinkAndEmit, first part.  A pipe is opened when the back end is opening it
\* as well; once the hook has deleted it, a file is created in its place, as it is
\* without pipes, or not when the directory is gone.
OpenOutput ==
  /\ At("open")
  /\ \/ /\ tempDir = "exists" /\ GoTo("emit")
        /\ content' = [content EXCEPT ![unit] = "partial"]
        /\ \/ /\ pipe /\ backend = "opening" /\ BackendFile(rank) = unit
              /\ backend' = "reading" /\ UNCHANGED stale
           \/ (~pipe \/ "hook" \in deleting) /\ Creates /\ UNCHANGED backend
     \/ tempDir = "deleted" /\ Exit /\ UNCHANGED <<content, backend, stale>>
  /\ UNCHANGED <<input, jvm, interrupted, unit, hooked, tempDir, deleting, reported, consumed,
                 rank, verdict>>

\* The next file of the batch, the next batch, or the back end.
AfterEmit ==
  CASE unit < LastOfBatch(unit)               -> "open"
    [] unit = LastOfBatch(unit) /\ unit < N   -> "parse"
    [] unit = N -> IF pipe THEN "wait" ELSE IF stop = "no" THEN "backend" ELSE "return"

\* Second part: the file is written and its stream closed; errors the emitter
\* has raised (or a failed copy, or a next file that is refused) then end the
\* compilation.
Emit ==
  /\ At("emit")
  /\ content' = [content EXCEPT ![unit] = "complete"]
  /\ \/ /\ GoTo(AfterEmit)
        /\ unit' = IF AfterEmit \in {"open", "parse"} THEN unit + 1 ELSE unit
     \/ unit < LastOfBatch(unit) /\ GoTo("dead") /\ UNCHANGED unit
     \/ Exit /\ UNCHANGED unit
  /\ UNCHANGED <<input, jvm, interrupted, hooked, removal, gcc>>

\* The emitter fails in the middle of a file, with its stream open.
EmitFails ==
  /\ At("emit") /\ (Exit \/ GoTo("dead"))
  /\ UNCHANGED <<input, jvm, interrupted, unit, hooked, removal, content, gcc>>

\* Mutation of WaitFor: the status of the process is not looked at.
WaitOnly ==
  /\ At("wait") /\ backend = "ended" /\ GoTo("return")
  /\ UNCHANGED <<input, jvm, interrupted, unit, hooked, removal, content, gcc>>

WaitFor ==
  /\ At("wait") /\ backend = "ended"
  /\ IF verdict = "ok" THEN GoTo("return") ELSE Exit
  /\ UNCHANGED <<input, jvm, interrupted, unit, hooked, removal, content, gcc>>

RunBackend ==
  /\ At("backend")
  /\ \/ GoTo("return") /\ verdict' = "ok" /\ consumed' = content
     \/ Exit /\ verdict' = "failed" /\ UNCHANGED consumed
  /\ backend' = "ended"
  /\ UNCHANGED <<input, jvm, interrupted, unit, hooked, removal, content, rank>>

-----------------------------------------------------------------------------
(* The end of the JVM: ResourceManager.shutdown in both threads.            *)

\* recursiveDelete lists the directory; two threads that delete it at a time
\* are in the way of each other.
Lists(thread) ==
  /\ deleting' = deleting \cup {thread}
  /\ stale' = IF deleting = {} THEN stale ELSE deleting'
  /\ UNCHANGED <<tempDir, reported>>

\* It deletes what it has listed and the directory, or gives up at the first
\* file it does not find or cannot delete, and last if the directory is not empty.
Removes(thread) ==
  /\ thread \in deleting
  /\ deleting' = deleting \ {thread} /\ stale' = stale \ {thread}
  /\ \/ tempDir = "exists" /\ ~refuses /\ tempDir' = "deleted" /\ UNCHANGED reported
     \/ /\ tempDir = "deleted" \/ refuses \/ thread \in stale
        /\ reported' = TRUE /\ UNCHANGED tempDir

\* main, after a CompilerExit or a normal return.
MainLists ==
  /\ At("exit") \/ At("return")
  /\ GoTo("deleting") /\ Lists("main")
  /\ UNCHANGED <<input, jvm, interrupted, unit, hooked, content, gcc>>

\* The list of directories is cleared, deleted or not.
MainDeletes ==
  /\ At("deleting") /\ GoTo("done") /\ Removes("main")
  /\ UNCHANGED <<input, jvm, interrupted, unit, hooked, content, gcc>>

\* System.exit, or the end of the last thread: the hook finds the list empty.
EndMain ==
  /\ jvm = "running" /\ pc = "done"
  /\ jvm' = "exited"
  /\ UNCHANGED <<input, interrupted, pc, unit, errors, status, hooked, removal, content, gcc>>

\* A dead main thread lets the JVM stop once the threads that read the back
\* end's output end, which they do when it ends.
DeadExit ==
  /\ jvm = "running" /\ pc = "dead" /\ backend \in {"none", "ended"}
  /\ jvm' = "stopping" /\ status' = 1
  /\ UNCHANGED <<input, interrupted, pc, unit, errors, hooked, removal, content, gcc>>

Signal ==
  /\ jvm = "running"
  /\ jvm' = "stopping" /\ interrupted' = TRUE /\ status' = 1
  /\ UNCHANGED <<input, pc, unit, errors, hooked, removal, content, gcc>>

\* Mutation of HookLists: the hook has a list of directories of its own.
HookListsNone ==
  /\ jvm = "stopping" /\ jvm' = "exited"
  /\ UNCHANGED <<input, interrupted, pc, unit, errors, status, hooked, removal, content, gcc>>

\* The hook inherits the list of the main thread.
HookLists ==
  /\ jvm = "stopping" /\ "hook" \notin deleting /\ hooked /\ pc # "done"
  /\ Lists("hook")
  /\ UNCHANGED <<input, jvm, interrupted, pc, unit, errors, status, hooked, content, gcc>>

HookDeletes ==
  /\ jvm = "stopping" /\ Removes("hook")
  /\ jvm' = "exited"
  /\ UNCHANGED <<input, interrupted, pc, unit, errors, status, hooked, content, gcc>>

NoHook ==
  /\ jvm = "stopping" /\ "hook" \notin deleting /\ (hooked => pc = "done")
  /\ jvm' = "exited"
  /\ UNCHANGED <<input, interrupted, pc, unit, errors, status, hooked, removal, content, gcc>>

-----------------------------------------------------------------------------
(* The back-end compiler, reading from pipes.                               *)

main == <<input, jvm, interrupted, pc, unit, errors, status, hooked, removal, content>>

\* Mutation of Closed: streams are closed at the end only.
ClosedAtExit(u) == jvm = "exited"

\* The writer has closed the pipe, or is gone.
Closed(u) == content[u] = "complete" \/ jvm = "exited"

\* The hook has deleted the file, or may have.
MayBeGone == tempDir = "deleted" \/ "hook" \in deleting

BackendOpens ==
  /\ backend = "next" /\ rank <= N
  /\ \/ tempDir = "exists" /\ backend' = "opening" /\ UNCHANGED verdict
     \/ MayBeGone /\ backend' = "ended" /\ verdict' = "failed"
  /\ UNCHANGED <<main, consumed, rank>>

BackendReads ==
  /\ backend = "reading" /\ Closed(BackendFile(rank))
  /\ consumed' = [consumed EXCEPT ![BackendFile(rank)] = content[BackendFile(rank)]]
  /\ backend' = "next" /\ rank' = rank + 1
  /\ UNCHANGED <<main, verdict>>

BackendEnds ==
  /\ backend = "next" /\ rank = N + 1
  /\ backend' = "ended" /\ verdict' \in {"ok", "failed"}
  /\ UNCHANGED <<main, consumed, rank>>

\* It refuses its options, is killed, or stops at an error.
BackendQuits ==
  /\ backend \in {"next", "reading"} \/ (backend = "opening" /\ MayBeGone)
  /\ backend' = "ended" /\ verdict' = "failed"
  /\ UNCHANGED <<main, consumed, rank>>

-----------------------------------------------------------------------------
MainThread == \/ CreateTempDir \/ RegisterTempDir \/ Preprocess \/ AfterPreprocess
              \/ MakePipes \/ StartBackend \/ Parse \/ Link \/ OpenOutput \/ Emit \/ EmitFails
              \/ WaitFor \/ RunBackend \/ MainLists \/ MainDeletes \/ EndMain \/ DeadExit

Hook == HookLists \/ HookDeletes \/ NoHook

Backend == BackendOpens \/ BackendReads \/ BackendEnds

Next == MainThread \/ Hook \/ Backend \/ BackendQuits \/ Signal

\* Both threads and the back end run; the commands the driver waits for end.
Spec == /\ Init /\ [][Next]_vars
        /\ WF_vars(MainThread) /\ WF_vars(Hook) /\ WF_vars(Backend)

-----------------------------------------------------------------------------
(* Properties.                                                              *)

Contents == {"none", "partial", "complete"}

\* The main thread, when it compiles, is at one of the files.
TypeOK ==
  /\ nbOcl \in Nat /\ nbC \in Nat /\ N <= MaxFiles
  /\ pipe \in BOOLEAN /\ stop \in {"preproc", "c2c", "no"} /\ refuses \in BOOLEAN
  /\ jvm \in {"running", "stopping", "exited"} /\ interrupted \in BOOLEAN
  /\ errors \in BOOLEAN /\ status \in {0, 1}
  /\ pc \in {"start", "created", "preprocess", "pipes", "fork", "parse", "link", "open",
             "emit", "wait", "backend", "return", "exit", "deleting", "done", "dead"}
  /\ unit \in 1..(N + 1)
  /\ pc \in {"parse", "link", "open", "emit", "wait"} => unit \in Units
  /\ tempDir \in {"none", "exists", "deleted"} /\ hooked \in BOOLEAN
  /\ stale \subseteq deleting /\ deleting \subseteq {"main", "hook"} /\ reported \in BOOLEAN
  /\ content \in [1..MaxFiles -> Contents] /\ consumed \in [1..MaxFiles -> Contents]
  /\ backend \in {"none", "next", "opening", "reading", "ended"}
  /\ rank \in 1..(N + 1)
  /\ backend \in {"opening", "reading"} => rank \in Units
  /\ verdict \in {"none", "ok", "failed"}

\* When both processes wait for the other to open a pipe, it is the same pipe.
SamePipe ==
  jvm = "running" /\ pipe /\ pc = "open" /\ backend = "opening" => BackendFile(rank) = unit

\* A compilation that reports success has had every file written to its end,
\* and a back end that read all of each and succeeded: what a pipe that was cut
\* short makes of a program is never reported as one.
SuccessIsWhole ==
  jvm = "exited" /\ status = 0 /\ stop = "no" =>
    verdict = "ok" /\ \A u \in Units : content[u] = "complete" /\ consumed[u] = "complete"

\* The temporary directory does not stay behind, unless a thread has said so: an
\* error, a throwable or a normal end always deletes it, except when the file
\* system refuses; a signal may leave it, never silently.
TempDirDeleted ==
  jvm = "exited" /\ hooked =>
    tempDir = "deleted" \/ (reported /\ (interrupted \/ refuses))

\* Every compilation ends, unless the back end gives up before its last file
\* (then the compiler may wait for a reader for ever) or a throwable ends
\* the main thread (then the back end may wait for a writer, and the JVM for it).
CompilationEnds ==
  <>(jvm = "exited" \/ (backend = "ended" /\ rank <= N) \/ pc = "dead")
=============================================================================
