# AstC2C, specified and checked in TLA+

AstC2C is a source-to-source C compiler in Java. A *driver* preprocesses the
input files, runs one *engine* per file (parse, build the symbol table, rewrite,
emit), *links* the modules it read, and hands the emitted C to a back-end
compiler, through named pipes if it can. Its core is the *symbol table* and the
tree walk that fills it (`SymbolTableBuilder.g`). It can also run as a *server*
that compiles the programs clients send it. A second driver, the *reentrant
compiler*, turns the modules of a program into one component whose variables are
the members of a structure. Programs with OpenCL vectors are compiled by the
back end with a *run-time library* in C, the headers under `lib/include/src`.

This directory holds TLA+ models of the parts of the program whose state is hard
to keep right, the TLC configurations that check them on small instances, and
proofs, checked by TLAPS, of the main invariants for every instance. Paths below
are relative to the Java sources of the repository (its directory `src`), with
`SymbolTable.java` and the like for `ir/symboltable/SymbolTable.java`; headers
(`*.h`) are those under `lib/include/src`.

## The system

| Component | State | Operations | What is hard | What makes it correct |
|---|---|---|---|---|
| **Symbol table, ordinary names** (`SymbolTable.java`) | stack of scope names; one flat map from "path of scopes + name" to a symbol or to a list of overloads; vectors of *brothers* (declarations of one entity); list of *flushed* symbols; pragma modes | open/close scopes; `addObjectLabel`, `addFunction`, `addEnumConstant`, `addTypedef`; lookups; rename and marks through brothers | order of `extern`, tentative, prototype and definition; overloads; scopes that are reopened; error limit that throws mid-handler | lookups obey C's scoping; whatever leaves the table stays attached to what stays; a definition is never hidden |
| **Symbol table, tags** (`SymbolTable.java`, `SymbolTableBuilder.g`) | map of tags; `Type` objects shared between tag symbols; parents of each tag | forward declaration, definition, mention, nested bodies | one `Type` completed at the end of a body; inner scopes; conflicts | all declarations of a tag have one type; parents are acyclic unless nesting makes a cycle |
| **Symbol table, code labels** | map of labels per function; list of unresolved uses | `goto`, `&&l`, `l:`, begin and end of a body | nested functions (GNU) with one list for all | no jump without a target and without an error |
| **Extraction of type tags** (`runExtraction` in `SymbolTableBuilder.g`) | instance data, set and order of tags to move, new names | collect, schedule, move, rename | cycles between tags; forward declarations; renaming through brothers | parents first; named tags moved, and with what a specifier needs, its definitions; names agree; ends unless there is a cycle |
| **Linker of modules** (`Linker.java`) | symbol tables of all modules, global table, errors, marks | pass over definitions, pass over references | order of modules; kinds that clash; `--forcelink` | exactly the prototypes that the program defines are internal |
| **Compilation server** (`proxy`, `common/ResourceManager.java`) | main thread, thread per connection, thread per compilation, threads that read a back end's output; process-wide streams; inherited list of temporary directories | accept, read, compile, answer, shut down | threads sharing streams and files; throwables; signals | messages do not cross; streams are restored; directories are deleted; requests end |
| **Driver** (`driver`, `utility`) | options, temporary directory, FIFOs, back-end process | preprocess, compile, link, back end, shutdown hook | both sides block opening a FIFO; exits while the other side waits; a hook beside threads that still run | both sides open the same FIFO; success means that all of it was compiled; the directory is deleted, or its deletion reported to have failed; terminates |
| **Reentrant compiler** (`ir/symboltable/ExtractionLinker.java`, `engine/ReentrantEngine.java`, `driver/ReentrantC2C.java`, `parser/ThisRewriter.g`) | lists of extracted declarations, global table, mangling counter passed between modules, marks on symbols | extract data while walking, rename statics, link data and functions of all modules, print uses through the structure | renames and marks that reach brothers, and only those there are; passes over tables of separate modules | one structure with each variable once; every use keeps its meaning; a call passes `_this` exactly when the function takes it |
| **Run-time library** (`vector_emulation/*.h`, `vector_builtins/*.h`) | the vectors of the program | operators, conversions and builtins, by macro for each type and length | promotions, signed overflow, division traps, limits of each width | exact, or the nearest value, where OpenCL says so; no trap |
| **Types** (`ir/types`, `abi`) | immutable descriptions | equivalence, conversion, size and layout | widths, alignments | agree with the ABI |
| **Literals** (`ir/literals`) | none | evaluation of constants | overflow, escapes | C's value |
| **Engines, tree, parsers, emitters** | one tree per file | sequence of passes | | |

Components talk by calls within one thread: the driver calls engines, an engine
calls the tree walk, the walk calls the symbol table, `CEngine` calls the linker
over all symbol tables. The exceptions are the server, whose threads share the
process, and the driver with its back-end process. Errors go through
`CompilerError.raiseError`, which throws `CompilerExit` out of whatever runs
once `nbMaxErrors` errors have been counted; every module below that raises
errors models it.

`PROJECT.json` lists the components with their status, the hazards at their
lines, and for each definition the lines it translates.

## Modules

**`SymbolTable`** — the ordinary name space as the tree walk drives it. The
scoped names of the code (strings such as `a/!3!f/x`) are pairs of a path of
scope names and a name. `symTable`, `scopeStack`, `flushed_list` and the
counters are the fields of the class; `symbols` lists every `Symbol` object
created, `vectors` every `Vector` of brothers, so that sharing by reference is
explicit; `context` is the position of the walk (file scope, block, parameter
list, K&R declarations, body), which decides what it can meet next.
`addObjectLabel`, `addFunction` and `addUnique` (enum constants and typedefs)
are the methods with all their branches. One action is one rule of the walk:
`DefineFunction`, for instance, is the end of a parameter list, which pops the
scope, declares the function in the scope around and pushes it again. Types are
classes of equivalent types, parameter lists are values of which `AnyParams` is
equivalent to all, as the methods of `ir/types` decide.

**`ScopedEnvironment`** — the abstract specification: a stack of frames, each a
map from names to the kind of thing they denote, where only the innermost frame
(or the one around the parameters of a function) changes. `SymbolTable`
instantiates it with `frames`, the part of the flat map that the open scopes
select (its kinds are those of the declarations, and functions, which can always
be defined); `ImplementsEnvironment` says that every behaviour of the table is
one of the stack. `MCSymbolTable` gives the runs their array shapes, and a
symmetry of types and parameter lists.

**`TagTable`** — tag symbols and the `Type` objects they share. `open` is the
stack of bodies being read, with the tags each has referenced so far, which
become its `parents` at the closing brace. `Ancestors`, the parents of parents
to any depth, is stated as the least set closed under parents.

**`TagExtraction`** — extends `TagTable` with what runs at the end of the unit:
collection (`putInSet`), scheduling in rounds (`ScheduleRound`), and moves to
file scope with new names (`moveSymbolDeclaration`, `reName`). `DeclareInstance`
is the declaration of an instance datum: `specified` is the tag of its
specifiers, `mentioned` are those that the parameter lists of its declarator and
its initializer name. The code makes all of them parents of the object
(`SymbolTableBuilder.g:1402-1408`, 1706-1709, 2048-2056), but only for the
specifiers does `putBrothersInSet` add the other declarations of all they need
(`Siblings`), and it overflows the stack on cycles (phase `"overflow"`).
`DefinitionsFollow` is about the specifiers accordingly; what siblings need in
turn, it does not say either. Not modelled: a tag that is first declared in the
parameter list of a declarator, which the code moves out of it
(`SymbolTableBuilder.g:1376-1388`).

**`CodeLabels`** — the labels of nested function bodies.

**`Linker`** — `Linker.run`: two passes over modules, names in any order within
one (the code iterates over hash tables). Any combination of declarations is an
initial state. `MCLinker` states what the README of the repository says of it.

**`Driver`** — one compilation by `AstC2C.mainNonStatic`, and the back-end
compiler beside it. Generated files are numbered in the order of the code: the
OpenCL batch, then the C batch, each parsed whole, linked (`CEngine.link`, the
subject of module `Linker`), then emitted file by file (`runC2C`). With pipes
`OpenOutput` is a rendezvous with a back end that is opening the same file;
without, the back end runs last. `Exit` is a `CompilerExit`, which is an `Error`
and so goes through every `catch (Exception e)` up to `main`; `"dead"` is a main
thread that another `Error` has ended. The back end (external) reads the files
of its command line in order, may fail after all of them or give up before. The
temporary directory has two deleters: the main thread at its end, and the
shutdown hook, which a signal (`Signal`) or the end of a dead main thread starts
and beside which the main thread and the back end go on (`jvm` is `"stopping"`).
A deletion is two steps, as in `recursiveDelete`: the directory is listed
(`Lists`), then what was listed and the directory are deleted (`Removes`). It
fails when a file was created since or the other thread deletes too (`stale`),
when the directory is gone, or when the file system refuses (`refuses`); a
failure is only printed (`ResourceManager.java:114`). The list of directories is
one object for both threads, so that a main thread that is done leaves the hook
nothing to do (`NoHook`). A back end that opens the file created in the place of
a deleted pipe is not followed further.

**`ReentrantLink`** — the reentrant compiler from the tree walk to the link.
`Declare` is a declaration as the walk meets it: its kind decides whether it is
instance data, its new name (`Mangled`, with `mangling_counter`), and which
symbols take that name with it (`Renamed`, through the brothers of module
`SymbolTable`). `EndModule` adds the tags that the extraction moves (module
`TagExtraction`), which take numbers from the same counter. `NextList` goes
through the lists in the order of `ReentrantEngine.link`; `LinkInstanceData`,
`LinkExtern`, `LinkDefinition` and `LinkPrototype` are the bodies of the four
loops of `ExtractionLinker`. What the standard makes of the same declarations
(`Entity`, `WellFormed`) is stated apart, and the properties compare the two:
`Printed` is what the emitter and `ThisRewriter` make of the marks.

**`InstanceStructure`** — the abstract specification of the above: one structure
that only grows, by a variable it does not hold. `ReentrantLink` instantiates it
with the variables that the members of its list denote; `ImplementsStructure`
says that every behaviour of the compiler is one of it.

**`VectorRuntime`** — the integer functions of the run-time library. Each header
has one macro for all types, so a type is a value (rank and sign) and a function
takes it as an argument. C's arithmetic is modelled as it is: `Arith` promotes,
reduces an unsigned result, and has a set of values for a signed one that does
not fit; `Divide` has none when the processor traps. A program is two vectors
and a call, or a comparison followed by a selection. `MCVectorRuntime` chooses
the operands.

**`CompileServer`** — the threads of the server: the main one, one per client,
one per compilation, and those that read the output of a back end that is fed
through pipes (`readers`; `ExecHelper.java:189-240`), which nobody joins. There
is one action per step that another thread, a client or a signal can observe.
What a compiler prints (`Prints`) and what a reader prints (`Forward`) go to the
stream that is current at that moment, and are kept apart (`captured`,
`forwarded`). The deletions of the server are atomic and do not fail: how they
can is in `Driver`. A compiler that dies has left result 0, which is sent to its
client before the missing buffers raise an exception (`ServerThread.java:186`):
the model's answer `"broken"` stands for that success followed by nothing.
`MCCompileServer` states what comments say.

The definitions with a comment `Mutation of ...` are plausible bugs: with one of
them in the place of the definition it varies, a run finds the property it is
meant for violated. No behaviour of the specifications uses them.

## Runs

All state spaces are explored completely; counts are of distinct states.

| Run | States | Bounds | Checks |
|---|---|---|---|
| `st_declarations` | 853 807 up to symmetry | 1 name, 2 types, 3 array shapes, 3 storage classes, objects and typedefs, `f()` and 2 parameter lists, both pragmas, 3 declarations, nesting 2 | `TypeOK`, `FlushedStayAttached`, `BrothersAreOneEntity`, `NothingLost`, `FunctionDefinitionKept`, `OverloadsDiffer`, `BuiltinsProtected` |
| `st_scopes` | 560 587 | 2 names, 3 declarations, 2 scopes of each sort, nesting 3 | `ImplementsEnvironment`, `ClosedScopesFrozen` |
| `extraction` | 365 725 | 2 names, `struct` and `union`, 3 tag symbols, 1 inner scope, 1 error | `TypeOK`, `OneTypePerTag`, `TagsStayAttached`, `CyclesOnlyByNesting`, `ParentsFirst`, `DefinitionsFollow`, `NamesAgree`, `ExtractionEnds` |
| `labels` | 36 249 | 2 names, 4 labels, 3 functions | `PendingBelongToBody` |
| `link` | 6 562 | 3 modules, 1 name | `PrototypesResolved`, `ClashReported` |
| `driver` | 80 928 | up to 4 files of two languages | `SamePipe`, `SuccessIsWhole`, `TempDirDeleted`, `CompilationEnds` |
| `server` | 17 916 | 2 clients, 3 requests | `MessagesNeverCross`, `StreamsRestored`, `NoDirectoryLeft`, `RequestsEnd` |
| `reentrant` | 607 101 | 2 modules, 1 name, 4 declarations, 2 errors | `TypeOK`, `NewNamesDiffer`, `UsesKeepTheirMeaning`, `ExternsResolved`, `CallsAgree`, `ClashesAreTheErrors`, `ImplementsStructure` |
| `runtime` | 1 212 447 | types of 2, 4, 8 and 16 bits, 2 elements at the limits of every type | `ArithmeticIsExact`, `DivisionsAreExact`, `RotationsAreExact`, `MasksSelect`, `ElementsMatchWhole` |

Why the bounds are enough. A vector of brothers or a chain of replacements has
its interesting cases with three declarations (extern, incomplete, complete; or
prototype, definition, prototype); the names of one scope do not interact except
through overloads, so one name is enough where scopes are not the question. Two
names and a nesting of three give a shadowing declaration on either side of a
function's parameters and of its body. Three tags make a chain with a forward
declaration, or a cycle with something outside it. Three modules are needed for
a reference before and after the definitions, and for a third definition after a
clash; names are linked independently of each other, except for the error limit.
Four files make two batches of two, or one file between others, at which either
process can stop. Two clients and three requests give a client served after
another was, and one that sends a request after a compilation; each client
connects once. Two modules and four declarations of a name give the reentrant
compiler a static variable with declarations before and after it, or a
definition with references on either side of it, in files and blocks; modules do
not meet otherwise than by names. The run-time library treats an element without
regard to others, but for `any`, `all` and the lists of elements, so two are
enough; its types are as wide as the model needs for what distinguishes them (a
sum of narrow operands that fits an int, a long wider than an int, a limit of
each type inside the next), and every operand is a limit of a type, next to one,
or 0 or ±1.

Two runs look at states up to a change of names. In `st_declarations`, types and
parameter lists are only compared with each other, and its properties are safety
properties, so TLC's symmetry reduction is sound. It is not for a liveness
property such as `ExtractionEnds`: instead, `MCTagExtraction` takes the units
whose first tag has one name and one family, chosen beforehand. The names, and
`struct` and `union`, are interchangeable in `TagTable` and `TagExtraction`, so
every other behaviour is one of these renamed.

Runs that do not pass show where the program differs from what its own text
says, each with one property:

- `link_redefinition` (`RedefinitionReported`): the README describes
  `--forcelink` as "continue on link variable redefinition", but without it a
  variable defined in two modules is not reported. The code that enters data
  definitions in the global table is nested under the test that they are there
  (`Linker.java:192`).
- `server_streams` (`OutputsNeverCross`): one connection at a time is managed
  "to avoid interactions on system.err and system.out" (`ProxyServer.java:177`),
  but a back end may outlive the compilation that started it, after an error or
  a death, and the threads that forward its output print into the buffer of the
  next client.
- `server_directory` (`DirectoryPreserved`): a compilation runs in a thread of
  its own "to preserve compiler thread local storage" (`ServerThread.java:148`),
  but the list of temporary directories is inherited by reference, so that the
  end of the first compilation deletes the server's own directory, with the
  binary that was to be sent.

Other behaviour worth knowing, which the models contain and no run is about: an
incomplete definition is replaced in the table by a complete `extern`
declaration; a mangled declaration of an unmangled function is accepted where
the opposite is an error; `putBrothersInSet` overflows the stack on the cycles
of a specifier's tags (`struct A { struct B { struct A *a; } b; }`), and a cycle
that it has not been through, because a declarator or an initializer names it,
or because it was closed by a later definition, reaches the scheduling loop at
`SymbolTableBuilder.g:456`, which then never ends; the comment at
`SymbolTableBuilder.g:1410` adds "all brothers of parents declared at this point
also (for uncomplete struct/unions ...)", but the parents that come from a
declarator or an initializer get none, so that of `struct S; struct T { struct S
*s; }; struct S { int i; }; static void (*f)(struct T *);` the first declaration
of `S` is extracted and its definition is not; extern declarations of data are
never marked program internal, since the global table holds functions only; a
forced link still raises an error at the third definition of a name first
defined as a function; the directory of a server that is terminated stays, its
shutdown hook having a list of its own; a compiler that dies of a stack overflow
leaves the streams of the process redirected. Of the driver, `CompilationEnds`
has the two cases in which the compiler hangs for ever with pipes: the back end
gives up before its last file, and the compiler waits in `open` for a reader
that will not come (`CEngine.java:244`); or a stack overflow ends the main
thread, and the threads that forward the back end's output
(`ExecHelper.java:229`) wait with it for a writer. When the compiler exits with
an error, on the other hand, the back end is left waiting for a pipe whose
directory is deleted, or takes a truncated file for a whole one; neither is ever
reported as a success. The comment "The temp directory will be deleted at the JV
shutdown" (`AstC2C.java:382`) is not so after a signal: the hook shares the
directory with a main thread and a back end that still run, and a deletion that
meets a file it did not list, or misses one, is given up.

Of the server: the request commented "Stop server when ID==-1"
(`ServerThread.java:99`) ends its connection only. Of the reentrant compiler,
each an exception named in a property: an `extern` declaration in a block of a
static variable of the file keeps the old name (`SymbolTableBuilder.g:272` has
the case as an example, and `devtest/src/KnownIssues/static_extern` a program);
a prototype in a block of a static function is not marked, and the call lacks
`_this`; a function that is static only by its prototype is entered in the
global table; two tentative definitions in one module are refused; with
`--forcelink` the second of two definitions is lost with its initialiser. Of the
run-time library: `/=` and `%=` on chosen elements trap where the operators on
vectors do not; an uint converts to a long with no limit, wrong on a target
whose long is no wider; the absolute value and the division by -1 of the lowest
int or long are undefined; assignments of the form `op=` return their second
argument. Left shifts of signed values are taken as GCC defines them, and the
width of a long, which the headers write as 64, as that of the type.

## Fairness

- `TagExtraction`: `WF_allVars(Extract)`. So is the extraction. Reading the unit
  is not fair: nothing says that an input ends.
- `Driver`: weak fairness of `MainThread`, `Hook` and `Backend`. Both threads
  and the back end run, and the commands the driver waits for (preprocessor,
  `mkfifo`, a back end that reads files) end. Giving up, signals, and which of
  several outcomes a step has are not fair.
- `CompileServer`: weak fairness of `Accept`, `WriteAnswer` and the steps of
  each compiler. The JVM runs all its threads, and each of these steps, once
  enabled, stays so until it is taken or the JVM ends. Clients, signals and what
  back ends print are not fair. That a compilation ends is an assumption (a
  cycle in the scheduling loop is an input for which it does not), and
  `RequestsEnd` is under it.

The remaining specifications have no liveness property and no fairness. Runs say
`CHECK_DEADLOCK FALSE`, since an input may end anywhere, a link ends, a JVM
exits, and a compilation may hang as described above.

## Proofs

Each proof module EXTENDS the module it is about. All theorems hold for any
values of the constants that satisfy the named assumptions
(`SymbolTableAssumption`, `CodeLabelsAssumption`, `LinkerAssumption`,
`TagTableAssumption`, `DriverAssumption`, `CompileServerAssumption`,
`ReentrantLinkAssumption`): any number of names, declarations, modules, files,
clients, and any bounds. Those about the run-time library hold for any widths of
the types that satisfy `WidthAssumption` (what C requires, and an int two bits
wider than a short) and `BinaryAssumption` (they are widths of binary integers),
any length of vectors (`ElemAssumption`), any operands and anything an undefined
operation leaves (`OperandAssumption`). The type invariants of modules whose run
does not list `TypeOK` are theorems too.

**`SymbolTable_proofs`**: `TypeCorrect`, `FlushedAreAttached`,
`BrothersAreTheEntity`, `DeclarationsStay`, `DefinitionsAreFound`,
`OverloadsAreApart`, `BuiltinsStay`, `ClosedScopesStayFrozen`,
`TableIsEnvironment`, which are all properties of the runs on the ordinary name
space. `TableInv` adds to the types that a symbol under a key was declared with
that key and that an entry has no duplicates (`KeptOK`), that vectors are
disjoint, of one key and kind (`VectorsOK`), and that the table holds exactly
one member of each vector (`OneKept`), which is what "attached" comes down to.
Every branch of every operation is one of few effects: the walk stops, the new
symbol is refused, enters the table, or joins the brothers of a symbol there,
and then either stays aside or takes its place (`Effect`). The lemmas about
operations (`ObjectEffect`, `FunctionEffect`, ...) show which effect they have,
`StepEffect` has a step per action, and each property has a lemma that the
effects preserve it. That overloads stay apart needs care, since `f()` makes
equivalence not transitive: the parameters of a definition that replaces an
overload are known. `ClosedScopesStayFrozen` is an action property, from what
each operation may change; `BuiltinsStay` is one too, and needs the invariant.
`TableIsEnvironment` is the refinement of `ScopedEnvironment`. The flat map
never forgets a closed scope, so that a scope that opens shows an empty frame
only if its name is new: `PathsUsed` says that whatever holds a declaration was
opened, under a number already taken, and `DefinitionInnermost` that the number
of a function definition is taken only at its end, while nothing but parameter
lists opens (`ScopesInv` is both). `ScopeOpens`, `ScopeCloses` and
`DeclarationBinds` then say what each effect does to the frames, and
`FramesStep` has a step per action.

**`CodeLabels_proofs`**: `LabelsTypeCorrect`, `NoDanglingJump`. `LabelInv` is
the conjunction of the two properties, and inductive.

**`Linker_proofs`**: `TypeCorrect`, `PrototypesAreResolved`,
`ClashesAreReported`, `MarkedIsDefined` (what is marked is defined by the
program, at any point of the link). `LinkInv` relates the position in the
modules to the global table (`GlobalTable`: it holds the functions exported by
the names already processed, and no other) and to the marks made so far
(`Marks`). `Clashes` adds that a function exported by an earlier module and data
of a later one are still unread or counted as an error: it relies on
`GlobalTable` for the table holding the function by then.

**`TagExtraction_proofs`**: `TagTypeCorrect`, `TagsHaveOneType`,
`FlushedTagsAreAttached`, `CyclesNeedNesting`, `ParentsComeFirst`,
`NewTagNamesAgree`, `DefinitionsAreMoved`. `TagInv` is about the tags being
read: `TableInv` adds to three of the properties that each tag is kept under its
own key (`Keyed`); `BodyInv`, that all bodies but the outermost are of nested
tags (`BodiesNest`), that a tag has no parents until its body ends
(`NoParentsYet`), and that a tag that is not nested references only nested ones
or ones older than it (`ParentsNest`). If a tag needed itself and no nested one,
all the tags it needs would reference older ones only; those older than itself
would then be closed under parents, and by the definition of `Ancestors` it
would be one of them. `OrderInv` says that the set still to be scheduled and
what is scheduled together contain the parents of both, so that a tag with no
parent left in the set has them all in earlier rounds; it holds whatever cycles
there are among the tags that stay. `RenameInv` says that brothers have one new
name and nobody else has it, and `NeedsInv` follows the tags that the instance
data name, and the definitions that their specifiers need, from the declaration
through the collection and the rounds to the moves.

**`Driver_proofs`**: `DriverTypeCorrect`, `PipesAgree`, `SuccessMeansWhole`,
`TempDirIsDeleted`. `DriverInv` ties each process's place to the files: where
the main thread is determines what each file holds (`WriterOK`), the files the
back end has gone through are those that were opened (`ReaderOK`), and so both
are at the same file when both wait to open one. `StagesOK` says in which stages
there is a back end, `ReadOK` what it has read, `EndOK` how an exit status comes
about and, for `TempDirIsDeleted`, what each of the two deleters has left: a
deletion that fails without a refusal of the file system has met another one or
a new file, which only happens beside a signal. Each part has a lemma with one
step per action.

**`CompileServer_proofs`**: `ServerTypeCorrect`, `MessagesAreSeparate`,
`DirectoriesAreDeleted`, `StreamsAreRestored`. `TurnInv` is the protocol that
keeps the compilers' messages apart (the back ends' lines it does not, see
`server_streams`): only the thread the main thread joins is alive, only a thread
that joins has a compiler, and while that compiler runs the streams are its own.
`DirInv` adds that a client is served once, that a broken answer ends its
thread, and that a registered directory is that of the compiler at work, of one
that died, or the server's. `StreamInv` follows the streams: what a compiler has
saved (`SavedAtRest`) is the console's or the buffer of one that died, whose
broken answer is its client's last (`BrokenStays`).

**`ReentrantLink_proofs`**: `ReentrantTypeCorrect`, `NewNamesAreDistinct`,
`StructureIsBuilt`, which is the refinement of `InstanceStructure`,
`ExternsAreResolved`, `MeaningIsKept`, `CallsPassThis`, `ErrorsAreClashes`. For
the members to be distinct variables, the list must have distinct new names
(`Counted`: every number in use is at most the counter; `NewNamesDiffer`), and
symbols of one name must denote one variable (`Uniform`); `Listed` and
`ListKinds` tie the list and the sets still to be processed to the global table.
`IInv` is their conjunction. The last four theorems compare C's reading of a
whole program with what the link made of it, and need two more invariants.
`WalkInv`: static variables have new names, functions have none, an `extern`
declaration has one only from a static variable of its file, and one entry has
one function definition at most. `LinkInv`: what the lists already linked have
left, that is, definitions are in the table under their names and marked with
their brothers (`GlobalOK`, `LinkedOK`), everything marked is so for a reason
(`MarkedOK`), and an error comes from two definitions of one name (`ErrorsOK`).
The rest is about the final state: `SameEntity`, `PlainData` and `PlainExtern`
say which entity a symbol denotes from its entry and its new name, `DataMarked`
and `DefinitionKept` that the marks are those of the entity.

**`VectorRuntime_proofs`**: `ArithmeticExactly`, `MasksAreRead`,
`DivisionsExactly`, `ElementsLikeWhole`, `RotationsExactly`. One lemma per
function (`AddSatExact`, `AbsDiffExact`, `ConvertExact`, `DIVExact` and their
kin) shows that the set of its values is the one exact value, by cases on signs
and on whether the type is promoted; the invariant `IInv` carries them through
the calls. `MaskInv` adds what the last comparison left, which a selection,
`any` and `all` read (`MaskBit`); `SetInv` that nothing traps but an assignment
to chosen elements, and what that leaves. `RotateExact` writes an element as `q
* 2^(w-l) + r`, and follows `q` to the bottom and `r` to the top through the
promotion, the shift and the two stores. It needs `2^(m+n) = 2^m * 2^n`
(`PowerOfSum`), for which there is no induction here: the subsets of `1..m+n`
are the pairs of a subset of each part, and the library's `FS_SUBSET` counts
them. (The library's own proof of that theorem takes `2^(n+1) = 2^n + 2^n` for
granted.)

Only model-checked: liveness (`ExtractionEnds`, `CompilationEnds`,
`RequestsEnd`), which is out of the prover's reach: it has no rules for
fairness, which rests on ENABLED. All other properties of the passing runs are
theorems.

## What is not modelled, and the plan

What could follow, most useful first:

1. Enum tags, typedefs and static prototypes in `TagTable` and `TagExtraction`.
2. `TypeLayout` and `Literals`: sizes, alignments, usual conversions, character
   and integer constants, as functions checked against reference definitions
   with their widths.
3. The rest of the integer run-time library (shifts, `clz`, `mul_hi`,
   `upsample`, `min`, `max`, `clamp`, increments, vector literals).
4. Small protocols: `ExecHelper.splitOptionString`, the integers of
   `ProxyProtocol`, the count of errors that outlives a request of the server.

Not planned: grammars and emitters (`*.g` other than the declarations part of
`SymbolTableBuilder.g`), which are syntax and text; the trees of `ir/base`,
which carry data; the lists of OpenCL builtins, which are data; messages; the
typing of expressions; initialisers and the text of the files that the reentrant
compiler generates; floating-point functions of the run-time library, which need
a model of IEEE arithmetic; the example programs (a video codec of a third
party, by far the most C in the repository) and the test programs, which are
inputs of the compiler and not parts of it. Template functions in the symbol
table, which no input of the C front end creates, are left out of `SymbolTable`.
