------------------------------- MODULE Linker -------------------------------
(***************************************************************************)
(* The link of the modules of a program (ir/symboltable/Linker.java, run):  *)
(* a first pass over the definitions of every module fills a global symbol  *)
(* table and reports what is defined twice; a second pass marks, in every   *)
(* module, the prototypes and extern declarations that another module of    *)
(* the program defines ("program internal").                                *)
(*                                                                          *)
(* What the link sees of a module is what its symbol table holds at file    *)
(* scope: one declaration per name (module SymbolTable).                    *)
(***************************************************************************)
EXTENDS Integers, FiniteSets

CONSTANTS
  NbModules,     \* the modules are numbered in the order they were added
  Names,
  MaxErrors      \* CompilerError.nbMaxErrors

ASSUME LinkerAssumption == NbModules \in Nat /\ MaxErrors \in Nat \ {0}

Modules == 1..NbModules

\* What a module may hold under a name.
FunctionDefinitions == {"function", "static function"}
DataDefinitions     == {"data", "static data"}
References          == {"prototype", "extern data"}
Declarations == {"nothing"} \cup FunctionDefinitions \cup DataDefinitions \cup References

VARIABLES
  optionLink,          \* --forcelink
  declared,            \* the symbol tables: module -> name -> declaration
  pass,                \* "definitions", "references", "done" or "aborted"
  module,              \* the module being processed
  todo,                \* its names still to be processed, in any order
  globalSymbolTable,   \* name -> "function" or "data", once it has one
  errorSet,            \* names already reported as defined twice
  programInternal,     \* the <<module, name>> marked so
  errors, warnings

input == <<optionLink, declared>>
vars == <<input, pass, module, todo, globalSymbolTable, errorSet,
          programInternal, errors, warnings>>

\* getListOfFunctionDataDefinitionSymbol, getListOfFunctionDataReferenceSymbol
DefinitionList(m) == {n \in Names : declared[m][n] \in FunctionDefinitions \cup DataDefinitions}

\* Mutation of ReferenceList: prototypes are forgotten.
ExternList(m)     == {n \in Names : declared[m][n] = "extern data"}

ReferenceList(m)  == {n \in Names : declared[m][n] \in References}

Init == /\ optionLink \in BOOLEAN
        /\ declared \in [Modules -> [Names -> Declarations]]
        /\ pass = "definitions" /\ module = 1
        /\ todo = IF NbModules = 0 THEN {} ELSE DefinitionList(1)
        /\ globalSymbolTable = [n \in {} |-> "function"]
        /\ errorSet = {} /\ programInternal = {}
        /\ errors = 0 /\ warnings = 0

\* The next module, or the next pass.
NextModule ==
  /\ pass \in {"definitions", "references"} /\ todo = {}
  /\ IF module < NbModules
     THEN /\ module' = module + 1
          /\ pass' = pass
     ELSE /\ module' = 1
          /\ pass' = IF pass = "definitions" /\ NbModules > 0 THEN "references" ELSE "done"
  /\ todo' = CASE pass' = "definitions" -> DefinitionList(module')
               [] pass' = "references"  -> ReferenceList(module')
               [] pass' = "done"        -> {}
  /\ UNCHANGED <<input, globalSymbolTable, errorSet, programInternal, errors, warnings>>

NoMessage == UNCHANGED <<errors, warnings, pass>>
RaiseWarning == warnings' = warnings + 1 /\ UNCHANGED <<errors, pass>>

\* Throws CompilerExit, out of the link, once MaxErrors errors are counted.
RaiseError == /\ errors' = errors + 1
              /\ pass' = IF errors' >= MaxErrors THEN "aborted" ELSE pass
              /\ UNCHANGED warnings

Mark(n) == programInternal' = programInternal \cup {<<module, n>>}

\* addFunction of the global symbol table, with canRedefine.
LinkFunction(n) ==
  /\ UNCHANGED errorSet
  /\ IF n \notin DOMAIN globalSymbolTable
     THEN /\ globalSymbolTable' = [k \in DOMAIN globalSymbolTable \cup {n} |->
                                     IF k = n THEN "function" ELSE globalSymbolTable[k]]
          /\ NoMessage
     ELSE /\ IF globalSymbolTable[n] = "function" THEN RaiseWarning ELSE RaiseError
          /\ UNCHANGED globalSymbolTable

\* Mutation of LinkData: the option works the other way round.
LinkDataReversed(n) ==
  /\ UNCHANGED globalSymbolTable
  /\ CASE n \notin DOMAIN globalSymbolTable -> NoMessage /\ UNCHANGED errorSet
       [] n \in DOMAIN globalSymbolTable /\ n \notin errorSet ->
            /\ errorSet' = errorSet \cup {n}
            /\ IF optionLink THEN RaiseError ELSE RaiseWarning
       [] OTHER -> RaiseError /\ UNCHANGED errorSet

\* The branch that adds a data definition to the global table is reached only
\* when the name is there already, and has been reported; addObjectLabel then
\* finds a function, and refuses.
LinkData(n) ==
  /\ UNCHANGED globalSymbolTable
  /\ CASE n \notin DOMAIN globalSymbolTable -> NoMessage /\ UNCHANGED errorSet
       [] n \in DOMAIN globalSymbolTable /\ n \notin errorSet ->
            /\ errorSet' = errorSet \cup {n}
            /\ IF optionLink THEN RaiseWarning ELSE RaiseError
       [] OTHER -> RaiseError /\ UNCHANGED errorSet

LinkDefinition(n) ==
  LET d == declared[module][n]
  IN  /\ pass = "definitions" /\ n \in todo
      /\ todo' = todo \ {n}
      /\ Mark(n)
      /\ CASE d = "function" -> LinkFunction(n)
           [] d = "data"     -> LinkData(n)
           [] OTHER -> NoMessage /\ UNCHANGED <<globalSymbolTable, errorSet>>
      /\ UNCHANGED <<input, module>>

LinkReference(n) ==
  /\ pass = "references" /\ n \in todo
  /\ todo' = todo \ {n}
  /\ IF n \in DOMAIN globalSymbolTable THEN Mark(n) ELSE UNCHANGED programInternal
  /\ UNCHANGED <<input, pass, module, globalSymbolTable, errorSet, errors, warnings>>

Next == NextModule \/ \E n \in Names : LinkDefinition(n) \/ LinkReference(n)

Spec == Init /\ [][Next]_vars

-----------------------------------------------------------------------------
(* Properties.                                                              *)

Exports(n, d) == \E m \in Modules : declared[m][n] = d

TypeOK ==
  /\ declared \in [Modules -> [Names -> Declarations]]
  /\ optionLink \in BOOLEAN
  /\ pass \in {"definitions", "references", "done", "aborted"}
  /\ module \in Nat \ {0} /\ todo \subseteq Names
  /\ DOMAIN globalSymbolTable \subseteq Names
  /\ \A n \in DOMAIN globalSymbolTable : globalSymbolTable[n] = "function"
  /\ errorSet \subseteq Names
  /\ programInternal \subseteq Modules \X Names
  /\ errors \in Nat /\ warnings \in Nat

\* The link ends by telling, for each prototype of each module, whether the
\* program defines the function: it is program internal exactly when some
\* module, before or after it, exports a definition.  A static function of
\* another module never counts.
PrototypesResolved ==
  pass = "done" => \A m \in Modules, n \in Names :
    declared[m][n] = "prototype" =>
      (<<m, n>> \in programInternal <=> Exports(n, "function"))

\* Nothing is program internal unless the program defines it: at any point of
\* the link, a marked name is defined in its module or exported by one.
InternalIsDefined ==
  \A mn \in programInternal :
    \/ declared[mn[1]][mn[2]] \in FunctionDefinitions \cup DataDefinitions
    \/ Exports(mn[2], "function") \/ Exports(mn[2], "data")

\* A name that one module exports as a function and a later one as data stops
\* the compilation, unless the link is forced.
ClashReported ==
  pass = "done" /\ ~optionLink =>
    \A m1, m2 \in Modules, n \in Names :
      m1 < m2 /\ declared[m1][n] = "function" /\ declared[m2][n] = "data"
        => errors > 0
=============================================================================
