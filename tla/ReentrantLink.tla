---------------------------- MODULE ReentrantLink ----------------------------
(***************************************************************************)
(* The reentrant compiler (driver/ReentrantC2C.java,                        *)
(* engine/ReentrantEngine.java): the tree walk of each module takes the     *)
(* variables that live as long as the program ("instance data") out of it,  *)
(* under new names when they are static; the link                           *)
(* (ir/symboltable/ExtractionLinker.java) makes them the members of one     *)
(* structure, DATA, and marks what the program defines itself ("program     *)
(* internal"): a reference to internal data is then printed as DATA.<name>, *)
(* and an internal function takes and is passed a parameter _this that      *)
(* points to the structure.                                                 *)
(*                                                                          *)
(* A declaration that the symbol table refuses ends the compilation before  *)
(* the link (module SymbolTable), so the walk meets only those it accepts.  *)
(* Variables are scalars of one type.                                       *)
(***************************************************************************)
EXTENDS Integers, Sequences, FiniteSets

CONSTANTS
  NbModules,      \* the modules are numbered in the order of the command line
  Names,
  MaxErrors,      \* CompilerError.nbMaxErrors
  MaxSymbols      \* bound: declarations of the program, extracted tags included

ASSUME ReentrantLinkAssumption ==
  NbModules \in Nat \ {0} /\ MaxErrors \in Nat \ {0} /\ MaxSymbols \in Nat

Modules == 1..NbModules

\* Kinds of declarations.  Each block declaration has a block of its own.
DataDefinitions     == {"data", "static data", "block static data"}
ExternData          == {"extern data", "block extern data"}
Data                == DataDefinitions \cup ExternData
FunctionDefinitions == {"function", "static function"}
Prototypes          == {"prototype", "static prototype", "block prototype"}
Functions           == FunctionDefinitions \cup Prototypes
Statics == {"static data", "block static data", "static function", "static prototype"}
Blocks  == {"block static data", "block extern data", "block prototype"}
Kinds   == Data \cup Functions \cup {"tag"}

VARIABLES
  optionLink,        \* --forcelink
  symbols,           \* the symbols of all modules, in the order of creation
  pass,              \* see Passes
  module,            \* the module the walk is in, or the list being linked is of
  mangling_counter,  \* of the symbol table of the module, handed on to the next
  todo,              \* the symbols of the list being linked still to be processed
  globalSymbolTable, \* names printed in the output -> "data" or "function"
  globalInstanceDataList,  \* the symbols that are the members of DATA
  programInternal,   \* the symbols marked so
  nullified,         \* the extern declarations taken out of the output
  errors, warnings

link == <<globalSymbolTable, globalInstanceDataList, programInternal, nullified>>
vars == <<optionLink, symbols, pass, module, mangling_counter, todo, link,
          errors, warnings>>

Passes == {"walk", "data", "extern", "definitions", "prototypes", "done", "failed"}

\* A symbol; 'rename' is the number in the prefix _M<number>_ of its new name,
\* 0 if it has none.
Symbol(m, k, n, r) == [module |-> m, kind |-> k, name |-> n, rename |-> r]

Ids == DOMAIN symbols
Is(i, kinds) == symbols[i].kind \in kinds
getName(i) == <<symbols[i].rename, symbols[i].name>>

\* The declarations of a name at file scope, of a module, with those of i.
SameEntry(i, j) ==
  /\ symbols[i].module = symbols[j].module /\ symbols[i].name = symbols[j].name
  /\ {symbols[i].kind, symbols[j].kind} \cap (Blocks \cup {"tag"}) = {}

Brothers(i) == {i} \cup {j \in Ids : SameEntry(i, j)}

\* The symbol table holds the first declaration, until a definition comes.
Definitions == DataDefinitions \cup FunctionDefinitions
Kept(i) ==
  /\ \A j \in Brothers(i) : j < i => Is(i, Definitions) /\ ~Is(j, Definitions)
  /\ \A j \in Brothers(i) : Is(j, Definitions) => Is(i, Definitions)

-----------------------------------------------------------------------------
(* The tree walk of a module, in extraction mode.                           *)

\* Mutation of Mangled: static variables of a file keep their names.
MangledInBlocks(k) == k = "block static data"

Mangled(k) == k \in Statics \cap Data

\* Mutation of Renamed: the new symbol alone is renamed.
RenamedAlone(s, r) == symbols

\* A new static symbol takes a new name with all its brothers, through the
\* vector they share; the brothers it will have later are not renamed.
Renamed(s, r) ==
  [i \in Ids |-> IF /\ s.kind = "static data" /\ symbols[i].kind \in Data \ Blocks
                    /\ symbols[i].module = s.module /\ symbols[i].name = s.name
                 THEN [symbols[i] EXCEPT !.rename = r] ELSE symbols[i]]

\* What the symbol table accepts in file scope, besides what is there.
Accepts(k, n) ==
  \A i \in Ids : symbols[i].module = module /\ symbols[i].name = n /\ ~Is(i, Blocks) =>
    /\ k \in Data <=> Is(i, Data)
    /\ ~(k \in FunctionDefinitions /\ Is(i, FunctionDefinitions))
    /\ k \in DataDefinitions /\ Is(i, DataDefinitions) => symbols[i].kind = k

Declare(k, n) ==
  /\ pass = "walk" /\ Len(symbols) < MaxSymbols
  /\ k # "tag"
  /\ k \in Blocks \/ Accepts(k, n)
  /\ LET r == IF Mangled(k) THEN mangling_counter + 1 ELSE 0
         s == Symbol(module, k, n, r)
     IN  /\ symbols' = Append(Renamed(s, r), s)
         /\ mangling_counter' = IF Mangled(k) THEN r ELSE mangling_counter
  /\ UNCHANGED <<optionLink, pass, module, todo, link, errors, warnings>>

\* Mutation of EndModule: the next module counts from 0 again.
EndModuleRestart(tags) ==
  /\ pass = "walk" /\ Len(symbols) + Len(tags) <= MaxSymbols
  /\ symbols' = symbols \o [t \in DOMAIN tags |->
                    Symbol(module, "tag", tags[t], mangling_counter + t)]
  /\ mangling_counter' = 0
  /\ IF module < NbModules
     THEN /\ module' = module + 1 /\ UNCHANGED <<pass, todo>>
     ELSE /\ module' = 1 /\ pass' = "data"
          /\ todo' = {i \in DOMAIN symbols' : symbols'[i].kind \in DataDefinitions}
  /\ UNCHANGED <<optionLink, link, errors, warnings>>

\* The end of a module: the tags that its instance data need are moved out of
\* it, under new names (module TagExtraction).
EndModule(tags) ==
  /\ pass = "walk" /\ Len(symbols) + Len(tags) <= MaxSymbols
  /\ symbols' = symbols \o [t \in DOMAIN tags |->
                    Symbol(module, "tag", tags[t], mangling_counter + t)]
  /\ mangling_counter' = mangling_counter + Len(tags)
  /\ IF module < NbModules
     THEN /\ module' = module + 1 /\ UNCHANGED <<pass, todo>>
     ELSE /\ module' = 1 /\ pass' = "data"
          /\ todo' = {i \in DOMAIN symbols' : symbols'[i].kind \in DataDefinitions}
  /\ UNCHANGED <<optionLink, link, errors, warnings>>

-----------------------------------------------------------------------------
(* The link.                                                                *)

NoMessage == UNCHANGED <<errors, warnings, pass>>
RaiseWarning == warnings' = warnings + 1 /\ UNCHANGED <<errors, pass>>

\* Throws CompilerExit, out of the link, once MaxErrors errors are counted.
RaiseError == /\ errors' = errors + 1
              /\ pass' = IF errors' >= MaxErrors THEN "failed" ELSE pass
              /\ UNCHANGED warnings

\* The lists of instance data and of extern declarations are in the order of
\* the modules and their declarations; those of functions come from a table.
First(i) == i \in todo /\ \A j \in todo : i <= j

\* Mutation of setProgramInternal: the symbol after is marked.
setNextInternal(i) == programInternal' = programInternal \cup {i + 1}

setProgramInternal(i) == programInternal' = programInternal \cup Brothers(i)

Enter(name, entity) ==
  globalSymbolTable' = [k \in DOMAIN globalSymbolTable \cup {name} |->
                          IF k = name THEN entity ELSE globalSymbolTable[k]]

\* Mutation of Redefinition: the option works the other way round.
RedefinitionReversed == IF optionLink THEN RaiseError ELSE RaiseWarning

Redefinition == IF optionLink THEN RaiseWarning ELSE RaiseError

LinkInstanceData(i) ==
  /\ pass = "data" /\ First(i)
  /\ todo' = todo \ {i}
  /\ setProgramInternal(i)
  /\ IF getName(i) \in DOMAIN globalSymbolTable
     THEN /\ Redefinition
          /\ UNCHANGED <<globalSymbolTable, globalInstanceDataList>>
     ELSE /\ NoMessage
          /\ Enter(getName(i), "data")
          /\ globalInstanceDataList' = Append(globalInstanceDataList, i)
  /\ UNCHANGED <<optionLink, symbols, module, mangling_counter, nullified>>

\* Mutation of LinkExtern: the declaration goes, the symbol is not marked.
LinkExternUnmarked(i) ==
  /\ pass = "extern" /\ First(i)
  /\ todo' = todo \ {i}
  /\ nullified' = IF getName(i) \in DOMAIN globalSymbolTable
                  THEN nullified \cup {i} ELSE nullified
  /\ NoMessage
  /\ UNCHANGED <<optionLink, symbols, module, mangling_counter, programInternal,
                 globalSymbolTable, globalInstanceDataList>>

LinkExtern(i) ==
  /\ pass = "extern" /\ First(i)
  /\ todo' = todo \ {i}
  /\ IF getName(i) \in DOMAIN globalSymbolTable
     THEN setProgramInternal(i) /\ nullified' = nullified \cup {i}
     ELSE UNCHANGED <<programInternal, nullified>>
  /\ NoMessage
  /\ UNCHANGED <<optionLink, symbols, module, mangling_counter,
                 globalSymbolTable, globalInstanceDataList>>

\* Mutation of isModuleVisibility: static functions are seen by all modules.
NoModuleVisibility(i) == FALSE

isModuleVisibility(i) == Is(i, Statics)

\* addFunction of the global symbol table, with canRedefine.
LinkDefinition(i) ==
  /\ pass = "definitions" /\ i \in todo
  /\ todo' = todo \ {i}
  /\ setProgramInternal(i)
  /\ CASE isModuleVisibility(i) -> NoMessage /\ UNCHANGED globalSymbolTable
       [] ~isModuleVisibility(i) /\ getName(i) \notin DOMAIN globalSymbolTable ->
            NoMessage /\ Enter(getName(i), "function")
       [] OTHER ->
            /\ IF globalSymbolTable[getName(i)] = "function" THEN RaiseWarning ELSE RaiseError
            /\ UNCHANGED globalSymbolTable
  /\ UNCHANGED <<optionLink, symbols, module, mangling_counter,
                 globalInstanceDataList, nullified>>

LinkPrototype(i) ==
  /\ pass = "prototypes" /\ i \in todo
  /\ todo' = todo \ {i}
  /\ IF getName(i) \in DOMAIN globalSymbolTable
     THEN setProgramInternal(i) ELSE UNCHANGED programInternal
  /\ NoMessage
  /\ UNCHANGED <<optionLink, symbols, module, mangling_counter,
                 globalSymbolTable, globalInstanceDataList, nullified>>

\* getListOfFunctionDefinitionLabels and getListOfFunctionPrototypeLabels of
\* the table of a module.
FunctionList(m, kinds) == {i \in Ids : symbols[i].module = m /\ Is(i, kinds) /\ Kept(i)}

\* Mutation of ExternList: the declarations in blocks are forgotten.
FileExternList == {i \in Ids : Is(i, {"extern data"})}

ExternList == {i \in Ids : Is(i, ExternData)}

\* The next module, or the next list; errors end the compilation at the end.
NextList ==
  /\ pass \in Passes \ {"walk", "done", "failed"} /\ todo = {}
  /\ \/ /\ pass = "data"
        /\ pass' = "extern" /\ module' = 1 /\ todo' = ExternList
     \/ /\ pass = "extern"
        /\ pass' = "definitions" /\ module' = 1
        /\ todo' = FunctionList(1, FunctionDefinitions)
     \/ /\ pass \in {"definitions", "prototypes"} /\ module < NbModules
        /\ pass' = pass /\ module' = module + 1
        /\ todo' = FunctionList(module', IF pass = "definitions" THEN FunctionDefinitions
                                                                 ELSE Prototypes)
     \/ /\ pass = "definitions" /\ module = NbModules
        /\ pass' = "prototypes" /\ module' = 1
        /\ todo' = FunctionList(1, Prototypes)
     \/ /\ pass = "prototypes" /\ module = NbModules
        /\ pass' = IF errors > 0 THEN "failed" ELSE "done"
        /\ UNCHANGED <<module, todo>>
  /\ UNCHANGED <<optionLink, symbols, mangling_counter, link, errors, warnings>>

Init ==
  /\ optionLink \in BOOLEAN
  /\ symbols = <<>> /\ pass = "walk" /\ module = 1 /\ mangling_counter = 0
  /\ todo = {}
  /\ globalSymbolTable = [n \in {} |-> "data"]
  /\ globalInstanceDataList = <<>>
  /\ programInternal = {} /\ nullified = {}
  /\ errors = 0 /\ warnings = 0

Next ==
  \/ \E k \in Kinds, n \in Names : Declare(k, n)
  \/ \E tags \in {<<>>} \cup {<<n>> : n \in Names} : EndModule(tags)
  \/ NextList
  \/ \E i \in Ids :
       LinkInstanceData(i) \/ LinkExtern(i) \/ LinkDefinition(i) \/ LinkPrototype(i)

Spec == Init /\ [][Next]_vars

-----------------------------------------------------------------------------
(* What the C standard (6.2.2) makes of the declarations: the variable or   *)
(* function that a symbol denotes, <<module, name, block>>, with 0 for what *)
(* it is not limited to.                                                    *)

Static(m, n, i) ==
  \E j \in Ids : /\ j <= i /\ symbols[j].module = m /\ symbols[j].name = n
                 /\ Is(j, Statics \ Blocks)

Entity(i) ==
  LET m == symbols[i].module
      n == symbols[i].name
  IN  CASE symbols[i].kind = "block static data" -> <<m, n, i>>
        [] symbols[i].kind # "block static data" /\ Static(m, n, i) -> <<m, n, 0>>
        [] OTHER -> <<0, n, 0>>

Entities == (0..NbModules) \X Names \X (0..MaxSymbols)

\* A declaration without 'static' of what an earlier one made static.
Inherits(i) == ~Is(i, Statics) /\ Entity(i)[1] # 0

Defined(kinds, e) == \E j \in Ids : Is(j, kinds) /\ Entity(j) = e

\* The rest is undefined in C: a name with linkage has one in each module, an
\* entity is a variable or a function, and a static function has a definition.
WellFormed ==
  /\ \A i, j \in Ids : {symbols[i].kind, symbols[j].kind} \cap {"tag", "block static data"} = {}
                        /\ symbols[i].name = symbols[j].name =>
       /\ symbols[i].module = symbols[j].module => Entity(i) = Entity(j)
       /\ Entity(i) = Entity(j) => (Is(i, Data) <=> Is(j, Data))
  /\ \A i \in Ids : Is(i, {"static prototype"}) => Defined(FunctionDefinitions, Entity(i))

\* Not followed by the code: a function is static if an earlier prototype alone
\* says so.  Such a function is entered in the global table.
StaticsSaySo == \A i \in Ids : Is(i, FunctionDefinitions) => ~Inherits(i)

\* What EmitterReentrant prints for a use of a variable.
Printed(i) == <<i \in programInternal, getName(i)>>

-----------------------------------------------------------------------------
(* Properties.                                                              *)

TypeOK ==
  /\ optionLink \in BOOLEAN
  /\ symbols \in Seq([module : Modules, kind : Kinds, name : Names, rename : Nat])
  /\ pass \in Passes /\ module \in Modules /\ mangling_counter \in Nat
  /\ todo \subseteq Ids
  /\ DOMAIN globalSymbolTable \subseteq Nat \X Names
  /\ \A n \in DOMAIN globalSymbolTable : globalSymbolTable[n] \in {"data", "function"}
  /\ globalInstanceDataList \in Seq({i \in Ids : Is(i, DataDefinitions)})
  /\ programInternal \subseteq Ids /\ nullified \subseteq Ids
  /\ errors \in Nat /\ warnings \in Nat

\* The numbers of new names are handed from module to module: two symbols of a
\* program that were renamed, variables or tags, have different names unless
\* they are declarations of one static variable.
NewNamesDiffer ==
  \A i, j \in Ids :
    i # j /\ symbols[i].rename # 0 /\ getName(i) = getName(j) => SameEntry(i, j)

\* Extraction and link keep the meaning of every use of a variable: two uses,
\* in any modules, are printed alike exactly when they denote one variable.
\* The exception is 'extern' in a block for a static variable of the file: it
\* keeps the old name.
UsesKeepTheirMeaning ==
  pass = "done" /\ WellFormed =>
    \A i, j \in Ids :
      /\ Is(i, Data) /\ ~Inherits(i)
      /\ Is(j, Data) /\ ~Inherits(j)
      => (Printed(i) = Printed(j) <=> Entity(i) = Entity(j))

\* The declaration of a variable that the program defines, in whatever module
\* and order, is taken out of the output, and no other.
ExternsResolved ==
  pass = "done" /\ WellFormed =>
    \A i \in Ids : Is(i, ExternData) /\ ~Inherits(i) =>
      (i \in nullified <=> Defined(DataDefinitions, Entity(i)))

\* A call passes _this exactly when the function called takes it, that is when
\* the program defines it.  The exception is a prototype in a block for a
\* static function.
CallsAgree ==
  pass = "done" /\ WellFormed /\ StaticsSaySo =>
    \A i \in Ids : Is(i, Functions) /\ ~Inherits(i) =>
      (i \in programInternal <=> Defined(FunctionDefinitions, Entity(i)))

\* The link refuses a program only for a variable with two definitions: static
\* variables of one name in several modules or blocks are no clash.  (Two
\* tentative definitions in one module are refused, although C has them as one.)
RefusedForCause ==
  errors > 0 /\ WellFormed /\ StaticsSaySo =>
    \E i, j \in Ids : i # j /\ Is(i, DataDefinitions) /\ Is(j, DataDefinitions)
                       /\ Entity(i) = Entity(j)

\* A program that two modules define a name in does not go through, unless both
\* are functions or both are variables and the link is forced.
ClashesRefused ==
  pass = "done" =>
    \A i, j \in Ids : i # j /\ Entity(i) = Entity(j) /\ Is(i, DataDefinitions) =>
      /\ ~(symbols[j].kind = "function" /\ ~Inherits(j))
      /\ Is(j, DataDefinitions) => optionLink

\* What the link refuses are clashes of definitions, and it lets none pass.
ClashesAreTheErrors == RefusedForCause /\ ClashesRefused

\* The list of instance data is the one structure of the program.
Structure == INSTANCE InstanceStructure WITH
               Variables <- Entities,
               members <- [k \in DOMAIN globalInstanceDataList |->
                             Entity(globalInstanceDataList[k])]

\* Every behaviour of the compiler builds one structure, with one member for a
\* variable, however many symbols and modules declare it.
ImplementsStructure == Structure!Spec
=============================================================================
