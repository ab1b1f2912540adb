---------------------------- MODULE SymbolTable ----------------------------
(***************************************************************************)
(* The ordinary name space of the symbol table of one compilation unit      *)
(* (ir/symboltable/SymbolTable.java), driven by the declarations, the scope *)
(* openings and the pragmas that the tree walk of SymbolTableBuilder.g      *)
(* meets.  The table is one flat map whose key is the path of open scopes   *)
(* followed by the name.  A second declaration of a name in a scope either  *)
(* stays out of the table ("flushed") or takes the place of the first; both *)
(* are linked as "brothers", through one vector they share.                 *)
(*                                                                          *)
(* Tags and code labels have tables of their own: modules TagTable and      *)
(* CodeLabels.                                                              *)
(***************************************************************************)
EXTENDS Integers, Sequences, FiniteSets

CONSTANTS
  Names,        \* identifiers of the ordinary name space
  Types,        \* classes of equivalent object types
  Dims,         \* array shapes an object is declared with (see below)
  Storages,     \* storage classes an object is declared with
  Params,       \* parameter lists of functions, AnyParams among them
  AnyParams,    \* the empty list of 'f()', compatible with every list
  Kinds,        \* the kinds of symbols the walk declares
  Modes,        \* the pragmas met: subset of {"mangling", "builtin"}
  MaxErrors,    \* CompilerError.nbMaxErrors
  MaxSymbols, MaxPushes, MaxDepth  \* bounds: declarations, scopes, nesting

NoArray == -1   \* the object is not an array
Open    == 0    \* an array whose size is not given

ASSUME SymbolTableAssumption ==
  /\ Dims \subseteq {NoArray} \cup Nat
  /\ Storages \subseteq {"none", "static", "register", "auto", "extern"}
  /\ AnyParams \in Params
  /\ Kinds \subseteq {"object", "function", "enum", "typedef"}
  /\ Modes \subseteq {"mangling", "builtin"}
  /\ MaxErrors \in Nat \ {0}
  /\ MaxSymbols \in Nat /\ MaxPushes \in Nat /\ MaxDepth \in Nat

VARIABLES
  scopeStack,           \* names of the open scopes, outermost first
  context,              \* what each open scope is to the tree walk
  unnamedScopeCounter, paramlist_number, functiondef_number,
  symTable,             \* scoped name -> what the table holds under it
  symbols,              \* every Symbol object created, in creation order
  vectors,              \* every vector of brothers created, as a set
  flushed_list,         \* the symbols put out of the table
  modes,                \* the pragma modes that are on
  errors, aborted       \* errors raised; CompilerExit has been thrown

scopes == <<scopeStack, context, unnamedScopeCounter, paramlist_number,
            functiondef_number>>
table  == <<symTable, symbols, vectors, flushed_list, errors, aborted>>
vars   == <<scopes, table, modes>>

-----------------------------------------------------------------------------
(* Scope names: "<n>", "!<n>!<name>" and "#<n>#<name>".                     *)

BlockScope(n)             == <<"block", n>>
ParamListScope(n)         == <<"paramlist", n>>  \* <name> adds nothing to <n>
FunctionDefScope(n, name) == <<"functiondef", n, name>>

Front(s) == SubSeq(s, 1, Len(s) - 1)
isTopLevel == scopeStack = << >>

\* addCurrentScopeToName
Scoped(name) == <<scopeStack, name>>

\* lookupName: from the current scope outwards, one scope at a time.
Visible(name) == {i \in 0..Len(scopeStack) :
                    <<SubSeq(scopeStack, 1, i), name>> \in DOMAIN symTable}
Innermost(depths) == CHOOSE i \in depths : \A j \in depths : j <= i
LookupName(name) == symTable[<<SubSeq(scopeStack, 1, Innermost(Visible(name))),
                               name>>]

\* An entry holds one symbol, or the overloads of a mangled function
\* (MangledFunctionPseudoLabel).
Entry(id)        == [pseudo |-> FALSE, ids |-> <<id>>]
PseudoEntry(ids) == [pseudo |-> TRUE,  ids |-> ids]

Kept(entry) == {entry.ids[i] : i \in 1..Len(entry.ids)}

-----------------------------------------------------------------------------
(* The Symbol objects.                                                      *)

Symbol(kind, name, storage, type, dim, isDefinition) ==
  [kind |-> kind, name |-> name, path |-> scopeStack, storage |-> storage,
   type |-> type, dim |-> dim, isDefinition |-> isDefinition,
   mangled |-> kind = "function" /\ "mangling" \in modes,
   builtin |-> kind = "function" /\ "builtin" \in modes,
   brothers |-> 0]

isExtern(s)   == s.storage = "extern"
isComplete(s) == s.dim # Open
NewId         == Len(symbols) + 1
HasRoom       == ~aborted /\ Len(symbols) < MaxSymbols

\* Array dimensions are not compared, only that both are arrays.
EquivalentObjects(s, t) ==
  s.type = t.type /\ (s.dim = NoArray) = (t.dim = NoArray)

\* The return type is not compared, and 'f()' matches everything.
EquivalentFunctions(s, t) == s.type = t.type \/ AnyParams \in {s.type, t.type}

\* Mutation of StoreAsBrother: each pair of brothers gets a vector of its own.
StoreAsPair(old, new) ==
  LET v == Len(vectors) + 1
  IN  /\ vectors' = Append(vectors, {old, NewId})
      /\ symbols' = Append([symbols EXCEPT ![old].brothers = v],
                           [new EXCEPT !.brothers = v])

\* Mutation of StoreAsBrother: the new symbol points to a vector it is not in.
StoreOneWay(old, new) ==
  LET v == IF symbols[old].brothers = 0 THEN Len(vectors) + 1 ELSE symbols[old].brothers
  IN  /\ vectors' = IF v > Len(vectors) THEN Append(vectors, {old}) ELSE vectors
      /\ symbols' = Append([symbols EXCEPT ![old].brothers = v],
                           [new EXCEPT !.brothers = v])

\* The new symbol joins the vector of the old one, made if there is none.
StoreAsBrother(old, new) ==
  IF symbols[old].brothers = 0
  THEN LET v == Len(vectors) + 1
       IN  /\ vectors' = Append(vectors, {old, NewId})
           /\ symbols' = Append([symbols EXCEPT ![old].brothers = v],
                                [new EXCEPT !.brothers = v])
  ELSE LET v == symbols[old].brothers
       IN  /\ vectors' = [vectors EXCEPT ![v] = @ \cup {NewId}]
           /\ symbols' = Append(symbols, [new EXCEPT !.brothers = v])

StoreAlone(new) == symbols' = Append(symbols, new) /\ UNCHANGED vectors

Flush(id) == flushed_list' = flushed_list \cup {id}

Put(key, entry) == symTable' = [k \in DOMAIN symTable \cup {key} |->
                                  IF k = key THEN entry ELSE symTable[k]]

NoError == UNCHANGED <<errors, aborted>>

\* raiseError: throws CompilerExit once MaxErrors errors have been counted.
\* What the thrown handler leaves undone is never read again.
RaiseError == /\ errors' = errors + 1
              /\ aborted' = (errors + 1 >= MaxErrors)

\* A declaration refused with an error leaves the table as it was.
Refuse(new) == /\ RaiseError
               /\ StoreAlone(new)
               /\ UNCHANGED <<symTable, flushed_list>>

\* A fatal error ends the compilation on the spot.
FatalError == /\ errors' = errors + 1
              /\ aborted' = TRUE
              /\ UNCHANGED <<symTable, symbols, vectors, flushed_list>>

AddFirst(key, new, entry) == /\ Put(key, entry)
                             /\ StoreAlone(new)
                             /\ NoError
                             /\ UNCHANGED flushed_list

-----------------------------------------------------------------------------
(* addObjectLabel                                                           *)

\* At file scope the storage classes must agree, 'extern' aside.
StorageConflict(old, new) ==
  LET differs(s, t) == s.storage \in {"static", "register", "auto"}
                         /\ t.storage # s.storage
  IN  (~isExtern(new) /\ differs(old, new)) \/ (~isExtern(old) /\ differs(new, old))

ObjectRefused(old, new) ==
  \/ old.kind # "object"
  \/ isTopLevel /\ StorageConflict(old, new)
  \/ ~isTopLevel /\ ~isExtern(old) /\ ~isExtern(new)
  \/ ~EquivalentObjects(old, new)

\* Which of the two stays in the table.
ObjectReplaces(old, new) ==
  IF isExtern(old) THEN ~isExtern(new) ELSE ~isComplete(old) /\ isComplete(new)

addObjectLabel(new) ==
  LET key == Scoped(new.name)
  IN  \/ /\ key \notin DOMAIN symTable
         /\ AddFirst(key, new, Entry(NewId))
      \/ /\ key \in DOMAIN symTable
         /\ LET old == symTable[key].ids[1]
            IN  \/ /\ ObjectRefused(symbols[old], new)
                   /\ Refuse(new)
                \/ /\ ~ObjectRefused(symbols[old], new)
                   /\ IF ObjectReplaces(symbols[old], new)
                      THEN Put(key, Entry(NewId)) /\ Flush(old)
                      ELSE Flush(NewId) /\ UNCHANGED symTable
                   /\ StoreAsBrother(old, new)
                   /\ NoError

-----------------------------------------------------------------------------
(* addEnumConstant, addTypedef: never redeclared, not even by themselves.   *)

\* Mutation of addUnique: a redeclaration replaces the declaration.
addLast(new) == AddFirst(Scoped(new.name), new, Entry(NewId))

addUnique(new) ==
  LET key == Scoped(new.name)
  IN  IF key \in DOMAIN symTable THEN Refuse(new) ELSE AddFirst(key, new, Entry(NewId))

-----------------------------------------------------------------------------
(* addFunction                                                              *)

\* Mutation of EquivalentOverload: only the first overload is compared.
FirstOverload(ids, new) == IF EquivalentFunctions(symbols[ids[1]], new) THEN 1 ELSE 0

\* The overload of a mangled function the new declaration is about: the
\* first one in the list with an equivalent parameter list, 0 if none.
EquivalentOverload(ids, new) ==
  LET matching == {i \in 1..Len(ids) : EquivalentFunctions(symbols[ids[i]], new)}
  IN  IF matching = {} THEN 0
      ELSE CHOOSE i \in matching : \A j \in matching : i <= j

\* A declaration of an unmangled function for the table's mangled one is an
\* error, but is processed all the same.
MixingError(new) == IF new.mangled THEN NoError ELSE RaiseError

\* Mutation of RedefinesBuiltin: definitions are not looked at.
RedeclaresBuiltin(old, new) == old.builtin /\ ~new.builtin /\ ~new.isDefinition

RedefinesBuiltin(old, new) == old.builtin /\ ~new.builtin

\* Mutation of DefinesPrototype: the last declaration wins.
LastWins(old, new) == ~old.isDefinition \/ ~new.isDefinition

DefinesPrototype(old, new) == ~old.isDefinition /\ new.isDefinition

AddOverload(key, ids, new) ==
  /\ Put(key, PseudoEntry(Append(ids, NewId)))
  /\ StoreAlone(new)
  /\ MixingError(new)
  /\ UNCHANGED flushed_list

\* A function definition takes the place of a prototype, in its overload
\* list; every other declaration is flushed, save a second definition, which
\* is an error unless canRedefine: it is only linked.
ResolveOverload(key, ids, i, new, canRedefine) ==
  LET old == symbols[ids[i]]
      others == [j \in 1..(Len(ids) - 1) |-> IF j < i THEN ids[j] ELSE ids[j + 1]]
      redefined == old.isDefinition /\ new.isDefinition /\ ~canRedefine
      nb_errors == (IF new.mangled THEN 0 ELSE 1) + (IF redefined THEN 1 ELSE 0)
  IN  IF RedefinesBuiltin(old, new) THEN FatalError
      ELSE /\ StoreAsBrother(ids[i], new)
           /\ errors' = errors + nb_errors
           /\ aborted' = (errors' >= MaxErrors)
           /\ CASE DefinesPrototype(old, new) ->
                       Flush(ids[i]) /\ Put(key, PseudoEntry(Append(others, NewId)))
                [] ~DefinesPrototype(old, new) /\ ~new.isDefinition ->
                       Flush(NewId) /\ UNCHANGED symTable
                [] OTHER -> UNCHANGED <<symTable, flushed_list>>

\* The same for the single symbol of an unmangled function, whose parameter
\* list must be equivalent except between two definitions.
ResolveFunction(key, id, new, canRedefine) ==
  LET old == symbols[id]
      bothDefined == old.isDefinition /\ new.isDefinition
      wrong == IF bothDefined THEN ~canRedefine ELSE ~EquivalentFunctions(old, new)
  IN  IF ~bothDefined /\ RedefinesBuiltin(old, new) THEN FatalError
      ELSE /\ StoreAsBrother(id, new)
           /\ IF wrong THEN RaiseError ELSE NoError
           /\ CASE DefinesPrototype(old, new) -> Flush(id) /\ Put(key, Entry(NewId))
                [] ~DefinesPrototype(old, new) /\ ~new.isDefinition ->
                       Flush(NewId) /\ UNCHANGED symTable
                [] OTHER -> UNCHANGED <<symTable, flushed_list>>

addFunction(key, new, canRedefine) ==
  IF key \notin DOMAIN symTable
  THEN AddFirst(key, new, IF new.mangled THEN PseudoEntry(<<NewId>>) ELSE Entry(NewId))
  ELSE LET entry == symTable[key]
           i == EquivalentOverload(entry.ids, new)
       IN  CASE symbols[entry.ids[1]].kind # "function" -> Refuse(new)
             [] symbols[entry.ids[1]].kind = "function" /\ ~entry.pseudo ->
                  ResolveFunction(key, entry.ids[1], new, canRedefine)
             [] entry.pseudo /\ i = 0 -> AddOverload(key, entry.ids, new)
             [] entry.pseudo /\ i # 0 ->
                  ResolveOverload(key, entry.ids, i, new, canRedefine)

-----------------------------------------------------------------------------
(* The tree walk: scopes.  context[i] says what opened scope i:             *)
(* "block", "paramlist", or, for a function definition, "params" (parameter *)
(* list), "oldstyle" (K&R declarations) and "body".  The three scopes of a  *)
(* function definition have one name: they are one scope, opened thrice.    *)

Init ==
  /\ scopeStack = << >> /\ context = << >>
  /\ unnamedScopeCounter = 0 /\ paramlist_number = 0 /\ functiondef_number = 0
  /\ symTable = [k \in {} |-> Entry(0)]
  /\ symbols = << >> /\ vectors = << >> /\ flushed_list = {}
  /\ modes = {} /\ errors = 0 /\ aborted = FALSE

In(what) == context # << >> /\ context[Len(context)] = what

\* Declarations and statements are met at file scope, in K&R declarations,
\* blocks and bodies; statements only in the last two.
AtStatement   == In("block") \/ In("body")
AtDeclaration == isTopLevel \/ In("oldstyle") \/ AtStatement

Push(scope, what) == /\ ~aborted
                     /\ Len(scopeStack) < MaxDepth
                     /\ scopeStack' = Append(scopeStack, scope)
                     /\ context' = Append(context, what)

\* Mutation of Pop: the scope that ends keeps its name on the stack.
PopContext == context' = Front(context) /\ UNCHANGED scopeStack

Pop == scopeStack' = Front(scopeStack) /\ context' = Front(context)

\* Mutation of PushBlock: the number of the scope is used again.
PushSameBlock ==
  /\ AtStatement
  /\ Push(BlockScope(unnamedScopeCounter), "block")
  /\ UNCHANGED <<table, modes, unnamedScopeCounter, paramlist_number, functiondef_number>>

\* A compound statement or a 'for' with a declaration.
PushBlock ==
  /\ AtStatement
  /\ unnamedScopeCounter < MaxPushes
  /\ Push(BlockScope(unnamedScopeCounter), "block")
  /\ unnamedScopeCounter' = unnamedScopeCounter + 1
  /\ UNCHANGED <<table, modes, paramlist_number, functiondef_number>>

\* The parameter list of a prototype, or of a parameter's own declarator.
PushParamList ==
  /\ AtDeclaration \/ In("params") \/ In("paramlist")
  /\ paramlist_number < MaxPushes
  /\ Push(ParamListScope(paramlist_number), "paramlist")
  /\ paramlist_number' = paramlist_number + 1
  /\ UNCHANGED <<table, modes, unnamedScopeCounter, functiondef_number>>

\* The parameter list of a function definition, at file scope or nested in a
\* body (a GNU extension).
PushParams(name) ==
  /\ isTopLevel \/ AtStatement
  /\ functiondef_number < MaxPushes
  /\ Push(FunctionDefScope(functiondef_number, name), "params")
  /\ UNCHANGED <<table, modes, unnamedScopeCounter, paramlist_number, functiondef_number>>

\* The name of the function whose definition is being read.
CurrentFunction == scopeStack[Len(scopeStack)][3]

\* The body takes the number of its parameter list, and consumes it.
EnterBody ==
  /\ ~aborted /\ In("oldstyle") /\ functiondef_number < MaxPushes
  /\ scopeStack' = Append(Front(scopeStack),
                           FunctionDefScope(functiondef_number, CurrentFunction))
  /\ context' = Append(Front(context), "body")
  /\ functiondef_number' = functiondef_number + 1
  /\ UNCHANGED <<table, modes, unnamedScopeCounter, paramlist_number>>

PopScope ==
  /\ ~aborted
  /\ In("block") \/ In("paramlist") \/ In("body")
  /\ Pop
  /\ UNCHANGED <<table, modes, unnamedScopeCounter, paramlist_number, functiondef_number>>

\* #pragma ast_mangling and #pragma ast_ext_builtin, on or off
Pragma(mode) ==
  /\ ~aborted /\ (isTopLevel \/ AtStatement)
  /\ modes' = IF mode \in modes THEN modes \ {mode} ELSE modes \cup {mode}
  /\ UNCHANGED <<scopes, table>>

-----------------------------------------------------------------------------
(* The tree walk: declarations.                                             *)

DeclareObject(name, storage, type, dim) ==
  /\ HasRoom /\ AtDeclaration
  /\ addObjectLabel(Symbol("object", name, storage, type, dim, FALSE))
  /\ UNCHANGED <<scopes, modes>>

\* A parameter of a function definition.  Two of one name are refused by the
\* walk's own parameter map.
DeclareParameter(name, type) ==
  LET new == Symbol("object", name, "none", type, NoArray, FALSE)
      key == Scoped(name)
  IN  /\ HasRoom /\ In("params")
      /\ IF key \in DOMAIN symTable /\ symbols[symTable[key].ids[1]].kind = "object"
         THEN Refuse(new) ELSE addObjectLabel(new)
      /\ UNCHANGED <<scopes, modes>>

\* The constants of an 'enum' belong to the scope the 'enum' stands in, which
\* may be a parameter list.
DeclareEnumConstant(name) ==
  /\ HasRoom
  /\ AtDeclaration \/ In("params") \/ In("paramlist")
  /\ addUnique(Symbol("enum", name, "none", "int", NoArray, FALSE))
  /\ UNCHANGED <<scopes, modes>>

DeclareTypedef(name) ==
  /\ HasRoom /\ AtDeclaration
  /\ addUnique(Symbol("typedef", name, "none", "int", NoArray, FALSE))
  /\ UNCHANGED <<scopes, modes>>

DeclarePrototype(name, params) ==
  /\ HasRoom /\ AtDeclaration
  /\ addFunction(Scoped(name),
                 Symbol("function", name, "none", params, NoArray, FALSE), FALSE)
  /\ UNCHANGED <<scopes, modes>>

\* A call of a name that is not visible declares 'int f()' on the spot.
CallUndeclared(name) ==
  /\ HasRoom /\ AtStatement /\ Visible(name) = {}
  /\ addFunction(Scoped(name),
                 Symbol("function", name, "none", AnyParams, NoArray, FALSE), FALSE)
  /\ UNCHANGED <<scopes, modes>>

\* Mutation of Enclosing: functions are defined at file scope only.
FileScope == << >>

\* The scope a function is defined in, while its parameters are being read.
Enclosing == Front(scopeStack)

\* The end of a definition's parameter list: its scope is popped, the
\* function is added to the scope around it, and the scope is pushed again
\* for the K&R declarations.
DefineFunction(params) ==
  LET name == CurrentFunction
      new == [Symbol("function", name, "none", params, NoArray, TRUE)
                EXCEPT !.path = Enclosing]
  IN  /\ HasRoom /\ In("params")
      /\ addFunction(<<Enclosing, name>>, new, FALSE)
      /\ context' = Append(Front(context), "oldstyle")
      /\ UNCHANGED <<modes, scopeStack, unnamedScopeCounter, paramlist_number,
                     functiondef_number>>

Declare(name) ==
  \/ "object" \in Kinds /\ \/ \E st \in Storages, ty \in Types, d \in Dims :
                                DeclareObject(name, st, ty, d)
                           \/ \E ty \in Types : DeclareParameter(name, ty)
  \/ "enum" \in Kinds /\ DeclareEnumConstant(name)
  \/ "typedef" \in Kinds /\ DeclareTypedef(name)
  \/ "function" \in Kinds /\ \/ \E p \in Params : DeclarePrototype(name, p)
                             \/ CallUndeclared(name)

\* A definition with no parameter has been given a 'void' list by then.
Next == \/ PushBlock \/ PushParamList \/ EnterBody \/ PopScope
        \/ \E name \in Names : PushParams(name) \/ Declare(name)
        \/ \E params \in Params \ {AnyParams} : DefineFunction(params)
        \/ \E mode \in Modes : Pragma(mode)

Spec == Init /\ [][Next]_vars

-----------------------------------------------------------------------------
(* Properties.                                                              *)

Ids == 1..Len(symbols)
KeyOf(id) == <<symbols[id].path, symbols[id].name>>
Brothers(id) == IF symbols[id].brothers = 0 THEN {id} ELSE vectors[symbols[id].brothers]

ScopeNames == {BlockScope(n) : n \in 0..MaxPushes}
                \cup {ParamListScope(n) : n \in 0..MaxPushes}
                \cup {FunctionDefScope(n, name) : n \in 0..MaxPushes, name \in Names}

SymbolType(nb_vectors) ==
  [kind : {"object", "enum", "typedef", "function"}, name : Names, path : Seq(ScopeNames),
   storage : Storages \cup {"none"}, type : Types \cup Params \cup {"int"},
   dim : Dims \cup {NoArray}, isDefinition : BOOLEAN, mangled : BOOLEAN,
   builtin : BOOLEAN, brothers : 0..nb_vectors]

ScopesTypeOK ==
  /\ scopeStack \in Seq(ScopeNames)
  /\ context \in Seq({"block", "paramlist", "params", "oldstyle", "body"})
  /\ Len(context) = Len(scopeStack)
  /\ \A i \in 1..Len(context) :
       context[i] \in {"params", "oldstyle", "body"}
         => \E n \in 0..MaxPushes, name \in Names :
              scopeStack[i] = FunctionDefScope(n, name)
  /\ unnamedScopeCounter \in 0..MaxPushes
  /\ paramlist_number \in 0..MaxPushes
  /\ functiondef_number \in 0..MaxPushes

TableTypeOK ==
  /\ symbols \in Seq(SymbolType(Len(vectors)))
  /\ vectors \in Seq(SUBSET Ids)
  /\ \A key \in DOMAIN symTable :
       /\ symTable[key] \in [pseudo : BOOLEAN, ids : Seq(Ids)]
       /\ symTable[key].ids # << >>
  /\ flushed_list \subseteq Ids
  /\ errors \in Nat /\ aborted \in BOOLEAN

\* The state has the types SymbolTable.java declares, references between its
\* parts are never dangling, and a scope opened for a function definition
\* carries the name of the function.
TypeOK == ScopesTypeOK /\ TableTypeOK /\ modes \subseteq Modes

\* A symbol put out of the table stays attached to exactly one symbol the
\* table still holds under the same scoped name, whatever sequence of
\* redeclarations and definitions moved it out: renaming or marking the one a
\* lookup finds (reName, setProgramInternal) reaches the declarations that
\* earlier uses were bound to.
FlushedStayAttached ==
  \A id \in flushed_list :
    /\ KeyOf(id) \in DOMAIN symTable
    /\ id \notin Kept(symTable[KeyOf(id)])
    /\ \E kept \in Ids : Kept(symTable[KeyOf(id)]) \cap Brothers(id) = {kept}

\* Renaming never leaks: brothers are declarations of one name in one scope,
\* and each of them is in the vector it points to.
BrothersAreOneEntity ==
  \A id \in Ids : \A b \in Brothers(id) :
    KeyOf(b) = KeyOf(id) /\ symbols[b].kind = symbols[id].kind /\ id \in Brothers(b)

\* Every declaration that was not refused is in the table or attached to what
\* is: while no error has been raised, no declaration is lost.
NothingLost ==
  errors = 0 => \A id \in Ids :
    /\ KeyOf(id) \in DOMAIN symTable
    /\ Kept(symTable[KeyOf(id)]) \cap Brothers(id) # {}
    /\ id \in flushed_list \/ id \in Kept(symTable[KeyOf(id)])

\* A function definition is never hidden behind a prototype: among brothers
\* with a definition, the one the table holds is a definition, before and
\* after any further prototype.
FunctionDefinitionKept ==
  \A key \in DOMAIN symTable : \A id \in Kept(symTable[key]) :
    symbols[id].kind = "function" /\ (\E b \in Brothers(id) : symbols[b].isDefinition)
      => symbols[id].isDefinition

\* Two overloads the table holds under one name differ in their parameters:
\* the call that a prototype was written for finds one function.
OverloadsDiffer ==
  \A key \in DOMAIN symTable : \A a, b \in Kept(symTable[key]) :
    a # b => ~EquivalentFunctions(symbols[a], symbols[b])

\* A builtin function, once declared by the compiler's own headers, is never
\* replaced in the table by a function of the program.
BuiltinsProtected ==
  [][\A key \in DOMAIN symTable : \A id \in Kept(symTable[key]) :
       symbols[id].builtin =>
         \E b \in Brothers(id)' \cap Kept(symTable'[key]) : symbols'[b].builtin]_vars

\* What a closed scope holds never changes again.
ClosedScopesFrozen ==
  [][\A key \in DOMAIN symTable :
       symTable'[key] # symTable[key] =>
         \/ key[1] = scopeStack
         \/ In("params") /\ key[1] = Front(scopeStack)]_vars

\* The names a scope binds, with what they are.
Frame(path) ==
  [name \in {n \in Names : <<path, n>> \in DOMAIN symTable} |->
     symbols[symTable[<<path, name>>].ids[1]].kind]

\* The scopes that are open, as a stack of frames: what the flat table of
\* scoped names stands for.
frames == [i \in 1..(Len(scopeStack) + 1) |-> Frame(SubSeq(scopeStack, 1, i - 1))]

\* The flat table of scoped names implements a stack of frames: a lookup sees
\* the declarations of the scopes that are open and of no other, although
\* nothing is ever removed from the table.
Env == INSTANCE ScopedEnvironment WITH
         Names <- Names, Kinds <- Kinds \cup {"function"}, frames <- frames
ImplementsEnvironment == Env!Spec
=============================================================================
