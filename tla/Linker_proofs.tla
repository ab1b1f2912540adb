---------------------------- MODULE Linker_proofs ----------------------------
(***************************************************************************)
(* Proofs about the link, for any number of modules and any names.          *)
(***************************************************************************)
EXTENDS Linker, TLAPS

\* What is left to be read by the pass that is running.
Unread(m, n) == m > module \/ (m = module /\ n \in todo)

\* The pass that is running reads a module of the program.
Position ==
  /\ pass \in {"definitions", "references"} /\ NbModules > 0 => module \in Modules
  /\ pass \in {"definitions", "references"} /\ NbModules = 0 => todo = {}
  /\ pass = "done" => todo = {}
  /\ pass = "definitions" => \A n \in todo : declared[module][n] \in
                                     FunctionDefinitions \cup DataDefinitions
  /\ pass = "references" => \A n \in todo : declared[module][n] \in References

\* The global table holds the functions exported by what was read so far.
GlobalTable ==
  /\ \A n \in DOMAIN globalSymbolTable : Exports(n, "function")
  /\ \A m \in Modules, n \in Names :
       declared[m][n] = "function" =>
         \/ n \in DOMAIN globalSymbolTable
         \/ pass = "definitions" /\ Unread(m, n)
         \/ pass = "aborted"

\* A prototype that was read is marked exactly when the table has its name.
Marks ==
  /\ \A mn \in programInternal :
       \/ declared[mn[1]][mn[2]] \in FunctionDefinitions \cup DataDefinitions
       \/ mn[2] \in DOMAIN globalSymbolTable
  /\ \A m \in Modules, n \in Names :
       declared[m][n] = "prototype" /\ n \in DOMAIN globalSymbolTable =>
         \/ <<m, n>> \in programInternal
         \/ pass \in {"definitions", "aborted"}
         \/ pass = "references" /\ Unread(m, n)

\* The inductive invariant.
LinkInv == TypeOK /\ Position /\ GlobalTable /\ Marks

-----------------------------------------------------------------------------
(* A name of the global table never leaves it, nor does a mark.             *)

\* What one definition does to the global table: it may add its own name,
\* and only if it is an exported function.
LEMMA DefinitionEffect ==
  ASSUME TypeOK, NEW n \in Names, LinkDefinition(n), module \in Modules
  PROVE  /\ TypeOK'
         /\ DOMAIN globalSymbolTable \subseteq DOMAIN globalSymbolTable'
         /\ DOMAIN globalSymbolTable' \subseteq DOMAIN globalSymbolTable \cup {n}
         /\ n \in DOMAIN globalSymbolTable' \ DOMAIN globalSymbolTable
              => declared[module][n] = "function"
         /\ declared[module][n] = "function" => n \in DOMAIN globalSymbolTable'
         /\ pass' \in {"definitions", "aborted"}
<1> DEFINE d == declared[module][n]
<1> USE LinkerAssumption
<1>1. /\ pass = "definitions" /\ n \in todo /\ todo' = todo \ {n}
      /\ programInternal' = programInternal \cup {<<module, n>>}
      /\ UNCHANGED <<optionLink, declared, module>>
  BY DEF LinkDefinition, Mark, input
<1>2. CASE d = "function"
  <2>1. LinkFunction(n)
    BY <1>2 DEF LinkDefinition
  <2>2. CASE n \notin DOMAIN globalSymbolTable
    <3>1. /\ globalSymbolTable' = [k \in DOMAIN globalSymbolTable \cup {n} |->
                                    IF k = n THEN "function" ELSE globalSymbolTable[k]]
          /\ UNCHANGED <<errorSet, errors, warnings, pass>>
      BY <2>1, <2>2 DEF LinkFunction, NoMessage
    <3> QED BY <1>1, <1>2, <3>1 DEF TypeOK
  <2>3. CASE n \in DOMAIN globalSymbolTable
    <3>1. globalSymbolTable[n] = "function"
      BY <2>3 DEF TypeOK
    <3>2. UNCHANGED <<errorSet, globalSymbolTable, errors, pass>> /\ warnings' = warnings + 1
      BY <2>1, <2>3, <3>1 DEF LinkFunction, RaiseWarning
    <3> QED BY <1>1, <1>2, <2>3, <3>2 DEF TypeOK
  <2> QED BY <2>2, <2>3
<1>3. CASE d = "data"
  <2>1. LinkData(n)
    BY <1>3 DEF LinkDefinition
  <2>2. /\ UNCHANGED globalSymbolTable
        /\ errorSet' \in {errorSet, errorSet \cup {n}}
        /\ errors' \in {errors, errors + 1} /\ warnings' \in {warnings, warnings + 1}
        /\ pass' \in {pass, "aborted"}
    BY <2>1 DEF LinkData, NoMessage, RaiseWarning, RaiseError
  <2> QED BY <1>1, <1>3, <2>2 DEF TypeOK
<1>4. CASE d \notin {"function", "data"}
  <2>1. UNCHANGED <<globalSymbolTable, errorSet, errors, warnings, pass>>
    BY <1>4 DEF LinkDefinition, NoMessage
  <2> QED BY <1>1, <1>4, <2>1 DEF TypeOK
<1> QED BY <1>2, <1>3, <1>4

LEMMA LinkInvInit == Init => LinkInv
<1> SUFFICES ASSUME Init PROVE LinkInv
  OBVIOUS
<1> USE LinkerAssumption
<1>1. TypeOK
  BY DEF Init, TypeOK, DefinitionList
<1>0. /\ pass = "definitions" /\ module = 1
      /\ NbModules = 0 => todo = {}
      /\ NbModules > 0 => todo = DefinitionList(1)
  BY DEF Init
<1>2. Position
  <2>1. \A n \in todo : declared[module][n] \in FunctionDefinitions \cup DataDefinitions
    BY <1>0 DEF DefinitionList
  <2> QED BY <1>0, <2>1 DEF Position, Modules
<1>3. GlobalTable
  <2> SUFFICES ASSUME NEW m \in Modules, NEW n \in Names, declared[m][n] = "function"
               PROVE  Unread(m, n)
    BY DEF Init, GlobalTable
  <2>1. NbModules > 0 /\ (m > 1 \/ m = 1)
    BY DEF Modules
  <2> QED BY <1>0, <2>1 DEF Unread, DefinitionList, FunctionDefinitions
<1>4. Marks
  BY DEF Init, Marks
<1> QED BY <1>1, <1>2, <1>3, <1>4 DEF LinkInv

LEMMA LinkInvNextModule == LinkInv /\ NextModule => LinkInv'
<1> SUFFICES ASSUME LinkInv, NextModule PROVE LinkInv'
  OBVIOUS
<1> USE LinkerAssumption DEF LinkInv
<1>1. /\ pass \in {"definitions", "references"} /\ todo = {}
      /\ UNCHANGED <<optionLink, declared, globalSymbolTable, errorSet, programInternal,
                     errors, warnings>>
  BY DEF NextModule, input
<1>2. /\ module < NbModules => module' = module + 1 /\ pass' = pass
      /\ ~(module < NbModules) =>
           /\ module' = 1
           /\ pass' = IF pass = "definitions" /\ NbModules > 0 THEN "references" ELSE "done"
  BY DEF NextModule
<1>3. /\ pass' = "definitions" => todo' = DefinitionList(module')
      /\ pass' = "references" => todo' = ReferenceList(module')
      /\ pass' = "done" => todo' = {}
  BY <1>1, <1>2 DEF NextModule
<1>4. pass' \in {"definitions", "references", "done"}
  BY <1>1, <1>2
<1>5. TypeOK'
  BY <1>1, <1>2, <1>3, <1>4 DEF TypeOK, DefinitionList, ReferenceList
<1>6. Position'
  <2>1. pass' \in {"definitions", "references"} /\ NbModules > 0 => module' \in Modules
    BY <1>1, <1>2, <1>4 DEF Position, TypeOK, Modules
  <2>2. ~(pass' \in {"definitions", "references"} /\ NbModules = 0)
    BY <1>1, <1>2, <1>4 DEF TypeOK
  <2>3. pass' = "definitions" => \A n \in todo' : declared'[module'][n] \in
                                    FunctionDefinitions \cup DataDefinitions
    BY <1>1, <1>3 DEF DefinitionList
  <2>4. pass' = "references" => \A n \in todo' : declared'[module'][n] \in References
    BY <1>1, <1>3 DEF ReferenceList
  <2> QED BY <1>3, <2>1, <2>2, <2>3, <2>4 DEF Position
<1>7. GlobalTable'
  <2>1. SUFFICES ASSUME NEW m \in Modules, NEW n \in Names, declared[m][n] = "function",
                        n \notin DOMAIN globalSymbolTable
                 PROVE  pass' = "definitions" /\ Unread(m, n)'
    BY <1>1 DEF GlobalTable, Exports
  <2>2. pass = "definitions" /\ Unread(m, n)
    BY <1>1, <2>1 DEF GlobalTable
  <2>3. m > module /\ module < NbModules
    BY <1>1, <2>2 DEF Unread, Modules, TypeOK
  <2>4. pass' = "definitions" /\ module' = module + 1 /\ todo' = DefinitionList(module')
    BY <1>2, <1>3, <2>2, <2>3
  <2>5. m > module' \/ m = module'
    BY <2>3, <2>4 DEF Modules, TypeOK
  <2>6. n \in DefinitionList(m)
    BY <2>1 DEF DefinitionList, FunctionDefinitions
  <2> QED BY <2>4, <2>5, <2>6 DEF Unread
<1>8. Marks'
  <2>1. SUFFICES ASSUME NEW m \in Modules, NEW n \in Names, declared[m][n] = "prototype",
                        n \in DOMAIN globalSymbolTable, <<m, n>> \notin programInternal,
                        pass' # "definitions"
                 PROVE  pass' = "references" /\ Unread(m, n)'
    BY <1>1, <1>4 DEF Marks
  <2>0. n \in ReferenceList(m)
    BY <2>1 DEF ReferenceList, References
  <2>2. CASE pass = "definitions"
    <3>1. NbModules > 0
      BY <2>1 DEF Modules
    <3>2. pass' = "references" /\ module' = 1 /\ todo' = ReferenceList(1)
      BY <1>2, <1>3, <2>1, <2>2, <3>1
    <3>3. m > module' \/ m = module'
      BY <3>2 DEF Modules
    <3> QED BY <2>0, <3>2, <3>3 DEF Unread
  <2>3. CASE pass = "references"
    <3>1. m > module /\ module < NbModules
      BY <1>1, <2>1, <2>3 DEF Marks, Unread, Modules, TypeOK
    <3>2. pass' = "references" /\ module' = module + 1 /\ todo' = ReferenceList(module')
      BY <1>2, <1>3, <2>3, <3>1
    <3>3. m > module' \/ m = module'
      BY <3>1, <3>2 DEF Modules, TypeOK
    <3> QED BY <2>0, <3>2, <3>3 DEF Unread
  <2> QED BY <1>1, <2>2, <2>3
<1> QED BY <1>5, <1>6, <1>7, <1>8

LEMMA LinkInvDefinition ==
  ASSUME LinkInv, NEW n \in Names, LinkDefinition(n)
  PROVE  LinkInv'
<1> USE LinkerAssumption DEF LinkInv
<1>1. /\ pass = "definitions" /\ n \in todo /\ todo' = todo \ {n}
      /\ programInternal' = programInternal \cup {<<module, n>>}
      /\ UNCHANGED <<optionLink, declared, module>>
  BY DEF LinkDefinition, Mark, input
<1>2. module \in Modules
  <2>1. NbModules # 0
    BY <1>1 DEF Position
  <2> QED BY <1>1, <2>1 DEF Position
<1>3. /\ TypeOK'
      /\ DOMAIN globalSymbolTable \subseteq DOMAIN globalSymbolTable'
      /\ DOMAIN globalSymbolTable' \subseteq DOMAIN globalSymbolTable \cup {n}
      /\ n \in DOMAIN globalSymbolTable' \ DOMAIN globalSymbolTable
           => declared[module][n] = "function"
      /\ declared[module][n] = "function" => n \in DOMAIN globalSymbolTable'
      /\ pass' \in {"definitions", "aborted"}
  BY <1>2, DefinitionEffect
<1>4. Position'
  BY <1>1, <1>2, <1>3 DEF Position
<1>5. GlobalTable'
  <2>1. \A k \in DOMAIN globalSymbolTable' : Exports(k, "function")'
    <3> SUFFICES ASSUME NEW k \in DOMAIN globalSymbolTable'
                 PROVE  \E m \in Modules : declared[m][k] = "function"
      BY <1>1 DEF Exports
    <3> QED BY <1>2, <1>3 DEF GlobalTable, Exports
  <2>2. SUFFICES ASSUME NEW m \in Modules, NEW k \in Names, declared[m][k] = "function",
                        k \notin DOMAIN globalSymbolTable', pass' # "aborted"
                 PROVE  pass' = "definitions" /\ Unread(m, k)'
    BY <1>1, <2>1 DEF GlobalTable
  <2>3. Unread(m, k)
    BY <1>1, <1>3, <2>2 DEF GlobalTable
  <2>4. ~(m = module /\ k = n)
    BY <1>3, <2>2
  <2> QED BY <1>1, <1>3, <2>2, <2>3, <2>4 DEF Unread
<1>6. Marks'
  <2>1. declared[module][n] \in FunctionDefinitions \cup DataDefinitions
    BY <1>1 DEF Position
  <2> QED BY <1>1, <1>2, <1>3, <2>1 DEF Marks
<1> QED BY <1>3, <1>4, <1>5, <1>6

LEMMA LinkInvReference ==
  ASSUME LinkInv, NEW n \in Names, LinkReference(n)
  PROVE  LinkInv'
<1> USE LinkerAssumption DEF LinkInv
<1>1. /\ pass = "references" /\ n \in todo /\ todo' = todo \ {n}
      /\ programInternal' = IF n \in DOMAIN globalSymbolTable
                            THEN programInternal \cup {<<module, n>>} ELSE programInternal
      /\ UNCHANGED <<optionLink, declared, pass, module, globalSymbolTable, errorSet,
                     errors, warnings>>
  BY DEF LinkReference, Mark, input
<1>2. module \in Modules
  <2>1. NbModules # 0
    BY <1>1 DEF Position
  <2> QED BY <1>1, <2>1 DEF Position
<1>3. TypeOK'
  BY <1>1, <1>2 DEF TypeOK
<1>4. Position'
  BY <1>1 DEF Position
<1>5. GlobalTable'
  <2>1. UNCHANGED <<declared, globalSymbolTable>> /\ pass' = "references"
    BY <1>1
  <2> QED BY <1>1, <2>1 DEF GlobalTable, Exports
<1>6. Marks'
  <2>1. \A mn \in programInternal' :
          \/ declared'[mn[1]][mn[2]] \in FunctionDefinitions \cup DataDefinitions
          \/ mn[2] \in DOMAIN globalSymbolTable'
    BY <1>1 DEF Marks
  <2>2. SUFFICES ASSUME NEW m \in Modules, NEW k \in Names, declared[m][k] = "prototype",
                        k \in DOMAIN globalSymbolTable, <<m, k>> \notin programInternal'
                 PROVE  Unread(m, k)'
    BY <1>1, <2>1 DEF Marks
  <2>3. Unread(m, k)
    BY <1>1, <2>2 DEF Marks
  <2>4. ~(m = module /\ k = n)
    BY <1>1, <2>2
  <2> QED BY <1>1, <2>3, <2>4 DEF Unread
<1> QED BY <1>3, <1>4, <1>5, <1>6

LEMMA LinkInvNext == LinkInv /\ [Next]_vars => LinkInv'
<1> SUFFICES ASSUME LinkInv, [Next]_vars PROVE LinkInv'
  OBVIOUS
<1>1. CASE NextModule
  BY <1>1, LinkInvNextModule
<1>2. ASSUME NEW n \in Names, LinkDefinition(n) PROVE LinkInv'
  BY <1>2, LinkInvDefinition
<1>3. ASSUME NEW n \in Names, LinkReference(n) PROVE LinkInv'
  BY <1>3, LinkInvReference
<1>4. CASE UNCHANGED vars
  BY <1>4 DEF vars, input, LinkInv, TypeOK, Position, GlobalTable, Marks, Unread, Exports
<1> QED BY <1>1, <1>2, <1>3, <1>4 DEF Next

-----------------------------------------------------------------------------
(* Clashes.                                                                 *)

\* A clash is seen when the data is read: the function is in the table then.
Clashes ==
  ~optionLink => \A m1, m2 \in Modules, n \in Names :
    m1 < m2 /\ declared[m1][n] = "function" /\ declared[m2][n] = "data" =>
      \/ errors > 0
      \/ pass = "definitions" /\ Unread(m2, n)
      \/ pass = "aborted"

\* Data whose name is in the global table is an error of a link not forced.
LEMMA DataError ==
  ASSUME LinkInv, NEW n \in Names, LinkData(n), n \in DOMAIN globalSymbolTable, ~optionLink
  PROVE  errors' = errors + 1
  BY DEF LinkData, RaiseError

\* Errors are never forgotten.
LEMMA ErrorsStay ==
  ASSUME LinkInv, NEW n \in Names, LinkDefinition(n)
  PROVE  errors' >= errors
<1>1. errors' \in {errors, errors + 1}
  BY DEF LinkDefinition, LinkFunction, LinkData, NoMessage, RaiseWarning, RaiseError
<1> QED BY <1>1 DEF LinkInv, TypeOK

LEMMA ClashesDefinition ==
  ASSUME LinkInv, Clashes, NEW n \in Names, LinkDefinition(n)
  PROVE  Clashes'
<1>1. /\ pass = "definitions" /\ n \in todo /\ todo' = todo \ {n}
      /\ UNCHANGED <<optionLink, declared, module>>
  BY DEF LinkDefinition, input
<1>2. errors \in Nat /\ errors' >= errors
  BY ErrorsStay DEF LinkInv, TypeOK
<1>3. pass' \in {"definitions", "aborted"}
  BY <1>1 DEF LinkDefinition, LinkFunction, LinkData, NoMessage, RaiseWarning, RaiseError
<1> SUFFICES ASSUME ~optionLink, NEW m1 \in Modules, NEW m2 \in Modules, NEW k \in Names,
                    m1 < m2, declared[m1][k] = "function", declared[m2][k] = "data",
                    pass' = "definitions", ~Unread(m2, k)'
             PROVE  errors' > 0
  BY <1>1, <1>3 DEF Clashes
<1>4. CASE ~Unread(m2, k)
  <2>1. errors > 0
    BY <1>1, <1>4 DEF Clashes
  <2>2. errors' \in Int
    BY <1>2, <1>1 DEF LinkDefinition, LinkFunction, LinkData, NoMessage, RaiseWarning, RaiseError
  <2> QED BY <1>2, <2>1, <2>2
<1>5. CASE Unread(m2, k)
  <2>1. m2 = module /\ k = n
    BY <1>1, <1>5 DEF Unread
  <2>2. ~Unread(m1, k)
    BY <2>1 DEF Unread, Modules
  <2>3. k \in DOMAIN globalSymbolTable
    BY <1>1, <2>2 DEF LinkInv, GlobalTable
  <2>4. LinkData(n)
    BY <2>1 DEF LinkDefinition
  <2>5. errors' = errors + 1
    BY <2>1, <2>3, <2>4, DataError
  <2> QED BY <1>2, <2>5
<1> QED BY <1>4, <1>5

LEMMA ClashesNext == LinkInv /\ Clashes /\ [Next]_vars => Clashes'
<1> SUFFICES ASSUME LinkInv, Clashes, [Next]_vars PROVE Clashes'
  OBVIOUS
<1>1. CASE NextModule
  <2>1. /\ pass \in {"definitions", "references"} /\ todo = {}
        /\ UNCHANGED <<optionLink, declared, errors>>
    BY <1>1 DEF NextModule, input
  <2>2. /\ module < NbModules => module' = module + 1 /\ pass' = pass
        /\ pass' = "definitions" => todo' = DefinitionList(module')
    BY <1>1 DEF NextModule
  <2> SUFFICES ASSUME ~optionLink, NEW m1 \in Modules, NEW m2 \in Modules, NEW n \in Names,
                      m1 < m2, declared[m1][n] = "function", declared[m2][n] = "data",
                      ~(errors > 0)
               PROVE  pass' = "definitions" /\ Unread(m2, n)'
    BY <2>1 DEF Clashes
  <2>3. pass = "definitions" /\ m2 > module
    BY <2>1 DEF Clashes, Unread
  <2>4. module < NbModules /\ module \in Nat
    BY <2>3, LinkerAssumption DEF LinkInv, TypeOK, Modules
  <2>5. pass' = "definitions" /\ module' = module + 1 /\ todo' = DefinitionList(module')
    BY <2>2, <2>3, <2>4
  <2>6. m2 > module' \/ m2 = module'
    BY <2>3, <2>4, <2>5 DEF Modules
  <2>7. n \in DefinitionList(m2)
    BY DEF DefinitionList, DataDefinitions
  <2> QED BY <2>1, <2>5, <2>6, <2>7 DEF Unread
<1>2. ASSUME NEW n \in Names, LinkDefinition(n) PROVE Clashes'
  BY <1>2, ClashesDefinition
<1>3. ASSUME NEW n \in Names, LinkReference(n) PROVE Clashes'
  BY <1>3 DEF LinkReference, input, Clashes
<1>4. CASE UNCHANGED vars
  BY <1>4 DEF vars, input, Clashes, Unread
<1> QED BY <1>1, <1>2, <1>3, <1>4 DEF Next

-----------------------------------------------------------------------------
(* The theorems.                                                            *)

\* The state of Linker.run is well typed at every step.
THEOREM TypeCorrect == Spec => []TypeOK
<1>1. LinkInv => TypeOK
  BY DEF LinkInv
<1> QED BY <1>1, LinkInvInit, LinkInvNext, PTL DEF Spec

\* When the link is done, a prototype is program internal exactly if a module
\* exports a definition of it, whatever the order and number of the modules.
THEOREM PrototypesAreResolved == Spec => []PrototypesResolved
<1>1. LinkInv => PrototypesResolved
  <2> SUFFICES ASSUME LinkInv, pass = "done", NEW m \in Modules, NEW n \in Names,
                      declared[m][n] = "prototype"
               PROVE  <<m, n>> \in programInternal <=> Exports(n, "function")
    BY DEF PrototypesResolved
  <2>1. n \in DOMAIN globalSymbolTable <=> Exports(n, "function")
    BY DEF LinkInv, GlobalTable, Exports
  <2>2. <<m, n>> \in programInternal => n \in DOMAIN globalSymbolTable
    BY DEF LinkInv, Marks, FunctionDefinitions, DataDefinitions
  <2>3. n \in DOMAIN globalSymbolTable => <<m, n>> \in programInternal
    BY DEF LinkInv, Marks
  <2> QED BY <2>1, <2>2, <2>3
<1> QED BY <1>1, LinkInvInit, LinkInvNext, PTL DEF Spec

\* At every step of the link, what it has marked is defined by the program.
THEOREM MarkedIsDefined == Spec => []InternalIsDefined
<1>1. LinkInv => InternalIsDefined
  BY DEF LinkInv, Marks, GlobalTable, InternalIsDefined
<1> QED BY <1>1, LinkInvInit, LinkInvNext, PTL DEF Spec

\* Any number of modules: a link that is not forced does not go through when a
\* module has as data what one before it exports as a function.
THEOREM ClashesAreReported == Spec => []ClashReported
<1>1. Init => Clashes
  <2> SUFFICES ASSUME Init, NEW m2 \in Modules, NEW n \in Names, declared[m2][n] = "data"
               PROVE  pass = "definitions" /\ Unread(m2, n)
    BY DEF Clashes
  <2>1. NbModules > 0 /\ (m2 > 1 \/ m2 = 1)
    BY LinkerAssumption DEF Modules
  <2>2. pass = "definitions" /\ module = 1 /\ todo = DefinitionList(1)
    BY <2>1 DEF Init
  <2>3. n \in DefinitionList(m2)
    BY DEF DefinitionList, DataDefinitions
  <2> QED BY <2>1, <2>2, <2>3 DEF Unread
<1>2. Clashes => ClashReported
  BY DEF Clashes, ClashReported
<1> QED BY <1>1, <1>2, LinkInvInit, LinkInvNext, ClashesNext, PTL DEF Spec
=============================================================================
