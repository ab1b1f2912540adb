------------------------- MODULE ReentrantLink_proofs -------------------------
(***************************************************************************)
(* For any number of modules, names and declarations: the reentrant         *)
(* compiler gives new names that differ, and builds one structure (IInv);   *)
(* and a program that it lets through keeps its meaning.  The second rests  *)
(* on what the walk leaves for the link (WalkInv: who has a new name, one   *)
(* definition for each function) and on what the link has done with the     *)
(* lists it has been through (LinkInv): the definitions are in the global   *)
(* table and marked, what is marked has been so for a definition, and an    *)
(* error has its clash.  What C makes of the declarations is then compared  *)
(* with the state in which the link ends, entry by entry.                   *)
(***************************************************************************)
EXTENDS ReentrantLink, SequenceTheorems, WellFoundedInduction, TLAPS

SymbolSet == [module : Modules, kind : Kinds, name : Names, rename : Nat]

\* The new names given so far have the numbers counted so far.
Counted == /\ \A i \in Ids : symbols[i].rename <= mangling_counter
           /\ Len(symbols) <= MaxSymbols

\* The definitions that one entry of the table has had have one name.
Uniform ==
  /\ \A i, j \in Ids : SameEntry(i, j) =>
       /\ Is(i, Data) <=> Is(j, Data)
       /\ Is(i, DataDefinitions) /\ Is(j, DataDefinitions) =>
            symbols[i].kind = symbols[j].kind /\ symbols[i].rename = symbols[j].rename
  /\ \A i \in Ids : symbols[i].kind = "data" => symbols[i].rename = 0

\* The members of the structure have their names in the global table.
Listed ==
  /\ pass = "walk" => globalInstanceDataList = <<>>
  /\ \A k \in DOMAIN globalInstanceDataList :
       getName(globalInstanceDataList[k]) \in DOMAIN globalSymbolTable

\* The lists being linked hold symbols of their kind.
ListKinds == pass = "data" => \A i \in todo : Is(i, DataDefinitions)

\* The inductive invariant.
IInv == TypeOK /\ Counted /\ NewNamesDiffer /\ Uniform /\ Listed /\ ListKinds

-----------------------------------------------------------------------------
(* The walk.                                                                *)

\* The symbols that take the new name of what a declaration declares.
Shares(i, k, n) ==
  /\ k = "static data" /\ symbols[i].kind \in Data \ Blocks
  /\ symbols[i].module = module /\ symbols[i].name = n

\* A declaration adds one symbol, and renames at most the declarations of the
\* static variable it declares.
LEMMA DeclareEffect ==
  ASSUME TypeOK, NEW k \in Kinds, NEW n \in Names, Declare(k, n),
         NEW r \in Nat, r = IF Mangled(k) THEN mangling_counter + 1 ELSE 0
  PROVE  /\ symbols' \in Seq(SymbolSet)
         /\ Len(symbols') = Len(symbols) + 1 /\ Len(symbols') <= MaxSymbols
         /\ Ids' = Ids \cup {Len(symbols) + 1}
         /\ \A i \in Ids :
              /\ symbols'[i].module = symbols[i].module
              /\ symbols'[i].kind = symbols[i].kind
              /\ symbols'[i].name = symbols[i].name
              /\ symbols'[i].rename =
                   IF Shares(i, k, n) THEN r ELSE symbols[i].rename
         /\ symbols'[Len(symbols) + 1] = Symbol(module, k, n, r)
         /\ mangling_counter' = IF Mangled(k) THEN r ELSE mangling_counter
         /\ pass = "walk" /\ r \in Nat
         /\ k \in Blocks \/ Accepts(k, n)
         /\ k # "tag"
         /\ UNCHANGED <<optionLink, pass, module, todo, link, errors, warnings>>
<1> USE ReentrantLinkAssumption
<1> DEFINE s == Symbol(module, k, n, r)
           t == Renamed(s, r)
<1>1. r \in Nat /\ mangling_counter \in Nat /\ module \in Modules
  BY DEF TypeOK
<1>2. s \in SymbolSet /\ s.kind = k /\ s.module = module /\ s.name = n
  BY <1>1 DEF Symbol, SymbolSet
<1>3. symbols \in Seq(SymbolSet) /\ Ids = 1..Len(symbols) /\ Len(symbols) \in Nat
  BY DEF TypeOK, SymbolSet, Ids
<1>4. \A i \in Ids : symbols[i] \in SymbolSet
  BY <1>3
<1>5. /\ DOMAIN t = 1..Len(symbols)
      /\ \A i \in 1..Len(symbols) :
           /\ t[i] \in SymbolSet
           /\ t[i].module = symbols[i].module
           /\ t[i].kind = symbols[i].kind
           /\ t[i].name = symbols[i].name
           /\ t[i].rename =
                   IF Shares(i, k, n) THEN r ELSE symbols[i].rename
  BY <1>1, <1>2, <1>3, <1>4 DEF Renamed, SymbolSet, Shares
<1>6. t \in Seq(SymbolSet) /\ Len(t) = Len(symbols)
  <2>1. t = [i \in 1..Len(symbols) |-> t[i]]
    BY <1>3 DEF Renamed
  <2>2. t \in [1..Len(symbols) -> SymbolSet]
    BY <2>1, <1>5
  <2> QED BY <2>2, <1>3, SeqDef, LenProperties
<1>7. symbols' = Append(t, s)
  BY DEF Declare, Symbol
<1>8. /\ symbols' \in Seq(SymbolSet) /\ Len(symbols') = Len(symbols) + 1
      /\ symbols'[Len(symbols) + 1] = s
      /\ \A i \in 1..Len(symbols) : symbols'[i] = t[i]
  BY <1>2, <1>6, <1>7, AppendProperties
<1>9. Ids' = 1..(Len(symbols) + 1)
  BY <1>8 DEF Ids
<1>10. Len(symbols) < MaxSymbols /\ MaxSymbols \in Nat
  BY DEF Declare
<1>11. /\ mangling_counter' = IF Mangled(k) THEN r ELSE mangling_counter
       /\ pass = "walk" /\ k # "tag" /\ (k \in Blocks \/ Accepts(k, n))
       /\ UNCHANGED <<optionLink, pass, module, todo, link, errors, warnings>>
  BY DEF Declare
<1>12. /\ Ids' = Ids \cup {Len(symbols) + 1} /\ Len(symbols') <= MaxSymbols
  BY <1>3, <1>8, <1>9, <1>10
<1>13. \A i \in Ids : symbols'[i] = t[i]
  BY <1>3, <1>8
<1> HIDE DEF t
<1>14. ASSUME NEW i \in Ids
       PROVE  /\ symbols'[i].module = symbols[i].module
              /\ symbols'[i].kind = symbols[i].kind
              /\ symbols'[i].name = symbols[i].name
              /\ symbols'[i].rename =
                   IF Shares(i, k, n) THEN r ELSE symbols[i].rename
  <2>1. i \in 1..Len(symbols) /\ symbols'[i] = t[i]
    BY <1>3, <1>13
  <2> QED BY <2>1, <1>5
<1>15. symbols'[Len(symbols) + 1] = Symbol(module, k, n, r)
  BY <1>8
<1> QED BY <1>1, <1>8, <1>11, <1>12, <1>14, <1>15

\* The end of a module adds the tags, under new names, and goes on to the next
\* module or to the link.
LEMMA EndModuleEffect ==
  ASSUME TypeOK, NEW tags \in Seq(Names), EndModule(tags)
  PROVE  /\ symbols' \in Seq(SymbolSet)
         /\ Len(symbols') = Len(symbols) + Len(tags) /\ Len(symbols') <= MaxSymbols
         /\ Ids \subseteq Ids'
         /\ \A i \in Ids : symbols'[i] = symbols[i]
         /\ \A i \in Ids' \ Ids : /\ symbols'[i].kind = "tag"
                                  /\ symbols'[i].rename = mangling_counter + (i - Len(symbols))
                                  /\ i \in (Len(symbols) + 1)..(Len(symbols) + Len(tags))
         /\ mangling_counter' = mangling_counter + Len(tags)
         /\ pass = "walk"
         /\ module' \in Modules /\ pass' \in {"walk", "data"}
         /\ todo' \subseteq Ids'
         /\ pass' = "data" => \A i \in todo' : symbols'[i].kind \in DataDefinitions
         /\ UNCHANGED <<optionLink, link, errors, warnings>>
<1> USE ReentrantLinkAssumption
<1> DEFINE t == [u \in DOMAIN tags |-> Symbol(module, "tag", tags[u], mangling_counter + u)]
<1>1. mangling_counter \in Nat /\ module \in Modules /\ symbols \in Seq(SymbolSet)
  BY DEF TypeOK, SymbolSet
<1>2. DOMAIN tags = 1..Len(tags) /\ Len(tags) \in Nat /\ \A u \in 1..Len(tags) : tags[u] \in Names
  OBVIOUS
<1>3. \A u \in 1..Len(tags) : /\ t[u] \in SymbolSet /\ t[u].kind = "tag"
                              /\ t[u].rename = mangling_counter + u
  BY <1>1, <1>2 DEF Symbol, SymbolSet, Kinds
<1>4. t \in [1..Len(tags) -> SymbolSet]
  BY <1>2, <1>3
<1>5. t \in Seq(SymbolSet) /\ Len(t) = Len(tags)
  BY <1>2, <1>4, SeqDef, LenProperties
<1>6. symbols' = symbols \o t
  BY DEF EndModule
<1>7. /\ symbols' \in Seq(SymbolSet) /\ Len(symbols') = Len(symbols) + Len(tags)
      /\ \A i \in 1..Len(symbols') :
           symbols'[i] = IF i <= Len(symbols) THEN symbols[i] ELSE t[i - Len(symbols)]
  BY <1>1, <1>5, <1>6, ConcatProperties
<1>8. Ids = 1..Len(symbols) /\ Ids' = 1..Len(symbols') /\ Len(symbols) \in Nat
  BY <1>1, <1>7 DEF Ids
<1>9. \A i \in Ids' \ Ids : /\ symbols'[i].kind = "tag"
                            /\ symbols'[i].rename = mangling_counter + (i - Len(symbols))
                            /\ i \in (Len(symbols) + 1)..(Len(symbols) + Len(tags))
  <2> SUFFICES ASSUME NEW i \in Ids' \ Ids
               PROVE  /\ symbols'[i].kind = "tag"
                      /\ symbols'[i].rename = mangling_counter + (i - Len(symbols))
                      /\ i \in (Len(symbols) + 1)..(Len(symbols) + Len(tags))
    OBVIOUS
  <2>1. i > Len(symbols) /\ i <= Len(symbols) + Len(tags) /\ i \in Nat
    BY <1>2, <1>7, <1>8
  <2>2. i - Len(symbols) \in 1..Len(tags) /\ symbols'[i] = t[i - Len(symbols)]
    BY <1>2, <1>7, <1>8, <2>1
  <2> QED BY <2>1, <2>2, <1>3, <1>8, <1>2
<1>10. /\ mangling_counter' = mangling_counter + Len(tags)
       /\ Len(symbols) + Len(tags) <= MaxSymbols
       /\ pass = "walk"
       /\ UNCHANGED <<optionLink, link, errors, warnings>>
  BY DEF EndModule
<1>11. /\ module' \in Modules /\ pass' \in {"walk", "data"} /\ todo' \subseteq Ids'
       /\ pass' = "data" => \A i \in todo' : symbols'[i].kind \in DataDefinitions
  <2>1. CASE module < NbModules
    BY <2>1, <1>1, <1>8, <1>7, <1>10 DEF EndModule, TypeOK, Modules, Ids
  <2>2. CASE ~(module < NbModules)
    <3>1. module' = 1 /\ pass' = "data"
          /\ todo' = {i \in DOMAIN symbols' : symbols'[i].kind \in DataDefinitions}
      BY <2>2 DEF EndModule
    <3> QED BY <3>1, <1>1 DEF Modules, Ids
  <2> QED BY <2>1, <2>2
<1>12. Ids \subseteq Ids' /\ \A i \in Ids : symbols'[i] = symbols[i]
  <2> HIDE DEF t
  <2>1. ASSUME NEW i \in Ids PROVE i \in Ids' /\ symbols'[i] = symbols[i]
    <3>1. i \in Nat /\ i <= Len(symbols) /\ i >= 1
      BY <1>8
    <3>2. i \in 1..Len(symbols')
      BY <3>1, <1>2, <1>7, <1>8
    <3> QED BY <3>1, <3>2, <1>7, <1>8
  <2> QED BY <2>1
<1>13. Len(symbols') <= MaxSymbols
  BY <1>7, <1>10
<1> QED BY <1>7, <1>9, <1>10, <1>11, <1>12, <1>13

-----------------------------------------------------------------------------
(* The inductive invariant.                                                 *)

LEMMA SeqTypes == ASSUME NEW S, NEW s \in Seq(S), NEW T, S \subseteq T PROVE s \in Seq(T)
<1>1. s \in [1..Len(s) -> S] /\ Len(s) \in Nat
  OBVIOUS
<1>2. s \in [1..Len(s) -> T]
  BY <1>1
<1> QED BY <1>1, <1>2, SeqDef

LEMMA InitIInv == Init => IInv
<1> SUFFICES ASSUME Init PROVE IInv
  OBVIOUS
<1> USE ReentrantLinkAssumption
<1>1. symbols = <<>> /\ Ids = {} /\ Len(symbols) = 0
  BY DEF Init, Ids
<1>2. TypeOK
  <2>1. symbols \in Seq([module : Modules, kind : Kinds, name : Names, rename : Nat])
    BY <1>1
  <2>2. globalInstanceDataList \in Seq({i \in Ids : Is(i, DataDefinitions)})
    BY DEF Init
  <2> QED BY <2>1, <2>2 DEF Init, TypeOK, Passes, Modules
<1>3. Counted /\ NewNamesDiffer /\ Uniform
  BY <1>1 DEF Counted, NewNamesDiffer, Uniform
<1>4. Listed /\ ListKinds
  BY DEF Init, Listed, ListKinds
<1> QED BY <1>2, <1>3, <1>4 DEF IInv

\* Within one step of the link, the symbols do not change.
LEMMA DeclareType ==
  ASSUME IInv, NEW k \in Kinds, NEW n \in Names, Declare(k, n)
  PROVE  TypeOK'
<1>0. TypeOK
  BY DEF IInv
<1>a. PICK r \in Nat : r = IF Mangled(k) THEN mangling_counter + 1 ELSE 0
  BY <1>0 DEF TypeOK
<1>1. /\ symbols' \in Seq(SymbolSet) /\ Len(symbols') = Len(symbols) + 1
      /\ Ids' = Ids \cup {Len(symbols) + 1}
      /\ \A i \in Ids : symbols'[i].kind = symbols[i].kind
      /\ mangling_counter' = IF Mangled(k) THEN r ELSE mangling_counter
      /\ r \in Nat /\ pass = "walk"
      /\ UNCHANGED <<optionLink, pass, module, todo, link, errors, warnings>>
  BY <1>0, <1>a, DeclareEffect
<1>2. symbols' \in Seq([module : Modules, kind : Kinds, name : Names, rename : Nat])
  BY <1>1 DEF SymbolSet
<1>3. (globalInstanceDataList \in Seq({i \in Ids : Is(i, DataDefinitions)}))'
  BY <1>1 DEF IInv, Listed, link
<1>4. mangling_counter' \in Nat /\ todo' \subseteq Ids' /\ programInternal' \subseteq Ids'
      /\ nullified' \subseteq Ids'
  BY <1>0, <1>1 DEF TypeOK, link
<1> QED BY <1>0, <1>1, <1>2, <1>3, <1>4 DEF TypeOK, link

LEMMA DeclareKeeps ==
  ASSUME IInv, NEW k \in Kinds, NEW n \in Names, Declare(k, n)
  PROVE  IInv'
<1> DEFINE rr == IF Mangled(k) THEN mangling_counter + 1 ELSE 0
<1>00. TypeOK /\ symbols \in Seq(SymbolSet)
  BY DEF IInv, TypeOK, SymbolSet
<1>01. Len(symbols) \in Nat /\ Ids = 1..Len(symbols)
  BY <1>00 DEF Ids
<1>02. \A i \in Ids : symbols[i] \in SymbolSet
  BY <1>00, <1>01
<1>03. \A i \in Ids : symbols[i].rename \in Nat
  BY <1>02 DEF SymbolSet
<1>0. TypeOK /\ Len(symbols) \in Nat /\ Ids = 1..Len(symbols) /\ mangling_counter \in Nat
      /\ module \in Modules
  BY <1>00, <1>01 DEF TypeOK
<1>a. PICK new \in Nat : new = Len(symbols) + 1
  BY <1>0
<1> new \notin Ids /\ new \in Nat /\ \A i \in Ids : i # new
  BY <1>0, <1>a
<1>1. PICK r \in Nat : r = rr
  BY <1>0
<1> HIDE DEF rr
<1>2. r = IF Mangled(k) THEN mangling_counter + 1 ELSE 0
  BY <1>1 DEF rr
<1>3. /\ symbols' \in Seq(SymbolSet)
      /\ Len(symbols') = Len(symbols) + 1 /\ Len(symbols') <= MaxSymbols
      /\ Ids' = Ids \cup {new}
      /\ mangling_counter' = IF Mangled(k) THEN r ELSE mangling_counter
      /\ pass = "walk" /\ r \in Nat
      /\ k \in Blocks \/ Accepts(k, n)
      /\ k # "tag"
      /\ UNCHANGED <<optionLink, pass, module, todo, link, errors, warnings>>
  BY <1>0, <1>a, <1>2, DeclareEffect
<1>b. /\ symbols'[Len(symbols) + 1] = Symbol(module, k, n, r)
      /\ \A i \in Ids :
           /\ symbols'[i].module = symbols[i].module
           /\ symbols'[i].kind = symbols[i].kind
           /\ symbols'[i].name = symbols[i].name
           /\ symbols'[i].rename =
                IF Shares(i, k, n) THEN r ELSE symbols[i].rename
  <2> HIDE DEF Mangled, Symbol
  <2> QED BY <1>0, <1>2, DeclareEffect
<1>4. /\ symbols'[new].module = module /\ symbols'[new].kind = k
      /\ symbols'[new].name = n /\ symbols'[new].rename = r
  BY <1>a, <1>b DEF Symbol
<1>5. \A i \in Ids : /\ symbols'[i].module = symbols[i].module
                     /\ symbols'[i].kind = symbols[i].kind
                     /\ symbols'[i].name = symbols[i].name
                     /\ symbols'[i].rename =
                          IF Shares(i, k, n) THEN r ELSE symbols[i].rename
  BY <1>b
<1>6. TypeOK'
  BY DeclareType
<1>7. Counted'
  <2>1. ASSUME NEW i \in Ids PROVE symbols'[i].rename <= mangling_counter'
    <3>1. symbols[i].rename <= mangling_counter /\ symbols[i].rename \in Nat
      BY <1>03 DEF IInv, Counted
    <3>2. mangling_counter <= mangling_counter'
      BY <1>0, <1>2, <1>3
    <3>3. \/ symbols'[i].rename = symbols[i].rename
          \/ symbols'[i].rename = r /\ k = "static data"
      <4>1. symbols'[i].rename = IF Shares(i, k, n) THEN r ELSE symbols[i].rename
        BY <1>5
      <4> QED BY <4>1 DEF Shares
    <3>4. k = "static data" => mangling_counter' = r
      BY <1>3 DEF Mangled, Statics, Data, DataDefinitions
    <3>5. CASE symbols'[i].rename = symbols[i].rename
      BY <3>1, <3>2, <3>5, <1>0, <1>3
    <3>6. CASE symbols'[i].rename = r /\ k = "static data"
      <4>1. mangling_counter' = r
        BY <3>4, <3>6
      <4>2. r <= r
        BY <1>3
      <4> QED BY <3>6, <4>1, <4>2
    <3> QED BY <3>3, <3>5, <3>6
  <2>2. symbols'[new].rename <= mangling_counter'
    BY <1>0, <1>2, <1>3, <1>4
  <2> QED BY <1>3, <2>1, <2>2 DEF Counted
<1>8. NewNamesDiffer'
  <2> SUFFICES ASSUME NEW i \in Ids', NEW j \in Ids', i # j, symbols'[i].rename # 0,
                      getName(i)' = getName(j)'
               PROVE  SameEntry(i, j)'
    BY DEF NewNamesDiffer
  <2>1. symbols'[i].rename = symbols'[j].rename /\ symbols'[i].name = symbols'[j].name
    BY DEF getName
  <2>2. \A u \in Ids : symbols[u].rename < mangling_counter + 1
    <3>1. \A u \in Ids : symbols[u].rename <= mangling_counter
      BY DEF IInv, Counted
    <3> QED BY <3>1, <1>0, <1>03
  <2>30. \A u \in Ids : symbols[u].rename # mangling_counter + 1
    BY <2>2, <1>03, <1>0
  <2>3. CASE i \in Ids /\ j \in Ids
    <3>1. CASE symbols[i].rename = symbols'[i].rename /\ symbols[j].rename = symbols'[j].rename
      <4>1. getName(i) = getName(j) /\ symbols[i].rename # 0
        BY <2>1, <2>3, <3>1, <1>5 DEF getName
      <4>2. SameEntry(i, j)
        BY <2>3, <4>1 DEF IInv, NewNamesDiffer
      <4> QED BY <2>3, <4>2, <1>5 DEF SameEntry
    <3>2. CASE ~(symbols[i].rename = symbols'[i].rename /\ symbols[j].rename = symbols'[j].rename)
      <4>1. k = "static data" /\ r = mangling_counter + 1
        BY <2>3, <3>2, <1>5, <1>2 DEF Mangled, Statics, Data, DataDefinitions, Shares
      <4>2. symbols'[i].rename = r /\ symbols'[j].rename = r
        BY <2>1, <2>3, <3>2, <1>5
      <4>3. \A u \in {i, j} : /\ symbols[u].kind \in Data \ Blocks
                             /\ symbols[u].module = module /\ symbols[u].name = n
        <5>1. symbols[i].rename # r /\ symbols[j].rename # r
          BY <2>3, <2>30, <4>1
        <5> QED BY <2>3, <4>2, <5>1, <1>5 DEF Shares
      <4>4. \A u \in {i, j} : symbols[u].kind \notin Blocks \cup {"tag"}
        BY <4>3 DEF Data, DataDefinitions, ExternData
      <4> QED BY <2>3, <4>3, <4>4, <1>5 DEF SameEntry
    <3> QED BY <3>1, <3>2
  <2>4. CASE ~(i \in Ids /\ j \in Ids)
    <3>1. PICK u \in Ids : {i, j} = {u, new}
      BY <2>4, <1>3
    <3>2. symbols'[u].rename = r /\ r # 0
      <4>1. (i = u /\ j = new) \/ (i = new /\ j = u)
        BY <3>1
      <4> QED BY <2>1, <4>1, <1>4
    <3>3. r = mangling_counter + 1
      BY <3>2, <1>2
    <3>4. /\ k = "static data" /\ symbols[u].kind \in Data \ Blocks
          /\ symbols[u].module = module /\ symbols[u].name = n
      <4>1. symbols[u].rename # r
        BY <2>30, <3>3
      <4> QED BY <3>2, <4>1, <1>5 DEF Shares
    <3>5. {symbols'[u].kind, symbols'[new].kind} \cap (Blocks \cup {"tag"}) = {}
      BY <3>4, <1>4, <1>5 DEF Data, DataDefinitions, ExternData, Blocks
    <3>6. SameEntry(u, new)' /\ SameEntry(new, u)'
      BY <3>4, <3>5, <1>4, <1>5 DEF SameEntry
    <3>7. (i = u /\ j = new) \/ (i = new /\ j = u)
      BY <3>1
    <3> QED BY <3>6, <3>7
  <2> QED BY <2>3, <2>4
<1>9. Uniform'
  <2>1. ASSUME NEW i \in Ids, NEW j \in Ids, SameEntry(i, j)'
        PROVE  /\ Is(i, Data)' <=> Is(j, Data)'
               /\ Is(i, DataDefinitions)' /\ Is(j, DataDefinitions)' =>
                    symbols'[i].kind = symbols'[j].kind /\ symbols'[i].rename = symbols'[j].rename
    <3>1. SameEntry(i, j)
      BY <2>1, <1>5 DEF SameEntry
    <3>2. /\ Is(i, Data) <=> Is(j, Data)
          /\ Is(i, DataDefinitions) /\ Is(j, DataDefinitions) =>
               symbols[i].kind = symbols[j].kind /\ symbols[i].rename = symbols[j].rename
      BY <3>1 DEF IInv, Uniform
    <3> QED BY <3>1, <3>2, <1>5 DEF SameEntry, Is, Shares
  <2>2. ASSUME NEW i \in Ids, SameEntry(i, new)'
        PROVE  /\ Is(i, Data)' <=> Is(new, Data)'
               /\ Is(i, DataDefinitions)' /\ Is(new, DataDefinitions)' =>
                    /\ symbols'[i].kind = symbols'[new].kind
                    /\ symbols'[i].rename = symbols'[new].rename
    <3>1. symbols[i].module = module /\ symbols[i].name = n /\ ~Is(i, Blocks) /\ k \notin Blocks
      <4>1. /\ symbols'[i].module = symbols'[new].module /\ symbols'[i].name = symbols'[new].name
            /\ symbols'[i].kind \notin Blocks /\ symbols'[new].kind \notin Blocks
        BY <2>2 DEF SameEntry
      <4> QED BY <4>1, <1>4, <1>5 DEF Is
    <3>2. /\ k \in Data <=> Is(i, Data)
          /\ k \in DataDefinitions /\ Is(i, DataDefinitions) => symbols[i].kind = k
      BY <3>1, <1>3 DEF Accepts
    <3>3. CASE k = "static data"
      <4>1. Is(i, Data) /\ symbols[i].kind \in Data \ Blocks
        BY <3>1, <3>2, <3>3 DEF Is, Data, DataDefinitions
      <4>2. symbols'[i].rename = r
        BY <3>1, <3>3, <4>1, <1>5 DEF Shares
      <4>3. Is(i, DataDefinitions) => symbols[i].kind = k
        BY <3>2, <3>3 DEF DataDefinitions
      <4> QED BY <3>2, <4>1, <4>2, <4>3, <1>4, <1>5 DEF Is
    <3>4. CASE k # "static data"
      <4>1. k \in DataDefinitions /\ Is(i, DataDefinitions) => k = "data"
        BY <3>1, <3>2, <3>4 DEF DataDefinitions, Blocks
      <4>2. k = "data" => r = 0
        BY <1>2 DEF Mangled, Statics
      <4>3. symbols[i].kind = "data" => symbols[i].rename = 0
        BY DEF IInv, Uniform
      <4>4. symbols'[i].rename = symbols[i].rename /\ symbols'[i].kind = symbols[i].kind
        BY <3>4, <1>5 DEF Shares
      <4>5. Is(i, Data)' <=> Is(new, Data)'
        BY <3>2, <4>4, <1>4 DEF Is
      <4>6. ASSUME Is(i, DataDefinitions)', Is(new, DataDefinitions)'
            PROVE  symbols'[i].kind = symbols'[new].kind /\ symbols'[i].rename = symbols'[new].rename
        <5>1. k \in DataDefinitions /\ Is(i, DataDefinitions)
          BY <4>4, <4>6, <1>4 DEF Is
        <5> QED BY <5>1, <3>2, <4>1, <4>2, <4>3, <4>4, <1>4
      <4> QED BY <4>5, <4>6
    <3> QED BY <3>3, <3>4
  <2>3. \A i \in Ids : SameEntry(i, new)' <=> SameEntry(new, i)'
    BY DEF SameEntry
  <2>4. ASSUME NEW i \in Ids', symbols'[i].kind = "data" PROVE symbols'[i].rename = 0
    <3>1. CASE i \in Ids
      <4>1. symbols[i].kind = "data" /\ symbols[i].rename = 0
        BY <2>4, <3>1, <1>5 DEF IInv, Uniform
      <4>2. ASSUME k = "static data", symbols[i].module = module, symbols[i].name = n
            PROVE  FALSE
        <5>1. ~Is(i, Blocks) /\ Is(i, DataDefinitions)
          BY <4>1 DEF Is, Blocks, DataDefinitions
        <5>2. Accepts(k, n)
          BY <1>3, <4>2 DEF Blocks
        <5> QED BY <3>1, <4>1, <4>2, <5>1, <5>2 DEF Accepts, DataDefinitions
      <4> QED BY <3>1, <4>1, <4>2, <1>5 DEF Shares
    <3>2. CASE i = new
      BY <2>4, <3>2, <1>2, <1>4 DEF Mangled, Statics
    <3> QED BY <3>1, <3>2, <1>3
  <2>5. ASSUME NEW i \in Ids', NEW j \in Ids', SameEntry(i, j)'
        PROVE  /\ Is(i, Data)' <=> Is(j, Data)'
               /\ Is(i, DataDefinitions)' /\ Is(j, DataDefinitions)' =>
                    symbols'[i].kind = symbols'[j].kind /\ symbols'[i].rename = symbols'[j].rename
    <3>1. CASE i \in Ids /\ j \in Ids
      BY <3>1, <2>1, <2>5
    <3>2. CASE i \in Ids /\ j = new
      BY <3>2, <2>2, <2>5
    <3>3. CASE i = new /\ j \in Ids
      <4>1. SameEntry(j, new)'
        BY <3>3, <2>3, <2>5
      <4> QED BY <3>3, <4>1, <2>2
    <3>4. CASE i = new /\ j = new
      BY <3>4
    <3> QED BY <3>1, <3>2, <3>3, <3>4, <1>3
  <2> QED BY <2>4, <2>5 DEF Uniform
<1>10. Listed' /\ ListKinds'
  BY <1>3 DEF IInv, Listed, ListKinds, link
<1> QED BY <1>6, <1>7, <1>8, <1>9, <1>10 DEF IInv

LEMMA EndModuleKeeps ==
  ASSUME IInv, NEW tags \in Seq(Names), EndModule(tags)
  PROVE  IInv'
<1> USE ReentrantLinkAssumption
<1>1. TypeOK /\ symbols \in Seq(SymbolSet) /\ mangling_counter \in Nat
  BY DEF IInv, TypeOK, SymbolSet
<1>2. Len(symbols) \in Nat /\ Ids = 1..Len(symbols) /\ Len(tags) \in Nat
  BY <1>1 DEF Ids
<1>3. /\ symbols' \in Seq(SymbolSet) /\ Len(symbols') <= MaxSymbols
      /\ Ids \subseteq Ids'
      /\ \A i \in Ids : symbols'[i] = symbols[i]
      /\ mangling_counter' = mangling_counter + Len(tags)
      /\ pass = "walk" /\ module' \in Modules /\ pass' \in {"walk", "data"}
      /\ todo' \subseteq Ids'
      /\ pass' = "data" => \A i \in todo' : symbols'[i].kind \in DataDefinitions
      /\ UNCHANGED <<optionLink, link, errors, warnings>>
  BY <1>1, EndModuleEffect
<1>4. \A i \in Ids' \ Ids : /\ symbols'[i].kind = "tag"
                            /\ symbols'[i].rename = mangling_counter + (i - Len(symbols))
                            /\ i \in (Len(symbols) + 1)..(Len(symbols) + Len(tags))
  BY <1>1, EndModuleEffect
<1>5. \A i \in Ids : symbols[i].rename \in Nat /\ symbols[i].rename <= mangling_counter
  <2>1. \A i \in Ids : symbols[i] \in SymbolSet
    BY <1>1, <1>2
  <2> QED BY <2>1 DEF IInv, Counted, SymbolSet
<1>6. TypeOK'
  <2>1. symbols' \in Seq([module : Modules, kind : Kinds, name : Names, rename : Nat])
    BY <1>3 DEF SymbolSet
  <2>2. (globalInstanceDataList \in Seq({i \in Ids : Is(i, DataDefinitions)}))'
    BY <1>3 DEF IInv, Listed, link
  <2>3. mangling_counter' \in Nat /\ pass' \in Passes
    BY <1>1, <1>2, <1>3 DEF Passes
  <2>4. programInternal' \subseteq Ids' /\ nullified' \subseteq Ids'
    BY <1>1, <1>3 DEF TypeOK, link
  <2> QED BY <1>1, <1>3, <2>1, <2>2, <2>3, <2>4 DEF TypeOK, link
<1>7. Counted'
  <2>1. ASSUME NEW i \in Ids' PROVE symbols'[i].rename <= mangling_counter'
    <3>1. CASE i \in Ids
      BY <3>1, <1>1, <1>2, <1>3, <1>5
    <3>2. CASE i \notin Ids
      <4>1. symbols'[i].rename = mangling_counter + (i - Len(symbols))
        BY <2>1, <3>2, <1>4
      <4>2. i - Len(symbols) <= Len(tags) /\ i \in Int
        BY <2>1, <3>2, <1>2, <1>4
      <4> QED BY <4>1, <4>2, <1>1, <1>2, <1>3
    <3> QED BY <3>1, <3>2
  <2> QED BY <2>1, <1>3 DEF Counted
<1>8. NewNamesDiffer'
  <2> SUFFICES ASSUME NEW i \in Ids', NEW j \in Ids', i # j, symbols'[i].rename # 0,
                      getName(i)' = getName(j)'
               PROVE  SameEntry(i, j)'
    BY DEF NewNamesDiffer
  <2>1. symbols'[i].rename = symbols'[j].rename
    BY DEF getName
  <2>2. CASE i \in Ids /\ j \in Ids
    <3>1. getName(i) = getName(j) /\ symbols[i].rename # 0
      BY <2>2, <1>3 DEF getName
    <3>2. SameEntry(i, j)
      BY <2>2, <3>1 DEF IInv, NewNamesDiffer
    <3> QED BY <2>2, <3>2, <1>3 DEF SameEntry
  <2>3. \A u \in Ids' \ Ids : /\ symbols'[u].rename = mangling_counter + (u - Len(symbols))
                              /\ u \in Int /\ u > Len(symbols)
    BY <1>2, <1>4
  <2>4. ASSUME NEW u \in Ids, NEW v \in Ids' \ Ids PROVE symbols'[u].rename # symbols'[v].rename
    <3>1. symbols'[u].rename \in Nat /\ symbols'[u].rename <= mangling_counter
      BY <1>3, <1>5
    <3> QED BY <3>1, <2>3, <1>1, <1>2
  <2>5. CASE i \notin Ids /\ j \notin Ids
    <3>1. i = j
      BY <2>1, <2>3, <2>5, <1>1, <1>2
    <3> QED BY <3>1
  <2> QED BY <2>1, <2>2, <2>4, <2>5
<1>9. Uniform'
  <2>1. ASSUME NEW i \in Ids', NEW j \in Ids', SameEntry(i, j)'
        PROVE  i \in Ids /\ j \in Ids /\ SameEntry(i, j)
    <3>1. i \in Ids /\ j \in Ids
      BY <2>1, <1>4 DEF SameEntry
    <3> QED BY <2>1, <3>1, <1>3 DEF SameEntry
  <2>2. ASSUME NEW i \in Ids', symbols'[i].kind = "data" PROVE symbols'[i].rename = 0
    <3>1. i \in Ids
      BY <2>2, <1>4
    <3> QED BY <2>2, <3>1, <1>3 DEF IInv, Uniform
  <2>3. ASSUME NEW i \in Ids', NEW j \in Ids', SameEntry(i, j)'
        PROVE  /\ Is(i, Data)' <=> Is(j, Data)'
               /\ Is(i, DataDefinitions)' /\ Is(j, DataDefinitions)' =>
                    symbols'[i].kind = symbols'[j].kind /\ symbols'[i].rename = symbols'[j].rename
    <3>1. i \in Ids /\ j \in Ids /\ SameEntry(i, j)
      BY <2>1, <2>3
    <3> QED BY <3>1, <1>3 DEF IInv, Uniform, Is
  <2> QED BY <2>2, <2>3 DEF Uniform
<1>10. Listed' /\ ListKinds'
  <2>1. globalInstanceDataList' = <<>>
    BY <1>3 DEF IInv, Listed, link
  <2> QED BY <1>3, <2>1 DEF Listed, ListKinds, Is
<1> QED BY <1>6, <1>7, <1>8, <1>9, <1>10 DEF IInv

\* The link leaves the symbols alone.
LEMMA SymbolsStay ==
  ASSUME IInv, UNCHANGED <<symbols, mangling_counter>>
  PROVE  /\ Counted' /\ NewNamesDiffer' /\ Uniform' /\ Ids' = Ids
         /\ \A i : getName(i)' = getName(i)
         /\ \A i, kinds : Is(i, kinds)' <=> Is(i, kinds)
<1>1. Ids' = Ids
  BY DEF Ids
<1>2. \A i : getName(i)' = getName(i)
  BY DEF getName
<1>3. \A i, kinds : Is(i, kinds)' <=> Is(i, kinds)
  BY DEF Is
<1>4. \A i, j : SameEntry(i, j)' <=> SameEntry(i, j)
  BY DEF SameEntry
<1>5. Counted'
  BY <1>1 DEF IInv, Counted
<1>6. NewNamesDiffer'
  BY <1>1, <1>2, <1>4 DEF IInv, NewNamesDiffer
<1>7. Uniform'
  BY <1>1, <1>3, <1>4 DEF IInv, Uniform
<1> QED BY <1>1, <1>2, <1>3, <1>5, <1>6, <1>7

\* A message is counted, and an error may end the link.
LEMMA MessageTypes ==
  ASSUME TypeOK, NoMessage \/ RaiseWarning \/ RaiseError
  PROVE  errors' \in Nat /\ warnings' \in Nat /\ pass' \in {pass, "failed"}
BY DEF TypeOK, NoMessage, RaiseWarning, RaiseError

\* What is left to prove of a step of the link.
LEMMA LinkStep ==
  ASSUME IInv,
         UNCHANGED <<optionLink, symbols, mangling_counter, module>>,
         pass # "walk", pass' \in {pass, "failed"}, todo' \subseteq todo,
         errors' \in Nat, warnings' \in Nat,
         programInternal' \subseteq Ids, nullified' \subseteq Ids,
         \/ UNCHANGED <<globalSymbolTable, globalInstanceDataList>>
         \/ /\ UNCHANGED globalInstanceDataList
            /\ \E i \in Ids : Enter(getName(i), "function")
         \/ \E i \in Ids : /\ Is(i, DataDefinitions) /\ Enter(getName(i), "data")
                          /\ globalInstanceDataList' = Append(globalInstanceDataList, i)
  PROVE  IInv'
<1>1. TypeOK
  BY DEF IInv
<1>2. /\ Counted' /\ NewNamesDiffer' /\ Uniform' /\ Ids' = Ids
      /\ \A i : getName(i)' = getName(i)
      /\ \A i, kinds : Is(i, kinds)' <=> Is(i, kinds)
  BY SymbolsStay
<1>3. \A i \in Ids : getName(i) \in Nat \X Names
  <2>1. symbols \in Seq(SymbolSet)
    BY <1>1 DEF TypeOK, SymbolSet
  <2>2. \A i \in Ids : symbols[i] \in SymbolSet
    BY <2>1 DEF Ids
  <2> QED BY <2>2 DEF getName, SymbolSet
<1> DEFINE D == {i \in Ids : Is(i, DataDefinitions)}
<1>4. D' = D
  BY <1>2
<1>5. globalInstanceDataList \in Seq(D)
  BY <1>1 DEF TypeOK
<1>6. /\ DOMAIN globalSymbolTable \subseteq DOMAIN globalSymbolTable'
      /\ DOMAIN globalSymbolTable' \subseteq Nat \X Names
      /\ \A n \in DOMAIN globalSymbolTable' : globalSymbolTable'[n] \in {"data", "function"}
  <2>1. CASE UNCHANGED globalSymbolTable
    BY <2>1, <1>1 DEF TypeOK
  <2>2. ASSUME NEW i \in Ids, NEW e \in {"data", "function"}, Enter(getName(i), e)
        PROVE  <1>6!1 /\ <1>6!2 /\ <1>6!3
    BY <2>2, <1>1, <1>3 DEF TypeOK, Enter
  <2> QED BY <2>1, <2>2
<1>7. /\ globalInstanceDataList' \in Seq(D)
      /\ \A k \in DOMAIN globalInstanceDataList' :
           getName(globalInstanceDataList'[k]) \in DOMAIN globalSymbolTable'
  <2>1. \A k \in DOMAIN globalInstanceDataList :
           getName(globalInstanceDataList[k]) \in DOMAIN globalSymbolTable
    BY DEF IInv, Listed
  <2>2. CASE UNCHANGED globalInstanceDataList
    BY <2>1, <2>2, <1>5, <1>6
  <2>3. ASSUME NEW i \in Ids, Is(i, DataDefinitions), Enter(getName(i), "data"),
               globalInstanceDataList' = Append(globalInstanceDataList, i)
        PROVE  <1>7!1 /\ <1>7!2
    <3>1. i \in D
      BY <2>3
    <3> HIDE DEF D
    <3>2. /\ globalInstanceDataList' \in Seq(D)
          /\ Len(globalInstanceDataList') = Len(globalInstanceDataList) + 1
          /\ globalInstanceDataList'[Len(globalInstanceDataList) + 1] = i
          /\ \A k \in 1..Len(globalInstanceDataList) :
               globalInstanceDataList'[k] = globalInstanceDataList[k]
      BY <2>3, <3>1, <1>5, AppendProperties
    <3>3. /\ DOMAIN globalInstanceDataList = 1..Len(globalInstanceDataList)
          /\ DOMAIN globalInstanceDataList' = 1..(Len(globalInstanceDataList) + 1)
          /\ Len(globalInstanceDataList) \in Nat
      BY <1>5, <3>2
    <3>4. getName(i) \in DOMAIN globalSymbolTable'
      BY <2>3 DEF Enter
    <3>5. ASSUME NEW k \in DOMAIN globalInstanceDataList'
          PROVE  getName(globalInstanceDataList'[k]) \in DOMAIN globalSymbolTable'
      <4>1. CASE k = Len(globalInstanceDataList) + 1
        BY <4>1, <3>2, <3>4
      <4>2. CASE k # Len(globalInstanceDataList) + 1
        <5>1. k \in 1..Len(globalInstanceDataList)
          BY <4>2, <3>3
        <5> QED BY <5>1, <3>2, <3>3, <2>1, <1>6
      <4> QED BY <4>1, <4>2
    <3> QED BY <3>2, <3>5
  <2> QED BY <2>2, <2>3
<1>8. TypeOK'
  <2>1. (globalInstanceDataList \in Seq({i \in Ids : Is(i, DataDefinitions)}))'
    BY <1>4, <1>7
  <2>2. pass' \in Passes
    BY <1>1 DEF TypeOK, Passes
  <2> QED BY <1>1, <1>2, <1>6, <2>1, <2>2 DEF TypeOK
<1>9. Listed'
  BY <1>2, <1>7 DEF Listed
<1>10. ListKinds'
  BY <1>2 DEF IInv, ListKinds
<1> QED BY <1>2, <1>8, <1>9, <1>10 DEF IInv

\* Marking a symbol, with the other declarations of its entry.
LEMMA Marks ==
  ASSUME TypeOK, NEW i \in Ids, setProgramInternal(i)
  PROVE  programInternal' \subseteq Ids
BY DEF TypeOK, setProgramInternal, Brothers

LEMMA LinkInstanceDataKeeps ==
  ASSUME IInv, NEW i \in Ids, LinkInstanceData(i)
  PROVE  IInv'
<1>1. TypeOK
  BY DEF IInv
<1>2. /\ UNCHANGED <<optionLink, symbols, module, mangling_counter, nullified>>
      /\ pass = "data" /\ i \in todo /\ todo' = todo \ {i} /\ setProgramInternal(i)
  BY DEF LinkInstanceData, First
<1>3. Is(i, DataDefinitions)
  BY <1>2 DEF IInv, ListKinds
<1>4. NoMessage \/ RaiseWarning \/ RaiseError
  BY DEF LinkInstanceData, Redefinition
<1>5. \/ UNCHANGED <<globalSymbolTable, globalInstanceDataList>>
      \/ /\ Enter(getName(i), "data")
         /\ globalInstanceDataList' = Append(globalInstanceDataList, i)
  BY DEF LinkInstanceData
<1>6. errors' \in Nat /\ warnings' \in Nat /\ pass' \in {pass, "failed"}
  BY <1>1, <1>4, MessageTypes
<1>7. programInternal' \subseteq Ids /\ nullified' \subseteq Ids
  BY <1>1, <1>2, Marks DEF TypeOK
<1> QED BY <1>2, <1>3, <1>5, <1>6, <1>7, LinkStep

LEMMA LinkExternKeeps ==
  ASSUME IInv, NEW i \in Ids, LinkExtern(i)
  PROVE  IInv'
<1>1. TypeOK
  BY DEF IInv
<1>2. /\ UNCHANGED <<optionLink, symbols, module, mangling_counter, globalSymbolTable,
                     globalInstanceDataList>>
      /\ pass = "extern" /\ todo' = todo \ {i} /\ NoMessage
      /\ \/ setProgramInternal(i) /\ nullified' = nullified \cup {i}
         \/ UNCHANGED <<programInternal, nullified>>
  BY DEF LinkExtern
<1>3. errors' \in Nat /\ warnings' \in Nat /\ pass' \in {pass, "failed"}
  BY <1>1, <1>2, MessageTypes
<1>4. programInternal' \subseteq Ids /\ nullified' \subseteq Ids
  BY <1>1, <1>2, Marks DEF TypeOK
<1> QED BY <1>2, <1>3, <1>4, LinkStep

LEMMA LinkDefinitionKeeps ==
  ASSUME IInv, NEW i \in Ids, LinkDefinition(i)
  PROVE  IInv'
<1>1. TypeOK
  BY DEF IInv
<1>2. /\ UNCHANGED <<optionLink, symbols, module, mangling_counter,
                     globalInstanceDataList, nullified>>
      /\ pass = "definitions" /\ todo' = todo \ {i} /\ setProgramInternal(i)
  BY DEF LinkDefinition
<1>3. /\ NoMessage \/ RaiseWarning \/ RaiseError
      /\ UNCHANGED globalSymbolTable \/ Enter(getName(i), "function")
  BY DEF LinkDefinition
<1>4. errors' \in Nat /\ warnings' \in Nat /\ pass' \in {pass, "failed"}
  BY <1>1, <1>3, MessageTypes
<1>5. programInternal' \subseteq Ids /\ nullified' \subseteq Ids
  BY <1>1, <1>2, Marks DEF TypeOK
<1> QED BY <1>2, <1>3, <1>4, <1>5, LinkStep

LEMMA LinkPrototypeKeeps ==
  ASSUME IInv, NEW i \in Ids, LinkPrototype(i)
  PROVE  IInv'
<1>1. TypeOK
  BY DEF IInv
<1>2. /\ UNCHANGED <<optionLink, symbols, module, mangling_counter, globalSymbolTable,
                     globalInstanceDataList, nullified>>
      /\ pass = "prototypes" /\ todo' = todo \ {i} /\ NoMessage
      /\ setProgramInternal(i) \/ UNCHANGED programInternal
  BY DEF LinkPrototype
<1>3. errors' \in Nat /\ warnings' \in Nat /\ pass' \in {pass, "failed"}
  BY <1>1, <1>2, MessageTypes
<1>4. programInternal' \subseteq Ids /\ nullified' \subseteq Ids
  BY <1>1, <1>2, Marks DEF TypeOK
<1> QED BY <1>2, <1>3, <1>4, LinkStep

LEMMA NextListKeeps ==
  ASSUME IInv, NextList
  PROVE  IInv'
<1> USE ReentrantLinkAssumption
<1>1. TypeOK
  BY DEF IInv
<1>2. /\ UNCHANGED <<optionLink, symbols, mangling_counter, link, errors, warnings>>
      /\ pass # "walk" /\ pass' \in Passes \ {"walk", "data"}
      /\ module' \in Modules /\ todo' \subseteq Ids
  BY <1>1 DEF NextList, Passes, Modules, ExternList, FunctionList, TypeOK
<1>3. /\ Counted' /\ NewNamesDiffer' /\ Uniform' /\ Ids' = Ids
      /\ \A i : getName(i)' = getName(i)
      /\ \A i, kinds : Is(i, kinds)' <=> Is(i, kinds)
  BY <1>2, SymbolsStay
<1>4. TypeOK'
  BY <1>1, <1>2, <1>3 DEF TypeOK, link
<1>5. Listed' /\ ListKinds'
  BY <1>2, <1>3 DEF IInv, Listed, ListKinds, link
<1> QED BY <1>3, <1>4, <1>5 DEF IInv

LEMMA NextIInv == IInv /\ [Next]_vars => IInv'
<1> SUFFICES ASSUME IInv, [Next]_vars PROVE IInv'
  OBVIOUS
<1>1. ASSUME NEW k \in Kinds, NEW n \in Names, Declare(k, n) PROVE IInv'
  BY <1>1, DeclareKeeps
<1>2. ASSUME NEW tags \in {<<>>} \cup {<<n>> : n \in Names}, EndModule(tags) PROVE IInv'
  <2>1. tags \in Seq(Names)
    <3>1. CASE tags = <<>>
      BY <3>1
    <3>2. ASSUME NEW n \in Names, tags = <<n>> PROVE tags \in Seq(Names)
      BY <3>2
    <3> QED BY <3>1, <3>2
  <2> QED BY <1>2, <2>1, EndModuleKeeps
<1>3. CASE NextList
  BY <1>3, NextListKeeps
<1>4. ASSUME NEW i \in Ids,
             LinkInstanceData(i) \/ LinkExtern(i) \/ LinkDefinition(i) \/ LinkPrototype(i)
      PROVE  IInv'
  BY <1>4, LinkInstanceDataKeeps, LinkExternKeeps, LinkDefinitionKeeps, LinkPrototypeKeeps
<1>5. CASE UNCHANGED vars
  <2>1. UNCHANGED <<optionLink, symbols, pass, module, mangling_counter, todo, link,
                    errors, warnings>>
    BY <1>5 DEF vars
  <2>2. /\ Counted' /\ NewNamesDiffer' /\ Uniform' /\ Ids' = Ids
        /\ \A i : getName(i)' = getName(i)
        /\ \A i, kinds : Is(i, kinds)' <=> Is(i, kinds)
    BY <2>1, SymbolsStay
  <2>3. TypeOK'
    BY <2>1, <2>2 DEF IInv, TypeOK, link
  <2>4. Listed' /\ ListKinds'
    BY <2>1, <2>2 DEF IInv, Listed, ListKinds, link
  <2> QED BY <2>2, <2>3, <2>4 DEF IInv
<1> QED BY <1>1, <1>2, <1>3, <1>4, <1>5 DEF Next

\* The inductive invariant holds of every reachable state.
THEOREM InvariantHolds == Spec => []IInv
<1>1. Init => IInv
  BY InitIInv
<1>2. IInv /\ [Next]_vars => IInv'
  BY NextIInv
<1> QED BY <1>1, <1>2, PTL DEF Spec

\* The state of the reentrant compiler is well typed, in whatever order the
\* modules declare their names.
THEOREM ReentrantTypeCorrect == Spec => []TypeOK
<1>1. IInv => TypeOK
  BY DEF IInv
<1> QED BY <1>1, InvariantHolds, PTL

\* Two renamed symbols of a program, however many modules it has, have different
\* names unless they declare one static variable.
THEOREM NewNamesAreDistinct == Spec => []NewNamesDiffer
<1>1. IInv => NewNamesDiffer
  BY DEF IInv
<1> QED BY <1>1, InvariantHolds, PTL

-----------------------------------------------------------------------------
(* The refinement.                                                          *)

\* Two definitions of one variable are printed under one name.
LEMMA OneNamePerVariable ==
  ASSUME IInv, NEW i \in Ids, NEW j \in Ids, Is(i, DataDefinitions), Is(j, DataDefinitions),
         Entity(i) = Entity(j)
  PROVE  getName(i) = getName(j)
<1>1. symbols \in Seq(SymbolSet) /\ Ids = 1..Len(symbols)
  BY DEF IInv, TypeOK, SymbolSet, Ids
<1>2. \A u \in Ids : /\ symbols[u].module \in Nat \ {0} /\ symbols[u].name \in Names
                    /\ symbols[u].kind \in Kinds /\ u \in Nat \ {0}
  <2>1. \A u \in Ids : symbols[u] \in SymbolSet
    BY <1>1
  <2>2. Modules \subseteq Nat \ {0}
    BY ReentrantLinkAssumption DEF Modules
  <2>3. \A u \in Ids : u \in Nat \ {0}
    BY <1>1
  <2>4. \A r \in SymbolSet : r.module \in Nat \ {0} /\ r.name \in Names /\ r.kind \in Kinds
    BY <2>2 DEF SymbolSet
  <2> QED BY <2>1, <2>3, <2>4
<1>3. CASE symbols[i].kind = "block static data" \/ symbols[j].kind = "block static data"
  <2>1. i = j
    BY <1>2, <1>3 DEF Entity
  <2> QED BY <2>1
<1>4. CASE symbols[i].kind # "block static data" /\ symbols[j].kind # "block static data"
  <2>1. \A u \in {i, j} : symbols[u].kind \in {"data", "static data"}
    BY <1>4 DEF Is, DataDefinitions
  <2>2. symbols[i].name = symbols[j].name
    BY <1>4 DEF Entity
  <2>3. \A u \in {i, j} : symbols[u].kind = "static data" =>
                            Static(symbols[u].module, symbols[u].name, u)
    <3>1. ASSUME NEW u \in Ids, symbols[u].kind = "static data"
          PROVE  Static(symbols[u].module, symbols[u].name, u)
      <4>1. Is(u, Statics \ Blocks)
        BY <3>1 DEF Is, Statics, Blocks
      <4>2. u <= u
        BY <1>2
      <4> QED BY <4>1, <4>2 DEF Static
    <3> QED BY <3>1
  <2>4. CASE symbols[i].module = symbols[j].module
    <3>1. SameEntry(i, j)
      BY <2>1, <2>2, <2>4 DEF SameEntry, Blocks
    <3> QED BY <2>2, <3>1 DEF IInv, Uniform, getName
  <2>5. CASE symbols[i].module # symbols[j].module
    <3>1. \A u \in {i, j} : ~Static(symbols[u].module, symbols[u].name, u)
      BY <1>2, <1>4, <2>5 DEF Entity
    <3>2. symbols[i].kind = "data" /\ symbols[j].kind = "data"
      BY <2>1, <2>3, <3>1
    <3> QED BY <2>2, <3>2 DEF IInv, Uniform, getName
  <2> QED BY <2>4, <2>5
<1> QED BY <1>3, <1>4

LEMMA EntityType ==
  ASSUME IInv, NEW i \in Ids
  PROVE  Entity(i) \in Entities
<1>1. symbols \in Seq(SymbolSet) /\ Ids = 1..Len(symbols) /\ Len(symbols) \in Nat
  BY DEF IInv, TypeOK, SymbolSet, Ids
<1>2. symbols[i] \in SymbolSet
  BY <1>1
<1>3. /\ symbols[i].module \in 0..NbModules /\ symbols[i].name \in Names
      /\ i \in 0..MaxSymbols /\ 0 \in 0..NbModules /\ 0 \in 0..MaxSymbols
  BY <1>1, <1>2, ReentrantLinkAssumption DEF IInv, Counted, SymbolSet, Modules
<1> QED BY <1>3 DEF Entity, Entities

Members == [k \in DOMAIN globalInstanceDataList |-> Entity(globalInstanceDataList[k])]

LEMMA StepBuilds == IInv /\ [Next]_vars => [Structure!Next]_Members
<1> SUFFICES ASSUME IInv, [Next]_vars PROVE [Structure!Next]_Members
  OBVIOUS
<1>1. CASE globalInstanceDataList' = globalInstanceDataList /\ symbols' = symbols
  <2>1. \A i : Entity(i)' = Entity(i)
    BY <1>1 DEF Entity, Static, Ids, Is
  <2> QED BY <1>1, <2>1 DEF Members
<1>2. CASE globalInstanceDataList' = globalInstanceDataList /\ pass = "walk"
  <2>1. globalInstanceDataList = <<>>
    BY <1>2 DEF IInv, Listed
  <2>2. DOMAIN globalInstanceDataList = {} /\ DOMAIN globalInstanceDataList' = {}
    BY <1>2, <2>1
  <2> QED BY <2>2 DEF Members
<1>3. ASSUME NEW i \in Ids, LinkInstanceData(i),
             globalInstanceDataList' # globalInstanceDataList
      PROVE  Structure!Next
  <2>1. /\ getName(i) \notin DOMAIN globalSymbolTable /\ symbols' = symbols
        /\ globalInstanceDataList' = Append(globalInstanceDataList, i)
        /\ pass = "data" /\ i \in todo
    BY <1>3 DEF LinkInstanceData, First
  <2>2. Is(i, DataDefinitions)
    BY <2>1 DEF IInv, ListKinds
  <2> DEFINE D == {u \in Ids : Is(u, DataDefinitions)}
             list == globalInstanceDataList
  <2>3. list \in Seq(D)
    BY DEF IInv, TypeOK
  <2>4. Len(list) \in Nat /\ DOMAIN list = 1..Len(list) /\ \A k \in 1..Len(list) : list[k] \in D
    BY <2>3
  <2>5. ASSUME NEW k \in 1..Len(list) PROVE Entity(list[k]) # Entity(i)
    <3>1. list[k] \in Ids /\ Is(list[k], DataDefinitions)
      BY <2>4
    <3>2. getName(list[k]) \in DOMAIN globalSymbolTable
      BY <2>4 DEF IInv, Listed
    <3>3. SUFFICES ASSUME Entity(list[k]) = Entity(i) PROVE FALSE
      OBVIOUS
    <3>4. getName(list[k]) = getName(i)
      BY <2>2, <3>1, <3>3, OneNamePerVariable
    <3> QED BY <2>1, <3>2, <3>4
  <2>6. \A u : Entity(u)' = Entity(u)
    BY <2>1 DEF Entity, Static, Ids, Is
  <2>7. Entity(i) \in Entities
    BY EntityType
  <2> HIDE DEF D
  <2>8. i \in D
    BY <2>2 DEF D
  <2>9. /\ Len(list') = Len(list) + 1 /\ list' \in Seq(D)
        /\ list'[Len(list) + 1] = i
        /\ \A k \in 1..Len(list) : list'[k] = list[k]
    BY <2>1, <2>3, <2>8, AppendProperties
  <2>10. DOMAIN list' = 1..(Len(list) + 1)
    BY <2>9
  <2> DEFINE e == Entity(i)
             members == [k \in DOMAIN list |-> Entity(list[k])]
  <2>11. /\ members \in Seq(Entities) /\ Len(members) = Len(list)
         /\ \A k \in 1..Len(list) : members[k] = Entity(list[k])
    <3>1. \A k \in 1..Len(list) : Entity(list[k]) \in Entities
      BY <2>4, EntityType DEF D
    <3>2. members \in [1..Len(list) -> Entities]
      BY <2>4, <3>1
    <3>3. \A k \in 1..Len(list) : members[k] = Entity(list[k])
      BY <2>4
    <3> QED BY <2>4, <3>2, <3>3, SeqDef, LenProperties
  <2>12. /\ Append(members, e) \in Seq(Entities) /\ Len(Append(members, e)) = Len(list) + 1
         /\ Append(members, e)[Len(list) + 1] = e
         /\ \A k \in 1..Len(list) : Append(members, e)[k] = Entity(list[k])
    <3> HIDE DEF members, e
    <3>1. e \in Entities
      BY <2>7 DEF e
    <3> QED BY <3>1, <2>11, AppendProperties
  <2>13. Members' = [k \in 1..(Len(list) + 1) |-> Entity(list'[k])]
    BY <2>6, <2>10 DEF Members
  <2>14. Append(members, e) = [k \in 1..(Len(list) + 1) |-> Append(members, e)[k]]
    <3> DEFINE t == Append(members, e)
    <3>1. t \in Seq(Entities) /\ Len(t) = Len(list) + 1
      BY <2>12
    <3> HIDE DEF members, e, t
    <3>2. t \in [1..(Len(list) + 1) -> Entities]
      BY <3>1
    <3>3. t = [k \in 1..(Len(list) + 1) |-> t[k]]
      BY <3>2
    <3> QED BY <3>3 DEF t
  <2>15. \A k \in 1..(Len(list) + 1) : Entity(list'[k]) = Append(members, e)[k]
    <3>1. ASSUME NEW k \in 1..(Len(list) + 1) PROVE Entity(list'[k]) = Append(members, e)[k]
      <4>1. CASE k = Len(list) + 1
        BY <4>1, <2>9, <2>12
      <4>2. CASE k # Len(list) + 1
        <5>1. k \in 1..Len(list)
          BY <4>2, <2>4
        <5> QED BY <5>1, <2>9, <2>12
      <4> QED BY <4>1, <4>2
    <3> QED BY <3>1
  <2>16. Members' = Append(members, e)
    <3> HIDE DEF members, e
    <3> QED BY <2>13, <2>14, <2>15
  <2>17. ~ \E k \in DOMAIN members : members[k] = e
    BY <2>4, <2>5
  <2> QED BY <2>7, <2>16, <2>17 DEF Members, Structure!Next, Structure!AddMember, Structure!Holds
<1>4. ASSUME Next
      PROVE  \/ globalInstanceDataList' = globalInstanceDataList /\ symbols' = symbols
             \/ globalInstanceDataList' = globalInstanceDataList /\ pass = "walk"
             \/ \E i \in Ids : LinkInstanceData(i) /\ globalInstanceDataList' # globalInstanceDataList
  <2>1. ASSUME NEW k \in Kinds, NEW n \in Names, Declare(k, n)
        PROVE  globalInstanceDataList' = globalInstanceDataList /\ pass = "walk"
    BY <2>1 DEF Declare, link
  <2>2. ASSUME NEW tags, EndModule(tags)
        PROVE  globalInstanceDataList' = globalInstanceDataList /\ pass = "walk"
    BY <2>2 DEF EndModule, link
  <2>3. ASSUME NextList
        PROVE  globalInstanceDataList' = globalInstanceDataList /\ symbols' = symbols
    BY <2>3 DEF NextList, link
  <2>4. ASSUME NEW i \in Ids, LinkExtern(i) \/ LinkDefinition(i) \/ LinkPrototype(i)
        PROVE  globalInstanceDataList' = globalInstanceDataList /\ symbols' = symbols
    BY <2>4 DEF LinkExtern, LinkDefinition, LinkPrototype
  <2>5. ASSUME NEW i \in Ids, LinkInstanceData(i)
        PROVE  symbols' = symbols
    BY <2>5 DEF LinkInstanceData
  <2> QED BY <1>4, <2>1, <2>2, <2>3, <2>4, <2>5 DEF Next
<1>5. CASE UNCHANGED vars
  BY <1>1, <1>5 DEF vars, link
<1> QED BY <1>1, <1>2, <1>3, <1>4, <1>5

\* Every behaviour of the reentrant compiler, for any number of modules and
\* declarations, builds one structure that has each variable at most once and
\* whose members keep their places.
THEOREM StructureIsBuilt == Spec => ImplementsStructure
<1>1. Init => Members = <<>>
  BY DEF Init, Members
<1>2. IInv /\ [Next]_vars => [Structure!Next]_Members
  BY StepBuilds
<1> QED BY <1>1, <1>2, InvariantHolds, PTL
        DEF Spec, ImplementsStructure, Structure!Spec, Structure!Init, Members

-----------------------------------------------------------------------------
(* What the walk leaves for the link.                                       *)

\* One entry of the table has one function definition at most; only static
\* variables, and what shares an entry with one, have new names.
WalkInv ==
  /\ \A i, j \in Ids : SameEntry(i, j) /\ Is(i, FunctionDefinitions)
                         /\ Is(j, FunctionDefinitions) => i = j
  /\ \A i \in Ids :
       /\ Is(i, Statics \cap Data) => symbols[i].rename # 0
       /\ Is(i, Functions \cup {"block extern data"}) => symbols[i].rename = 0
       /\ Is(i, {"extern data"}) /\ symbols[i].rename # 0 =>
            \E j \in Ids : SameEntry(i, j) /\ Is(j, {"static data"})

DataNames == {getName(d) : d \in {i \in Ids : Is(i, DataDefinitions)}}

\* The symbols of the lists that have been linked.
DataLinked(i)   == pass \notin {"walk", "failed"} /\ (pass = "data" => i \notin todo)
ExternLinked(i) == /\ pass \in {"extern", "definitions", "prototypes", "done"}
                   /\ pass = "extern" => i \notin todo
OfPast(i) == symbols[i].module < module \/ (symbols[i].module = module /\ i \notin todo)
DefinitionLinked(i) == pass \in {"prototypes", "done"} \/ (pass = "definitions" /\ OfPast(i))
PrototypeLinked(i)  == pass = "done" \/ (pass = "prototypes" /\ OfPast(i))

\* The lists hold what they are lists of.
ListsOK ==
  /\ pass = "extern" => todo \subseteq ExternList
  /\ pass = "definitions" => todo \subseteq FunctionList(module, FunctionDefinitions)
  /\ pass = "prototypes" => todo \subseteq FunctionList(module, Prototypes)

\* The global table holds the definitions that have been linked; no name
\* changes what it is.
GlobalOK ==
  /\ pass = "walk" => DOMAIN globalSymbolTable = {} /\ programInternal = {} /\ nullified = {}
  /\ pass \in {"data", "extern"} => \A n \in DOMAIN globalSymbolTable : globalSymbolTable[n] = "data"
  /\ \A n \in DOMAIN globalSymbolTable :
       /\ globalSymbolTable[n] = "data" =>
            \E d \in Ids : /\ Is(d, DataDefinitions) /\ getName(d) = n
                           /\ pass = "data" => d \notin todo
       /\ globalSymbolTable[n] = "function" =>
            \E f \in Ids : Is(f, {"function"}) /\ getName(f) = n

\* What has been linked is marked, and in the global table.
LinkedOK ==
  /\ \A d \in Ids : Is(d, DataDefinitions) /\ DataLinked(d) =>
       /\ Brothers(d) \subseteq programInternal
       /\ getName(d) \in DOMAIN globalSymbolTable /\ globalSymbolTable[getName(d)] = "data"
  /\ \A x \in Ids : Is(x, ExternData) /\ ExternLinked(x) /\ getName(x) \in DataNames =>
       x \in nullified /\ Brothers(x) \subseteq programInternal
  /\ \A f \in Ids : Is(f, FunctionDefinitions) /\ Kept(f) /\ DefinitionLinked(f) =>
       /\ Brothers(f) \subseteq programInternal
       /\ Is(f, {"function"}) =>
            /\ getName(f) \in DOMAIN globalSymbolTable
            /\ errors = 0 => globalSymbolTable[getName(f)] = "function"
  /\ \A p \in Ids : Is(p, Prototypes) /\ Kept(p) /\ PrototypeLinked(p)
                      /\ getName(p) \in DOMAIN globalSymbolTable =>
       Brothers(p) \subseteq programInternal

\* Why a symbol is marked.
Marked(k) == \/ Is(k, DataDefinitions \cup FunctionDefinitions)
             \/ Is(k, ExternData) /\ getName(k) \in DataNames
             \/ Is(k, Prototypes) /\ getName(k) \in DOMAIN globalSymbolTable

MarkedOK ==
  /\ \A i \in programInternal : \E k \in Ids : i \in Brothers(k) /\ Marked(k)
  /\ \A x \in nullified : Is(x, ExternData) /\ getName(x) \in DataNames

\* Two definitions of one name, a variable's and another's.
Clash == \E d, e \in Ids : /\ d # e /\ getName(d) = getName(e) /\ Is(d, DataDefinitions)
                           /\ Is(e, DataDefinitions \cup {"function"})

ErrorsOK ==
  /\ pass = "walk" => errors = 0
  /\ errors > 0 => Clash
  /\ pass = "done" => errors = 0
  /\ errors = 0 /\ ~optionLink => \A d, e \in Ids :
       Is(d, DataDefinitions) /\ DataLinked(d) /\ Is(e, DataDefinitions) /\ DataLinked(e)
         /\ getName(d) = getName(e) => d = e

LinkInv == ListsOK /\ GlobalOK /\ LinkedOK /\ MarkedOK /\ ErrorsOK

-----------------------------------------------------------------------------
(* The walk leaves WalkInv.                                                 *)

LEMMA TagLists == ASSUME NEW tags \in {<<>>} \cup {<<n>> : n \in Names} PROVE tags \in Seq(Names)
<1>1. CASE tags = <<>>
  BY <1>1
<1>2. ASSUME NEW n \in Names, tags = <<n>> PROVE tags \in Seq(Names)
  BY <1>2
<1> QED BY <1>1, <1>2

\* A declaration next to those of its entry.
LEMMA DeclareWalks ==
  ASSUME IInv, WalkInv, NEW k \in Kinds, NEW n \in Names, Declare(k, n)
  PROVE  WalkInv'
<1>0. /\ TypeOK /\ Len(symbols) \in Nat /\ Ids = 1..Len(symbols) /\ mangling_counter \in Nat
  BY DEF IInv, TypeOK, Ids
<1>a. PICK r \in Nat : r = IF Mangled(k) THEN mangling_counter + 1 ELSE 0
  BY <1>0
<1>b. PICK new \in Nat : new = Len(symbols) + 1
  BY <1>0
<1>c. new \notin Ids
  BY <1>0, <1>b
<1>1. /\ Ids' = Ids \cup {new}
      /\ symbols'[new] = Symbol(module, k, n, r)
      /\ k \in Blocks \/ Accepts(k, n)
  BY <1>0, <1>a, <1>b, DeclareEffect
<1>2. \A i \in Ids : /\ symbols'[i].module = symbols[i].module
                     /\ symbols'[i].kind = symbols[i].kind
                     /\ symbols'[i].name = symbols[i].name
                     /\ symbols'[i].rename =
                          IF Shares(i, k, n) THEN r ELSE symbols[i].rename
  BY <1>0, <1>a, DeclareEffect
<1>3. /\ symbols'[new].module = module /\ symbols'[new].kind = k
      /\ symbols'[new].name = n /\ symbols'[new].rename = r
  BY <1>1 DEF Symbol
<1>4. /\ \A i, j \in Ids : SameEntry(i, j)' <=> SameEntry(i, j)
      /\ \A i \in Ids : SameEntry(i, new)' <=>
           /\ symbols[i].module = module /\ symbols[i].name = n
           /\ {symbols[i].kind, k} \cap (Blocks \cup {"tag"}) = {}
      /\ \A i \in Ids : SameEntry(new, i)' <=> SameEntry(i, new)'
      /\ \A i \in Ids : \A kinds : Is(i, kinds)' <=> Is(i, kinds)
      /\ \A kinds : Is(new, kinds)' <=> k \in kinds
  BY <1>2, <1>3 DEF SameEntry, Is
<1>5. ASSUME NEW i \in Ids, SameEntry(i, new)', Is(i, FunctionDefinitions), k \in FunctionDefinitions
      PROVE  FALSE
  <2>1. /\ symbols[i].module = module /\ symbols[i].name = n
        /\ {symbols[i].kind, k} \cap (Blocks \cup {"tag"}) = {}
    BY <1>4, <1>5
  <2>2. ~Is(i, Blocks) /\ k \notin Blocks
    BY <2>1 DEF Is
  <2>3. Accepts(k, n)
    BY <1>1, <2>2
  <2> QED BY <1>5, <2>1, <2>2, <2>3 DEF Accepts
<1>6. ASSUME NEW i \in Ids', NEW j \in Ids', SameEntry(i, j)', Is(i, FunctionDefinitions)',
             Is(j, FunctionDefinitions)'
      PROVE  i = j
  <2>1. CASE i \in Ids /\ j \in Ids
    BY <1>4, <1>6, <2>1 DEF WalkInv
  <2>2. CASE i \in Ids /\ j = new
    BY <1>4, <1>5, <1>6, <2>2
  <2>3. CASE i = new /\ j \in Ids
    BY <1>4, <1>5, <1>6, <2>3
  <2> QED BY <1>1, <2>1, <2>2, <2>3
<1>7. ASSUME NEW i \in Ids
      PROVE  /\ Is(i, Statics \cap Data)' => symbols'[i].rename # 0
             /\ Is(i, Functions \cup {"block extern data"})' => symbols'[i].rename = 0
             /\ Is(i, {"extern data"})' /\ symbols'[i].rename # 0 =>
                  \E j \in Ids' : SameEntry(i, j)' /\ Is(j, {"static data"})'
  <2>1. CASE Shares(i, k, n)
    <3>1. /\ k = "static data" /\ symbols[i].kind \in Data \ Blocks
          /\ symbols[i].module = module /\ symbols[i].name = n
      BY <2>1 DEF Shares
    <3>0. Mangled(k)
      BY <3>1 DEF Mangled, Statics, Data, DataDefinitions
    <3>2. symbols'[i].rename = r /\ r # 0
      BY <1>0, <1>a, <1>2, <2>1, <3>0
    <3>3. ~Is(i, Functions \cup {"block extern data"})
      BY <3>1 DEF Is, Functions, FunctionDefinitions, Prototypes, Data, DataDefinitions,
                  ExternData, Blocks
    <3>4. SameEntry(i, new)' /\ Is(new, {"static data"})'
      BY <1>4, <3>1 DEF Blocks, Data, DataDefinitions, ExternData
    <3> QED BY <1>1, <1>4, <3>2, <3>3, <3>4
  <2>2. CASE ~Shares(i, k, n)
    <3>1. symbols'[i].rename = symbols[i].rename
      BY <1>2, <2>2
    <3>2. /\ Is(i, Statics \cap Data) => symbols[i].rename # 0
          /\ Is(i, Functions \cup {"block extern data"}) => symbols[i].rename = 0
          /\ Is(i, {"extern data"}) /\ symbols[i].rename # 0 =>
               \E j \in Ids : SameEntry(i, j) /\ Is(j, {"static data"})
      BY DEF WalkInv
    <3> QED BY <1>1, <1>4, <3>1, <3>2
  <2> QED BY <2>1, <2>2
<1>8. /\ Is(new, Statics \cap Data)' => symbols'[new].rename # 0
      /\ Is(new, Functions \cup {"block extern data"})' => symbols'[new].rename = 0
      /\ Is(new, {"extern data"})' => symbols'[new].rename = 0
  <2>1. /\ k \in Statics \cap Data => r # 0
        /\ k \in Functions \cup {"block extern data", "extern data"} => r = 0
    <3>1. k \in Statics \cap Data <=> Mangled(k)
      BY DEF Mangled
    <3>2. k \in Functions \cup {"block extern data", "extern data"} => ~Mangled(k)
      BY DEF Mangled, Statics, Functions, FunctionDefinitions, Prototypes, Data, DataDefinitions,
             ExternData
    <3>3. (Mangled(k) => r # 0) /\ (~Mangled(k) => r = 0)
      BY <1>0, <1>a
    <3> QED BY <3>1, <3>2, <3>3
  <2> QED BY <1>3, <1>4, <2>1
<1> QED BY <1>1, <1>6, <1>7, <1>8 DEF WalkInv

LEMMA EndModuleWalks ==
  ASSUME IInv, WalkInv, NEW tags \in Seq(Names), EndModule(tags)
  PROVE  WalkInv'
<1>1. /\ Ids \subseteq Ids' /\ \A i \in Ids : symbols'[i] = symbols[i]
      /\ \A i \in Ids' \ Ids : symbols'[i].kind = "tag"
  BY EndModuleEffect DEF IInv
<1>2. /\ \A i, j \in Ids : SameEntry(i, j)' <=> SameEntry(i, j)
      /\ \A i \in Ids : \A kinds : Is(i, kinds)' <=> Is(i, kinds)
  BY <1>1 DEF SameEntry, Is
<1>3. ASSUME NEW i \in Ids', \E kinds \in {FunctionDefinitions, Statics \cap Data, {"extern data"},
                                           Functions \cup {"block extern data"}} : Is(i, kinds)'
      PROVE  i \in Ids
  BY <1>1, <1>3 DEF Is, Statics, Functions, FunctionDefinitions, Prototypes
<1>4. ASSUME NEW i \in Ids', NEW j \in Ids', SameEntry(i, j)', Is(i, FunctionDefinitions)',
             Is(j, FunctionDefinitions)'
      PROVE  i = j
  <2>1. i \in Ids /\ j \in Ids
    BY <1>3, <1>4
  <2> QED BY <1>2, <1>4, <2>1 DEF WalkInv
<1>5. ASSUME NEW i \in Ids
      PROVE  /\ Is(i, Statics \cap Data)' => symbols'[i].rename # 0
             /\ Is(i, Functions \cup {"block extern data"})' => symbols'[i].rename = 0
             /\ Is(i, {"extern data"})' /\ symbols'[i].rename # 0 =>
                  \E j \in Ids' : SameEntry(i, j)' /\ Is(j, {"static data"})'
  BY <1>1, <1>2 DEF WalkInv
<1> QED BY <1>3, <1>4, <1>5 DEF WalkInv

LEMMA WalkStep == IInv /\ WalkInv /\ [Next]_vars => WalkInv'
<1> SUFFICES ASSUME IInv, WalkInv, [Next]_vars PROVE WalkInv'
  OBVIOUS
<1>1. ASSUME NEW k \in Kinds, NEW n \in Names, Declare(k, n) PROVE WalkInv'
  BY <1>1, DeclareWalks
<1>2. ASSUME NEW tags \in {<<>>} \cup {<<n>> : n \in Names}, EndModule(tags) PROVE WalkInv'
  <2>1. tags \in Seq(Names)
    BY TagLists
  <2> QED BY <1>2, <2>1, EndModuleWalks
<1>3. ASSUME UNCHANGED symbols PROVE WalkInv'
  <2>1. /\ Ids' = Ids
        /\ \A i, j : SameEntry(i, j)' <=> SameEntry(i, j)
        /\ \A i, kinds : Is(i, kinds)' <=> Is(i, kinds)
    BY <1>3 DEF Ids, SameEntry, Is
  <2> QED BY <1>3, <2>1 DEF WalkInv
<1>4. ASSUME NextList \/ (\E i \in Ids : LinkInstanceData(i) \/ LinkExtern(i) \/ LinkDefinition(i)
                                          \/ LinkPrototype(i)) \/ UNCHANGED vars
      PROVE  UNCHANGED symbols
  BY <1>4 DEF NextList, LinkInstanceData, LinkExtern, LinkDefinition, LinkPrototype, vars
<1> QED BY <1>1, <1>2, <1>3, <1>4 DEF Next

-----------------------------------------------------------------------------
(* The link.                                                                *)

LEMMA SymbolFacts ==
  ASSUME UNCHANGED symbols
  PROVE  /\ Ids' = Ids /\ DataNames' = DataNames /\ (Clash' <=> Clash)
         /\ ExternList' = ExternList
         /\ \A i : getName(i)' = getName(i) /\ Brothers(i)' = Brothers(i)
         /\ \A i : Kept(i)' <=> Kept(i)
         /\ \A i, kinds : Is(i, kinds)' <=> Is(i, kinds)
         /\ \A m, kinds : FunctionList(m, kinds)' = FunctionList(m, kinds)
<1>1. /\ Ids' = Ids
      /\ \A i : getName(i)' = getName(i)
      /\ \A i, kinds : Is(i, kinds)' <=> Is(i, kinds)
      /\ \A i, j : SameEntry(i, j)' <=> SameEntry(i, j)
  BY DEF Ids, getName, Is, SameEntry
<1>2. \A i : Brothers(i)' = Brothers(i)
  BY <1>1 DEF Brothers
<1>3. \A i : Kept(i)' <=> Kept(i)
  BY <1>1, <1>2 DEF Kept
<1>4. /\ DataNames' = DataNames /\ (Clash' <=> Clash) /\ ExternList' = ExternList
  BY <1>1 DEF DataNames, Clash, ExternList
<1>5. \A m, kinds : FunctionList(m, kinds)' = FunctionList(m, kinds)
  BY <1>1, <1>3 DEF FunctionList
<1> QED BY <1>1, <1>2, <1>3, <1>4, <1>5

\* The kinds of symbols exclude each other.
LEMMA KindsApart ==
  ASSUME NEW i
  PROVE  /\ Is(i, DataDefinitions) => ~Is(i, ExternData) /\ ~Is(i, Functions) /\ Is(i, Data)
         /\ Is(i, ExternData) => ~Is(i, Functions) /\ Is(i, Data)
         /\ Is(i, FunctionDefinitions) => ~Is(i, Prototypes) /\ Is(i, Functions) /\ ~Is(i, Data)
         /\ Is(i, Prototypes) => Is(i, Functions) /\ ~Is(i, Data)
         /\ Is(i, {"function"}) <=> Is(i, FunctionDefinitions) /\ ~Is(i, Statics)
         /\ Is(i, Data) => Is(i, DataDefinitions) \/ Is(i, ExternData)
         /\ Is(i, Functions) => Is(i, FunctionDefinitions) \/ Is(i, Prototypes)
BY DEF Is, Data, DataDefinitions, ExternData, Functions, FunctionDefinitions, Prototypes, Statics

LEMMA OwnBrother == ASSUME NEW i PROVE i \in Brothers(i)
BY DEF Brothers

LEMMA LinkInstanceDataLinks ==
  ASSUME IInv, LinkInv, NEW i \in Ids, LinkInstanceData(i)
  PROVE  LinkInv'
<1>1. /\ UNCHANGED <<optionLink, symbols, module, nullified>>
      /\ pass = "data" /\ i \in todo /\ todo' = todo \ {i}
      /\ programInternal' = programInternal \cup Brothers(i)
  BY DEF LinkInstanceData, First, setProgramInternal
<1>2. /\ Ids' = Ids /\ DataNames' = DataNames /\ (Clash' <=> Clash)
      /\ \A j : getName(j)' = getName(j) /\ Brothers(j)' = Brothers(j)
      /\ \A j, kinds : Is(j, kinds)' <=> Is(j, kinds)
  BY <1>1, SymbolFacts
<1>3. Is(i, DataDefinitions) /\ errors \in Nat
  BY <1>1 DEF IInv, ListKinds, TypeOK
<1>4. /\ \A n \in DOMAIN globalSymbolTable : globalSymbolTable[n] = "data"
      /\ \A n \in DOMAIN globalSymbolTable :
           \E d \in Ids : Is(d, DataDefinitions) /\ getName(d) = n /\ d \notin todo
  BY <1>1 DEF LinkInv, GlobalOK
<1>5. \/ /\ getName(i) \in DOMAIN globalSymbolTable /\ UNCHANGED globalSymbolTable
         /\ \/ optionLink /\ errors' = errors /\ pass' = "data"
            \/ ~optionLink /\ errors' = errors + 1 /\ pass' \in {"data", "failed"}
      \/ /\ getName(i) \notin DOMAIN globalSymbolTable
         /\ errors' = errors /\ pass' = "data"
         /\ DOMAIN globalSymbolTable' = DOMAIN globalSymbolTable \cup {getName(i)}
         /\ \A n \in DOMAIN globalSymbolTable : globalSymbolTable'[n] = globalSymbolTable[n]
         /\ globalSymbolTable'[getName(i)] = "data"
  BY <1>1 DEF LinkInstanceData, NoMessage, Redefinition, RaiseWarning, RaiseError, Enter
<1>6. /\ pass' \in {"data", "failed"}
      /\ DOMAIN globalSymbolTable' = DOMAIN globalSymbolTable \cup {getName(i)}
      /\ \A n \in DOMAIN globalSymbolTable' : globalSymbolTable'[n] = "data"
  BY <1>4, <1>5
<1>7. ListsOK'
  BY <1>6 DEF ListsOK
<1>8. GlobalOK'
  <2>1. ASSUME NEW n \in DOMAIN globalSymbolTable'
        PROVE  \E d \in Ids : Is(d, DataDefinitions) /\ getName(d) = n /\ d \notin todo'
    BY <1>1, <1>3, <1>4, <1>6
  <2> QED BY <1>2, <1>6, <2>1 DEF GlobalOK
<1>9. LinkedOK'
  <2>1. ASSUME NEW d \in Ids, Is(d, DataDefinitions), DataLinked(d)'
        PROVE  /\ Brothers(d) \subseteq programInternal'
               /\ getName(d) \in DOMAIN globalSymbolTable' /\ globalSymbolTable'[getName(d)] = "data"
    <3>1. d = i \/ DataLinked(d)
      BY <1>1, <1>6, <2>1 DEF DataLinked
    <3>2. CASE d = i
      BY <1>1, <1>6, <3>2
    <3>3. CASE DataLinked(d)
      <4>1. Brothers(d) \subseteq programInternal /\ getName(d) \in DOMAIN globalSymbolTable
        BY <2>1, <3>3 DEF LinkInv, LinkedOK
      <4> QED BY <1>1, <1>6, <4>1
    <3> QED BY <3>1, <3>2, <3>3
  <2>2. \A x : ~ExternLinked(x)' /\ ~DefinitionLinked(x)' /\ ~PrototypeLinked(x)'
    BY <1>6 DEF ExternLinked, DefinitionLinked, PrototypeLinked
  <2> QED BY <1>2, <2>1, <2>2 DEF LinkedOK
<1>10. MarkedOK'
  <2>1. \A k \in Ids : Marked(k) => Marked(k)'
    BY <1>2, <1>6 DEF Marked
  <2>2. Marked(i)'
    BY <1>2, <1>3 DEF Marked, Is
  <2> QED BY <1>1, <1>2, <2>1, <2>2 DEF LinkInv, MarkedOK
<1>11. ErrorsOK'
  <2>1. errors' > 0 => Clash
    <3>1. CASE errors' = errors
      BY <3>1 DEF LinkInv, ErrorsOK
    <3>2. CASE errors' # errors
      <4>1. PICK d \in Ids : Is(d, DataDefinitions) /\ getName(d) = getName(i) /\ d \notin todo
        BY <1>4, <1>5, <3>2
      <4>2. Is(d, DataDefinitions \cup {"function"})
        BY <4>1 DEF Is
      <4> QED BY <1>1, <1>3, <4>1, <4>2 DEF Clash
    <3> QED BY <3>1, <3>2
  <2>2. ASSUME errors' = 0, ~optionLink, NEW d \in Ids, NEW e \in Ids,
               Is(d, DataDefinitions), DataLinked(d)', Is(e, DataDefinitions), DataLinked(e)',
               getName(d) = getName(e)
        PROVE  d = e
    <3>1. /\ getName(i) \notin DOMAIN globalSymbolTable /\ errors = 0 /\ pass' = "data"
      BY <1>3, <1>5, <2>2
    <3>2. (d = i \/ DataLinked(d)) /\ (e = i \/ DataLinked(e))
      BY <1>1, <2>2, <3>1 DEF DataLinked
    <3>3. \A u \in Ids : Is(u, DataDefinitions) /\ DataLinked(u) => getName(u) \in DOMAIN globalSymbolTable
      BY DEF LinkInv, LinkedOK
    <3>4. DataLinked(d) /\ DataLinked(e) => d = e
      BY <2>2, <3>1 DEF LinkInv, ErrorsOK
    <3> QED BY <2>2, <3>1, <3>2, <3>3, <3>4
  <2> QED BY <1>1, <1>2, <1>6, <2>1, <2>2 DEF ErrorsOK
<1> QED BY <1>7, <1>8, <1>9, <1>10, <1>11 DEF LinkInv

LEMMA LinkExternLinks ==
  ASSUME IInv, LinkInv, NEW i \in Ids, LinkExtern(i)
  PROVE  LinkInv'
<1>1. /\ UNCHANGED <<optionLink, symbols, module, globalSymbolTable, errors, pass>>
      /\ pass = "extern" /\ i \in todo /\ todo' = todo \ {i}
      /\ \/ /\ getName(i) \in DOMAIN globalSymbolTable
            /\ programInternal' = programInternal \cup Brothers(i)
            /\ nullified' = nullified \cup {i}
         \/ /\ getName(i) \notin DOMAIN globalSymbolTable
            /\ UNCHANGED <<programInternal, nullified>>
  BY DEF LinkExtern, First, setProgramInternal, NoMessage
<1>2. /\ Ids' = Ids /\ DataNames' = DataNames /\ (Clash' <=> Clash) /\ ExternList' = ExternList
      /\ \A j : getName(j)' = getName(j) /\ Brothers(j)' = Brothers(j)
      /\ \A j, kinds : Is(j, kinds)' <=> Is(j, kinds)
  BY <1>1, SymbolFacts
<1>3. i \in ExternList /\ Is(i, ExternData)
  BY <1>1 DEF LinkInv, ListsOK, ExternList
<1>4. \A n : n \in DOMAIN globalSymbolTable <=> n \in DataNames
  <2>1. \A n \in DOMAIN globalSymbolTable : n \in DataNames
    BY <1>1 DEF LinkInv, GlobalOK, DataNames
  <2>2. \A d \in Ids : Is(d, DataDefinitions) => getName(d) \in DOMAIN globalSymbolTable
    BY <1>1 DEF LinkInv, LinkedOK, DataLinked
  <2> QED BY <2>1, <2>2 DEF DataNames
<1>5. ListsOK'
  BY <1>1, <1>2 DEF LinkInv, ListsOK
<1>6. GlobalOK'
  BY <1>1, <1>2 DEF LinkInv, GlobalOK
<1>7. programInternal \subseteq programInternal'
  BY <1>1
<1>8. LinkedOK'
  <2>1. ASSUME NEW d \in Ids, Is(d, DataDefinitions)
        PROVE  /\ Brothers(d) \subseteq programInternal'
               /\ getName(d) \in DOMAIN globalSymbolTable /\ globalSymbolTable[getName(d)] = "data"
    BY <1>1, <1>7, <2>1 DEF LinkInv, LinkedOK, DataLinked
  <2>2. ASSUME NEW x \in Ids, Is(x, ExternData), ExternLinked(x)', getName(x) \in DataNames
        PROVE  x \in nullified' /\ Brothers(x) \subseteq programInternal'
    <3>1. CASE x = i
      BY <1>1, <1>4, <2>2, <3>1
    <3>2. CASE x # i
      <4>1. ExternLinked(x)
        BY <1>1, <2>2, <3>2 DEF ExternLinked
      <4>2. x \in nullified /\ Brothers(x) \subseteq programInternal
        BY <2>2, <4>1 DEF LinkInv, LinkedOK
      <4> QED BY <1>1, <1>7, <4>2
    <3> QED BY <3>1, <3>2
  <2>3. \A x : ~DefinitionLinked(x)' /\ ~PrototypeLinked(x)'
    BY <1>1 DEF DefinitionLinked, PrototypeLinked
  <2> QED BY <1>1, <1>2, <2>1, <2>2, <2>3 DEF LinkedOK
<1>9. MarkedOK'
  <2>1. \A k \in Ids : Marked(k)' <=> Marked(k)
    BY <1>1, <1>2 DEF Marked
  <2>2. getName(i) \in DOMAIN globalSymbolTable => Marked(i) /\ getName(i) \in DataNames
    BY <1>3, <1>4 DEF Marked
  <2> QED BY <1>1, <1>2, <1>3, <2>1, <2>2 DEF LinkInv, MarkedOK
<1>10. ErrorsOK'
  <2>1. \A d : DataLinked(d) /\ DataLinked(d)'
    BY <1>1 DEF DataLinked
  <2> QED BY <1>1, <1>2, <2>1 DEF LinkInv, ErrorsOK
<1> QED BY <1>5, <1>6, <1>8, <1>9, <1>10 DEF LinkInv

LEMMA LinkDefinitionLinks ==
  ASSUME IInv, LinkInv, NEW i \in Ids, LinkDefinition(i)
  PROVE  LinkInv'
<1>1. /\ UNCHANGED <<optionLink, symbols, module, nullified>>
      /\ pass = "definitions" /\ i \in todo /\ todo' = todo \ {i}
      /\ programInternal' = programInternal \cup Brothers(i)
  BY DEF LinkDefinition, setProgramInternal
<1>2. /\ Ids' = Ids /\ DataNames' = DataNames /\ (Clash' <=> Clash)
      /\ \A j : getName(j)' = getName(j) /\ Brothers(j)' = Brothers(j) /\ (Kept(j)' <=> Kept(j))
      /\ \A j, kinds : Is(j, kinds)' <=> Is(j, kinds)
      /\ \A m, kinds : FunctionList(m, kinds)' = FunctionList(m, kinds)
  BY <1>1, SymbolFacts
<1>3. Is(i, FunctionDefinitions) /\ Kept(i) /\ errors \in Nat
  BY <1>1 DEF LinkInv, ListsOK, FunctionList, IInv, TypeOK
<1>4. \/ /\ Is(i, Statics)
         /\ errors' = errors /\ pass' = "definitions" /\ UNCHANGED globalSymbolTable
      \/ /\ ~Is(i, Statics) /\ getName(i) \notin DOMAIN globalSymbolTable
         /\ errors' = errors /\ pass' = "definitions"
         /\ DOMAIN globalSymbolTable' = DOMAIN globalSymbolTable \cup {getName(i)}
         /\ \A n \in DOMAIN globalSymbolTable : globalSymbolTable'[n] = globalSymbolTable[n]
         /\ globalSymbolTable'[getName(i)] = "function"
      \/ /\ ~Is(i, Statics) /\ getName(i) \in DOMAIN globalSymbolTable
         /\ UNCHANGED globalSymbolTable
         /\ \/ /\ globalSymbolTable[getName(i)] = "function"
               /\ errors' = errors /\ pass' = "definitions"
            \/ /\ globalSymbolTable[getName(i)] # "function"
               /\ errors' = errors + 1 /\ pass' \in {"definitions", "failed"}
  BY <1>1 DEF LinkDefinition, isModuleVisibility, NoMessage, RaiseWarning, RaiseError, Enter
<1>5. /\ pass' \in {"definitions", "failed"} /\ (errors' = 0 => errors = 0)
      /\ DOMAIN globalSymbolTable \subseteq DOMAIN globalSymbolTable'
      /\ \A n \in DOMAIN globalSymbolTable : globalSymbolTable'[n] = globalSymbolTable[n]
      /\ Is(i, {"function"}) => getName(i) \in DOMAIN globalSymbolTable'
      /\ Is(i, {"function"}) /\ errors' = 0 => globalSymbolTable'[getName(i)] = "function"
      /\ \A n \in DOMAIN globalSymbolTable' \ DOMAIN globalSymbolTable :
           /\ n = getName(i) /\ globalSymbolTable'[n] = "function" /\ Is(i, {"function"})
  <2>1. Is(i, {"function"}) <=> ~Is(i, Statics)
    BY <1>3, KindsApart
  <2> QED BY <1>3, <1>4, <2>1
<1>6. programInternal \subseteq programInternal'
  BY <1>1
<1>7. ListsOK'
  BY <1>1, <1>2, <1>5 DEF LinkInv, ListsOK
<1>8. GlobalOK'
  <2>1. ASSUME NEW n \in DOMAIN globalSymbolTable'
        PROVE  /\ globalSymbolTable'[n] = "data" =>
                    \E d \in Ids : Is(d, DataDefinitions) /\ getName(d) = n
               /\ globalSymbolTable'[n] = "function" =>
                    \E f \in Ids : Is(f, {"function"}) /\ getName(f) = n
    <3>1. CASE n \in DOMAIN globalSymbolTable
      BY <1>5, <3>1 DEF LinkInv, GlobalOK
    <3>2. CASE n \notin DOMAIN globalSymbolTable
      BY <1>5, <3>2
    <3> QED BY <3>1, <3>2
  <2> QED BY <1>2, <1>5, <2>1 DEF GlobalOK
<1>9. LinkedOK'
  <2>1. ASSUME NEW d \in Ids, Is(d, DataDefinitions)
        PROVE  /\ Brothers(d) \subseteq programInternal'
               /\ getName(d) \in DOMAIN globalSymbolTable' /\ globalSymbolTable'[getName(d)] = "data"
    <3>1. /\ Brothers(d) \subseteq programInternal
          /\ getName(d) \in DOMAIN globalSymbolTable /\ globalSymbolTable[getName(d)] = "data"
      BY <1>1, <2>1 DEF LinkInv, LinkedOK, DataLinked
    <3> QED BY <1>5, <1>6, <3>1
  <2>2. ASSUME NEW x \in Ids, Is(x, ExternData), getName(x) \in DataNames
        PROVE  x \in nullified' /\ Brothers(x) \subseteq programInternal'
    <3>1. x \in nullified /\ Brothers(x) \subseteq programInternal
      BY <1>1, <2>2 DEF LinkInv, LinkedOK, ExternLinked
    <3> QED BY <1>1, <1>6, <3>1
  <2>3. ASSUME NEW f \in Ids, Is(f, FunctionDefinitions), Kept(f), DefinitionLinked(f)'
        PROVE  /\ Brothers(f) \subseteq programInternal'
               /\ Is(f, {"function"}) =>
                    /\ getName(f) \in DOMAIN globalSymbolTable'
                    /\ errors' = 0 => globalSymbolTable'[getName(f)] = "function"
    <3>1. f = i \/ DefinitionLinked(f)
      BY <1>1, <1>5, <2>3 DEF DefinitionLinked, OfPast
    <3>2. CASE f = i
      BY <1>1, <1>5, <3>2
    <3>3. CASE DefinitionLinked(f)
      <4>1. /\ Brothers(f) \subseteq programInternal
            /\ Is(f, {"function"}) =>
                 /\ getName(f) \in DOMAIN globalSymbolTable
                 /\ errors = 0 => globalSymbolTable[getName(f)] = "function"
        BY <2>3, <3>3 DEF LinkInv, LinkedOK
      <4> QED BY <1>5, <1>6, <4>1
    <3> QED BY <3>1, <3>2, <3>3
  <2>4. \A x : ~PrototypeLinked(x)'
    BY <1>5 DEF PrototypeLinked
  <2> QED BY <1>2, <2>1, <2>2, <2>3, <2>4 DEF LinkedOK
<1>10. MarkedOK'
  <2>1. \A k \in Ids : Marked(k) => Marked(k)'
    BY <1>2, <1>5 DEF Marked
  <2>2. Marked(i)'
    BY <1>2, <1>3 DEF Marked, Is
  <2> QED BY <1>1, <1>2, <2>1, <2>2 DEF LinkInv, MarkedOK
<1>11. ErrorsOK'
  <2>1. errors' > 0 => Clash
    <3>1. CASE errors' = errors
      BY <3>1 DEF LinkInv, ErrorsOK
    <3>2. CASE errors' # errors
      <4>1. /\ getName(i) \in DOMAIN globalSymbolTable /\ globalSymbolTable[getName(i)] # "function"
            /\ ~Is(i, Statics)
        BY <1>4, <3>2
      <4>2. globalSymbolTable[getName(i)] = "data"
        BY <4>1 DEF IInv, TypeOK
      <4>3. PICK d \in Ids : Is(d, DataDefinitions) /\ getName(d) = getName(i)
        BY <4>1, <4>2 DEF LinkInv, GlobalOK
      <4>4. d # i /\ Is(i, DataDefinitions \cup {"function"})
        <5>1. ~Is(i, DataDefinitions) /\ Is(i, {"function"})
          BY <1>3, <4>1, KindsApart
        <5> QED BY <4>3, <5>1 DEF Is
      <4> QED BY <4>3, <4>4 DEF Clash
    <3> QED BY <3>1, <3>2
  <2>2. \A d : DataLinked(d)
    BY <1>1 DEF DataLinked
  <2>3. errors' = 0 /\ ~optionLink => \A d, e \in Ids :
          Is(d, DataDefinitions) /\ Is(e, DataDefinitions) /\ getName(d) = getName(e) => d = e
    BY <1>5, <2>2 DEF LinkInv, ErrorsOK
  <2> QED BY <1>1, <1>2, <1>5, <2>1, <2>3 DEF ErrorsOK
<1> QED BY <1>7, <1>8, <1>9, <1>10, <1>11 DEF LinkInv

LEMMA LinkPrototypeLinks ==
  ASSUME IInv, LinkInv, NEW i \in Ids, LinkPrototype(i)
  PROVE  LinkInv'
<1>1. /\ UNCHANGED <<optionLink, symbols, module, nullified, globalSymbolTable, errors, pass>>
      /\ pass = "prototypes" /\ i \in todo /\ todo' = todo \ {i}
      /\ \/ /\ getName(i) \in DOMAIN globalSymbolTable
            /\ programInternal' = programInternal \cup Brothers(i)
         \/ /\ getName(i) \notin DOMAIN globalSymbolTable
            /\ UNCHANGED programInternal
  BY DEF LinkPrototype, setProgramInternal, NoMessage
<1>2. /\ Ids' = Ids /\ DataNames' = DataNames /\ (Clash' <=> Clash)
      /\ \A j : getName(j)' = getName(j) /\ Brothers(j)' = Brothers(j) /\ (Kept(j)' <=> Kept(j))
      /\ \A j, kinds : Is(j, kinds)' <=> Is(j, kinds)
      /\ \A m, kinds : FunctionList(m, kinds)' = FunctionList(m, kinds)
  BY <1>1, SymbolFacts
<1>3. Is(i, Prototypes) /\ programInternal \subseteq programInternal'
  BY <1>1 DEF LinkInv, ListsOK, FunctionList
<1>4. ListsOK'
  BY <1>1, <1>2 DEF LinkInv, ListsOK
<1>5. GlobalOK'
  BY <1>1, <1>2 DEF LinkInv, GlobalOK
<1>6. LinkedOK'
  <2>1. ASSUME NEW d \in Ids, Is(d, DataDefinitions)
        PROVE  /\ Brothers(d) \subseteq programInternal'
               /\ getName(d) \in DOMAIN globalSymbolTable /\ globalSymbolTable[getName(d)] = "data"
    BY <1>1, <1>3, <2>1 DEF LinkInv, LinkedOK, DataLinked
  <2>2. ASSUME NEW x \in Ids, Is(x, ExternData), getName(x) \in DataNames
        PROVE  x \in nullified /\ Brothers(x) \subseteq programInternal'
    BY <1>1, <1>3, <2>2 DEF LinkInv, LinkedOK, ExternLinked
  <2>3. ASSUME NEW f \in Ids, Is(f, FunctionDefinitions), Kept(f)
        PROVE  /\ Brothers(f) \subseteq programInternal'
               /\ Is(f, {"function"}) =>
                    /\ getName(f) \in DOMAIN globalSymbolTable
                    /\ errors = 0 => globalSymbolTable[getName(f)] = "function"
    BY <1>1, <1>3, <2>3 DEF LinkInv, LinkedOK, DefinitionLinked
  <2>4. ASSUME NEW p \in Ids, Is(p, Prototypes), Kept(p), PrototypeLinked(p)',
               getName(p) \in DOMAIN globalSymbolTable
        PROVE  Brothers(p) \subseteq programInternal'
    <3>1. p = i \/ PrototypeLinked(p)
      BY <1>1, <2>4 DEF PrototypeLinked, OfPast
    <3>2. CASE p = i
      BY <1>1, <2>4, <3>2
    <3>3. CASE PrototypeLinked(p)
      BY <1>3, <2>4, <3>3 DEF LinkInv, LinkedOK
    <3> QED BY <3>1, <3>2, <3>3
  <2> QED BY <1>1, <1>2, <2>1, <2>2, <2>3, <2>4 DEF LinkedOK
<1>7. MarkedOK'
  <2>1. \A k \in Ids : Marked(k)' <=> Marked(k)
    BY <1>1, <1>2 DEF Marked
  <2>2. getName(i) \in DOMAIN globalSymbolTable => Marked(i)
    BY <1>3 DEF Marked
  <2> QED BY <1>1, <1>2, <2>1, <2>2 DEF LinkInv, MarkedOK
<1>8. ErrorsOK'
  <2>1. \A d : DataLinked(d) /\ DataLinked(d)'
    BY <1>1 DEF DataLinked
  <2> QED BY <1>1, <1>2, <2>1 DEF LinkInv, ErrorsOK
<1> QED BY <1>4, <1>5, <1>6, <1>7, <1>8 DEF LinkInv

\* A list that is empty has been linked; the next one has not.
LEMMA NextListLinks ==
  ASSUME IInv, LinkInv, NextList
  PROVE  LinkInv'
<1>1. /\ UNCHANGED <<optionLink, symbols, globalSymbolTable, programInternal, nullified, errors>>
      /\ todo = {} /\ errors \in Nat
  BY DEF NextList, link, IInv, TypeOK
<1>2. /\ Ids' = Ids /\ DataNames' = DataNames /\ (Clash' <=> Clash) /\ ExternList' = ExternList
      /\ \A j : getName(j)' = getName(j) /\ Brothers(j)' = Brothers(j) /\ (Kept(j)' <=> Kept(j))
      /\ \A j, kinds : Is(j, kinds)' <=> Is(j, kinds)
      /\ \A m, kinds : FunctionList(m, kinds)' = FunctionList(m, kinds)
  BY <1>1, SymbolFacts
<1>3. \/ pass = "data" /\ pass' = "extern" /\ todo' = ExternList
      \/ /\ pass = "extern" /\ pass' = "definitions" /\ module' = 1
         /\ todo' = FunctionList(1, FunctionDefinitions)
      \/ /\ pass = "definitions" /\ pass' = "definitions" /\ module' = module + 1
         /\ todo' = FunctionList(module', FunctionDefinitions)
      \/ /\ pass = "definitions" /\ module = NbModules /\ pass' = "prototypes" /\ module' = 1
         /\ todo' = FunctionList(1, Prototypes)
      \/ /\ pass = "prototypes" /\ pass' = "prototypes" /\ module' = module + 1
         /\ todo' = FunctionList(module', Prototypes)
      \/ /\ pass = "prototypes" /\ module = NbModules
         /\ pass' = IF errors > 0 THEN "failed" ELSE "done"
  BY DEF NextList
<1>4. /\ \A i \in Ids : symbols[i].module \in 1..NbModules
      /\ module \in 1..NbModules /\ NbModules \in Nat
  <2>1. \A i \in Ids : symbols[i] \in SymbolSet
    <3>1. symbols \in Seq(SymbolSet) /\ Ids = 1..Len(symbols)
      BY DEF IInv, TypeOK, Ids, SymbolSet
    <3> QED BY <3>1
  <2> QED BY <2>1, ReentrantLinkAssumption DEF IInv, TypeOK, SymbolSet, Modules
<1>5. /\ \A d \in Ids : Is(d, DataDefinitions) /\ DataLinked(d)' => DataLinked(d)
      /\ \A d \in Ids : DataLinked(d)
  BY <1>1, <1>3 DEF DataLinked
<1>6. \A x \in Ids : Is(x, ExternData) /\ ExternLinked(x)' => ExternLinked(x)
  BY <1>1, <1>2, <1>3 DEF ExternLinked, ExternList
<1>7. ASSUME NEW f \in Ids, Is(f, FunctionDefinitions), Kept(f), DefinitionLinked(f)'
      PROVE  DefinitionLinked(f)
  <2>1. \A m : symbols[f].module = m => f \in FunctionList(m, FunctionDefinitions)
    BY <1>7 DEF FunctionList
  <2>2. CASE pass = "extern"
    <3>1. symbols[f].module < 1 \/ (symbols[f].module = 1 /\ f \notin todo')
      BY <1>1, <1>3, <1>7, <2>2 DEF DefinitionLinked, OfPast
    <3> QED BY <1>3, <1>4, <2>1, <2>2, <3>1
  <2>3. CASE pass = "definitions" /\ pass' = "definitions"
    <3>1. \/ symbols[f].module < module + 1
          \/ symbols[f].module = module + 1 /\ f \notin FunctionList(module + 1, FunctionDefinitions)
      BY <1>1, <1>3, <1>7, <2>3 DEF DefinitionLinked, OfPast
    <3>2. symbols[f].module <= module
      BY <1>4, <2>1, <3>1
    <3> QED BY <1>1, <1>4, <2>3, <3>2 DEF DefinitionLinked, OfPast
  <2>4. CASE pass = "definitions" /\ pass' = "prototypes"
    <3>1. symbols[f].module <= module
      BY <1>3, <1>4, <2>4
    <3> QED BY <1>1, <1>4, <2>4, <3>1 DEF DefinitionLinked, OfPast
  <2>5. CASE pass = "data"
    BY <1>3, <1>7, <2>5 DEF DefinitionLinked
  <2>6. CASE pass = "prototypes"
    BY <2>6 DEF DefinitionLinked
  <2> QED BY <1>3, <2>2, <2>3, <2>4, <2>5, <2>6
<1>8. ASSUME NEW p \in Ids, Is(p, Prototypes), Kept(p), PrototypeLinked(p)'
      PROVE  PrototypeLinked(p)
  <2>1. \A m : symbols[p].module = m => p \in FunctionList(m, Prototypes)
    BY <1>8 DEF FunctionList
  <2>2. CASE pass = "definitions" /\ pass' = "prototypes"
    <3>1. symbols[p].module < 1 \/ (symbols[p].module = 1 /\ p \notin todo')
      BY <1>1, <1>3, <1>8, <2>2 DEF PrototypeLinked, OfPast
    <3> QED BY <1>3, <1>4, <2>1, <2>2, <3>1
  <2>3. CASE pass = "prototypes" /\ pass' = "prototypes"
    <3>1. \/ symbols[p].module < module + 1
          \/ symbols[p].module = module + 1 /\ p \notin FunctionList(module + 1, Prototypes)
      BY <1>1, <1>3, <1>8, <2>3 DEF PrototypeLinked, OfPast
    <3>2. symbols[p].module <= module
      BY <1>4, <2>1, <3>1
    <3> QED BY <1>1, <1>4, <2>3, <3>2 DEF PrototypeLinked, OfPast
  <2>4. CASE pass = "prototypes" /\ pass' = "done"
    <3>1. symbols[p].module <= module
      BY <1>3, <1>4, <2>4
    <3> QED BY <1>1, <1>4, <2>4, <3>1 DEF PrototypeLinked, OfPast
  <2>5. CASE pass' \notin {"prototypes", "done"}
    BY <1>8, <2>5 DEF PrototypeLinked
  <2> QED BY <1>3, <2>2, <2>3, <2>4, <2>5
<1>9. ListsOK'
  BY <1>2, <1>3 DEF ListsOK
<1>10. GlobalOK'
  BY <1>1, <1>2, <1>3 DEF LinkInv, GlobalOK
<1>11. LinkedOK'
  BY <1>1, <1>2, <1>5, <1>6, <1>7, <1>8 DEF LinkInv, LinkedOK
<1>12. MarkedOK'
  <2>1. \A k \in Ids : Marked(k)' <=> Marked(k)
    BY <1>1, <1>2 DEF Marked
  <2> QED BY <1>1, <1>2, <2>1 DEF LinkInv, MarkedOK
<1>13. ErrorsOK'
  BY <1>1, <1>2, <1>3, <1>5 DEF LinkInv, ErrorsOK
<1> QED BY <1>9, <1>10, <1>11, <1>12, <1>13 DEF LinkInv

\* During the walk there is nothing to say of the link.
LEMMA WalkLinks ==
  ASSUME IInv, LinkInv, pass = "walk", UNCHANGED <<link, errors>>,
         \/ pass' = "walk"
         \/ pass' = "data" /\ \A d \in Ids' : Is(d, DataDefinitions)' => d \in todo'
  PROVE  LinkInv'
<1>1. /\ DOMAIN globalSymbolTable' = {} /\ programInternal' = {} /\ nullified' = {} /\ errors' = 0
  BY DEF LinkInv, GlobalOK, ErrorsOK, link
<1>2. ListsOK' /\ GlobalOK'
  BY <1>1 DEF ListsOK, GlobalOK
<1>3. /\ \A d \in Ids' : Is(d, DataDefinitions)' => ~DataLinked(d)'
      /\ \A i : ~ExternLinked(i)' /\ ~DefinitionLinked(i)' /\ ~PrototypeLinked(i)'
  BY DEF DataLinked, ExternLinked, DefinitionLinked, PrototypeLinked
<1>4. LinkedOK' /\ MarkedOK' /\ ErrorsOK'
  BY <1>1, <1>3 DEF LinkedOK, MarkedOK, ErrorsOK
<1> QED BY <1>2, <1>4 DEF LinkInv

LEMMA LinkInvStep == IInv /\ LinkInv /\ [Next]_vars => LinkInv'
<1> SUFFICES ASSUME IInv, LinkInv, [Next]_vars PROVE LinkInv'
  OBVIOUS
<1>1. ASSUME NEW k \in Kinds, NEW n \in Names, Declare(k, n) PROVE LinkInv'
  BY <1>1, WalkLinks DEF Declare
<1>2. ASSUME NEW tags \in {<<>>} \cup {<<n>> : n \in Names}, EndModule(tags) PROVE LinkInv'
  <2>1. pass = "walk" /\ UNCHANGED <<link, errors>>
    BY <1>2 DEF EndModule
  <2>2. CASE module < NbModules
    BY <1>2, <2>1, <2>2, WalkLinks DEF EndModule
  <2>3. CASE ~(module < NbModules)
    <3>1. pass' = "data" /\ todo' = {i \in DOMAIN symbols' : symbols'[i].kind \in DataDefinitions}
      BY <1>2, <2>3 DEF EndModule
    <3>2. \A d \in Ids' : Is(d, DataDefinitions)' => d \in todo'
      BY <3>1 DEF Ids, Is
    <3> QED BY <2>1, <3>1, <3>2, WalkLinks
  <2> QED BY <2>2, <2>3
<1>3. CASE UNCHANGED vars
  <2>1. UNCHANGED <<optionLink, symbols, pass, module, todo, globalSymbolTable, programInternal,
                    nullified, errors>>
    BY <1>3 DEF vars, link
  <2>2. /\ Ids' = Ids /\ DataNames' = DataNames /\ (Clash' <=> Clash) /\ ExternList' = ExternList
        /\ \A j : getName(j)' = getName(j) /\ Brothers(j)' = Brothers(j) /\ (Kept(j)' <=> Kept(j))
        /\ \A j, kinds : Is(j, kinds)' <=> Is(j, kinds)
        /\ \A m, kinds : FunctionList(m, kinds)' = FunctionList(m, kinds)
    BY <2>1, SymbolFacts
  <2>3. \A i : /\ DataLinked(i)' <=> DataLinked(i)
               /\ ExternLinked(i)' <=> ExternLinked(i)
               /\ DefinitionLinked(i)' <=> DefinitionLinked(i)
               /\ PrototypeLinked(i)' <=> PrototypeLinked(i)
    BY <2>1 DEF DataLinked, ExternLinked, DefinitionLinked, PrototypeLinked, OfPast
  <2>4. \A k \in Ids : Marked(k)' <=> Marked(k)
    BY <2>1, <2>2 DEF Marked
  <2>5. ListsOK' /\ GlobalOK'
    BY <2>1, <2>2 DEF LinkInv, ListsOK, GlobalOK
  <2>6. LinkedOK'
    BY <2>1, <2>2, <2>3 DEF LinkInv, LinkedOK
  <2>7. MarkedOK' /\ ErrorsOK'
    BY <2>1, <2>2, <2>3, <2>4 DEF LinkInv, MarkedOK, ErrorsOK
  <2> QED BY <2>5, <2>6, <2>7 DEF LinkInv
<1> QED BY <1>1, <1>2, <1>3, NextListLinks, LinkInstanceDataLinks, LinkExternLinks,
          LinkDefinitionLinks, LinkPrototypeLinks DEF Next

LEMMA AlwaysLinkInv == Spec => [](IInv /\ WalkInv /\ LinkInv)
<1>1. Init => WalkInv /\ LinkInv
  <2> SUFFICES ASSUME Init PROVE WalkInv /\ LinkInv
    OBVIOUS
  <2>1. /\ Ids = {} /\ pass = "walk" /\ DOMAIN globalSymbolTable = {}
        /\ programInternal = {} /\ nullified = {} /\ errors = 0
    BY DEF Init, Ids
  <2>2. WalkInv
    BY <2>1 DEF WalkInv
  <2>3. ListsOK /\ GlobalOK /\ LinkedOK /\ MarkedOK /\ ErrorsOK
    BY <2>1 DEF ListsOK, GlobalOK, LinkedOK, MarkedOK, ErrorsOK
  <2> QED BY <2>2, <2>3 DEF LinkInv
<1> QED BY <1>1, InvariantHolds, WalkStep, LinkInvStep, PTL DEF Spec

-----------------------------------------------------------------------------
(* What the declarations denote.                                            *)

LEMMA SymbolTypes ==
  ASSUME IInv, NEW i \in Ids
  PROVE  /\ symbols[i].module \in Nat \ {0} /\ symbols[i].name \in Names
         /\ symbols[i].kind \in Kinds /\ symbols[i].rename \in Nat /\ i \in Nat \ {0}
<1>1. symbols \in Seq(SymbolSet) /\ Ids = 1..Len(symbols)
  BY DEF IInv, TypeOK, SymbolSet, Ids
<1>2. symbols[i] \in SymbolSet
  BY <1>1
<1> QED BY <1>1, <1>2, ReentrantLinkAssumption DEF SymbolSet, Modules

Local(i) == symbols[i].kind = "block static data"

\* What has no linkage, linkage in a module, and linkage in the program.
LEMMA EntityCases ==
  ASSUME IInv, NEW i \in Ids
  PROVE  /\ symbols[i].module # 0 /\ i # 0
         /\ Local(i) => Entity(i) = <<symbols[i].module, symbols[i].name, i>>
         /\ ~Local(i) /\ Static(symbols[i].module, symbols[i].name, i) =>
              Entity(i) = <<symbols[i].module, symbols[i].name, 0>>
         /\ ~Local(i) /\ ~Static(symbols[i].module, symbols[i].name, i) =>
              Entity(i) = <<0, symbols[i].name, 0>>
         /\ Entity(i)[1] \in {0, symbols[i].module} /\ Entity(i)[2] = symbols[i].name
<1>1. symbols[i].module # 0 /\ i # 0
  BY SymbolTypes
<1>2. CASE Local(i)
  BY <1>1, <1>2 DEF Entity, Local
<1>3. CASE ~Local(i)
  BY <1>1, <1>3 DEF Entity, Local
<1> QED BY <1>2, <1>3

LEMMA StaticEntity ==
  ASSUME IInv, NEW i \in Ids, Is(i, Statics)
  PROVE  Entity(i)[1] = symbols[i].module /\ Entity(i)[1] # 0
<1>1. CASE Local(i)
  BY <1>1, EntityCases
<1>2. CASE ~Local(i)
  <2>1. Is(i, Statics \ Blocks)
    BY <1>2 DEF Is, Statics, Blocks, Local
  <2>3. i <= i
    BY SymbolTypes
  <2>2. Static(symbols[i].module, symbols[i].name, i)
    BY <2>1, <2>3 DEF Static
  <2> QED BY <1>2, <2>2, EntityCases
<1> QED BY <1>1, <1>2

\* A name with linkage in the program.
LEMMA Global ==
  ASSUME IInv, NEW i \in Ids, ~Is(i, Statics), ~Inherits(i)
  PROVE  Entity(i) = <<0, symbols[i].name, 0>>
<1>1. Entity(i)[1] = 0
  BY DEF Inherits
<1> QED BY <1>1, EntityCases

\* The declarations of one entry denote one entity.
LEMMA SameEntity ==
  ASSUME IInv, WellFormed, NEW i \in Ids, NEW j \in Ids, i \in Brothers(j)
  PROVE  Entity(i) = Entity(j)
<1>1. CASE i = j
  BY <1>1
<1>2. CASE SameEntry(j, i)
  <2>1. /\ {symbols[i].kind, symbols[j].kind} \cap {"tag", "block static data"} = {}
        /\ symbols[i].name = symbols[j].name /\ symbols[i].module = symbols[j].module
    BY <1>2 DEF SameEntry, Blocks
  <2> QED BY <2>1 DEF WellFormed
<1> QED BY <1>1, <1>2 DEF Brothers

\* The definition of a variable without a new name is seen by all modules.
LEMMA PlainData ==
  ASSUME IInv, WalkInv, NEW d \in Ids, Is(d, DataDefinitions)
  PROVE  symbols[d].rename = 0 <=> Entity(d) = <<0, symbols[d].name, 0>>
<1>1. ASSUME symbols[d].rename = 0 PROVE Entity(d) = <<0, symbols[d].name, 0>>
  <2>1. ~Is(d, Statics)
    BY <1>1 DEF WalkInv, Is, Data
  <2>2. symbols[d].kind = "data"
    BY <2>1 DEF Is, DataDefinitions, Statics
  <2>3. ASSUME NEW j \in Ids, symbols[j].module = symbols[d].module,
               symbols[j].name = symbols[d].name, Is(j, Statics \ Blocks)
        PROVE  FALSE
    <3>1. SameEntry(d, j)
      BY <2>2, <2>3 DEF SameEntry, Is, Statics, Blocks
    <3>2. Is(d, Data) <=> Is(j, Data)
      BY <3>1 DEF IInv, Uniform
    <3>3. symbols[j].kind = "static data"
      BY <2>2, <2>3, <3>2 DEF Is, Statics, Blocks, Data, DataDefinitions, ExternData
    <3>4. symbols[d].kind = symbols[j].kind
      BY <3>1, <3>3 DEF IInv, Uniform, Is, DataDefinitions
    <3> QED BY <2>2, <3>3, <3>4
  <2>4. ~Static(symbols[d].module, symbols[d].name, d) /\ ~Local(d)
    BY <2>2, <2>3 DEF Static, Local
  <2> QED BY <2>4, EntityCases
<1>2. ASSUME Entity(d) = <<0, symbols[d].name, 0>> PROVE symbols[d].rename = 0
  <2>1. ~Is(d, Statics)
    BY <1>2, StaticEntity
  <2>2. symbols[d].kind = "data"
    BY <2>1 DEF Is, DataDefinitions, Statics
  <2> QED BY <2>2 DEF IInv, Uniform
<1> QED BY <1>1, <1>2

\* So is an external declaration, unless the file made the variable static.
LEMMA PlainExtern ==
  ASSUME IInv, WalkInv, WellFormed, NEW x \in Ids, Is(x, ExternData),
         Entity(x) = <<0, symbols[x].name, 0>>
  PROVE  symbols[x].rename = 0
<1>1. CASE Is(x, {"block extern data"})
  BY <1>1 DEF WalkInv, Is
<1>2. CASE Is(x, {"extern data"})
  <2> SUFFICES ASSUME symbols[x].rename # 0 PROVE FALSE
    OBVIOUS
  <2>1. PICK j \in Ids : SameEntry(x, j) /\ Is(j, {"static data"})
    BY <1>2 DEF WalkInv
  <2>2. Entity(j) = Entity(x)
    BY <2>1, SameEntity DEF Brothers
  <2>3. Is(j, Statics)
    BY <2>1 DEF Is, Statics
  <2> QED BY <2>2, <2>3, StaticEntity
<1> QED BY <1>1, <1>2 DEF Is, ExternData

\* A variable of the program is defined exactly if one of the definitions of
\* data has its name.
LEMMA DefinedByName ==
  ASSUME IInv, WalkInv, NEW x \in Ids, Entity(x) = <<0, symbols[x].name, 0>>,
         symbols[x].rename = 0
  PROVE  getName(x) \in DataNames <=> Defined(DataDefinitions, Entity(x))
<1>1. ASSUME getName(x) \in DataNames PROVE Defined(DataDefinitions, Entity(x))
  <2>1. PICK d \in Ids : Is(d, DataDefinitions) /\ getName(d) = getName(x)
    BY <1>1 DEF DataNames
  <2>2. symbols[d].rename = 0 /\ symbols[d].name = symbols[x].name
    BY <2>1 DEF getName
  <2>3. Entity(d) = Entity(x)
    BY <2>1, <2>2, PlainData
  <2> QED BY <2>1, <2>3 DEF Defined
<1>2. ASSUME Defined(DataDefinitions, Entity(x)) PROVE getName(x) \in DataNames
  <2>1. PICK d \in Ids : Is(d, DataDefinitions) /\ Entity(d) = Entity(x)
    BY <1>2 DEF Defined
  <2>2. symbols[d].name = symbols[x].name
    BY <2>1, EntityCases
  <2>3. symbols[d].rename = 0
    BY <2>1, <2>2, PlainData
  <2>4. getName(d) = getName(x)
    BY <2>2, <2>3 DEF getName
  <2> QED BY <2>1, <2>4 DEF DataNames
<1> QED BY <1>1, <1>2

LEMMA ExternDone ==
  ASSUME LinkInv, pass = "done", NEW x \in Ids, Is(x, ExternData)
  PROVE  /\ x \in nullified <=> getName(x) \in DataNames
         /\ x \in nullified => Brothers(x) \subseteq programInternal
BY DEF LinkInv, LinkedOK, MarkedOK, ExternLinked

\* When the link is done, the data that are marked are those defined.
LEMMA DataMarked ==
  ASSUME IInv, WalkInv, LinkInv, pass = "done", WellFormed,
         NEW i \in Ids, Is(i, Data), ~Inherits(i)
  PROVE  i \in programInternal <=> Defined(DataDefinitions, Entity(i))
<1>1. ASSUME i \in programInternal PROVE Defined(DataDefinitions, Entity(i))
  <2>1. PICK k \in Ids : i \in Brothers(k) /\ Marked(k)
    BY <1>1 DEF LinkInv, MarkedOK
  <2>2. Entity(i) = Entity(k)
    BY <2>1, SameEntity
  <2>3. Is(k, Data)
    BY <2>1 DEF IInv, Uniform, Brothers
  <2>4. CASE Is(k, DataDefinitions)
    BY <2>2, <2>4 DEF Defined
  <2>5. CASE Is(k, ExternData) /\ getName(k) \in DataNames
    <3>1. CASE Entity(k) = <<0, symbols[k].name, 0>>
      BY <2>2, <2>5, <3>1, PlainExtern, DefinedByName
    <3>2. CASE Entity(k) # <<0, symbols[k].name, 0>>
      <4>1. ~Local(k)
        BY <2>5 DEF Is, ExternData, Local
      <4>2. /\ Static(symbols[k].module, symbols[k].name, k)
            /\ Entity(k) = <<symbols[k].module, symbols[k].name, 0>>
        BY <3>2, <4>1, EntityCases
      <4>3. k \notin Ids \/ Is(i, Statics)
        BY <2>2, <4>2, EntityCases DEF Inherits
      <4>4. Is(i, DataDefinitions)
        BY <4>3, KindsApart DEF Is, Statics, ExternData
      <4> QED BY <4>4 DEF Defined
    <3> QED BY <3>1, <3>2
  <2> QED BY <2>1, <2>3, <2>4, <2>5, KindsApart DEF Marked, Is
<1>2. ASSUME Defined(DataDefinitions, Entity(i)) PROVE i \in programInternal
  <2>1. CASE Is(i, DataDefinitions)
    <3>1. Brothers(i) \subseteq programInternal
      BY <2>1 DEF LinkInv, LinkedOK, DataLinked
    <3> QED BY <3>1, OwnBrother
  <2>2. CASE Is(i, ExternData)
    <3>1. ~Is(i, Statics)
      BY <2>2 DEF Is, Statics, ExternData
    <3>2. Entity(i) = <<0, symbols[i].name, 0>>
      BY <3>1, Global
    <3>3. getName(i) \in DataNames
      BY <1>2, <2>2, <3>2, PlainExtern, DefinedByName
    <3> QED BY <2>2, <3>3, ExternDone, OwnBrother
  <2> QED BY <2>1, <2>2, KindsApart
<1> QED BY <1>1, <1>2

-----------------------------------------------------------------------------
(* Variables.                                                               *)

LEMMA ResolvedThen == IInv /\ WalkInv /\ LinkInv => ExternsResolved
<1> SUFFICES ASSUME IInv, WalkInv, LinkInv, pass = "done", WellFormed,
                    NEW i \in Ids, Is(i, ExternData), ~Inherits(i)
             PROVE  i \in nullified <=> Defined(DataDefinitions, Entity(i))
  BY DEF ExternsResolved
<1>1. ~Is(i, Statics)
  BY DEF Is, Statics, ExternData
<1>2. Entity(i) = <<0, symbols[i].name, 0>>
  BY <1>1, Global
<1> QED BY <1>2, PlainExtern, DefinedByName, ExternDone

LEMMA MeaningKept == IInv /\ WalkInv /\ LinkInv => UsesKeepTheirMeaning
<1> SUFFICES ASSUME IInv, WalkInv, LinkInv, pass = "done", WellFormed,
                    NEW i \in Ids, Is(i, Data), ~Inherits(i),
                    NEW j \in Ids, Is(j, Data), ~Inherits(j)
             PROVE  Printed(i) = Printed(j) <=> Entity(i) = Entity(j)
  BY DEF UsesKeepTheirMeaning
<1>1. ASSUME NEW u \in Ids, Is(u, Data), ~Inherits(u), ~Is(u, Statics)
      PROVE  symbols[u].rename = 0 /\ Entity(u) = <<0, symbols[u].name, 0>>
  <2>1. Entity(u) = <<0, symbols[u].name, 0>>
    BY <1>1, Global
  <2> QED BY <1>1, <2>1, PlainData, PlainExtern, KindsApart
<1>2. ASSUME NEW u \in Ids, Is(u, Data), Is(u, Statics)
      PROVE  /\ symbols[u].rename # 0 /\ Is(u, DataDefinitions) /\ Entity(u)[1] # 0
  <2>1. Is(u, Statics \cap Data) /\ Is(u, DataDefinitions)
    BY <1>2 DEF Is, Statics, Data, ExternData
  <2> QED BY <1>2, <2>1, StaticEntity DEF WalkInv
<1>3. ASSUME Entity(i) = Entity(j) PROVE Printed(i) = Printed(j)
  <2>1. i \in programInternal <=> j \in programInternal
    BY <1>3, DataMarked
  <2>2. getName(i) = getName(j)
    <3>1. CASE ~Is(i, Statics) /\ ~Is(j, Statics)
      <4>1. /\ symbols[i].rename = 0 /\ symbols[j].rename = 0
            /\ symbols[i].name = symbols[j].name
        BY <1>1, <1>3, <3>1
      <4> QED BY <4>1 DEF getName
    <3>2. CASE Is(i, Statics) /\ Is(j, Statics)
      BY <1>2, <1>3, <3>2, OneNamePerVariable
    <3> QED BY <1>1, <1>2, <1>3, <3>1, <3>2
  <2> QED BY <2>1, <2>2 DEF Printed
<1>4. ASSUME Printed(i) = Printed(j) PROVE Entity(i) = Entity(j)
  <2>1. symbols[i].rename = symbols[j].rename /\ symbols[i].name = symbols[j].name
    BY <1>4 DEF Printed, getName
  <2>2. CASE symbols[i].rename # 0
    <3>1. i \in Brothers(j) \/ j \in Brothers(i)
      BY <2>1, <2>2 DEF IInv, NewNamesDiffer, getName, Brothers
    <3> QED BY <3>1, SameEntity
  <2>3. CASE symbols[i].rename = 0
    <3>1. ~Is(i, Statics) /\ ~Is(j, Statics)
      BY <1>2, <2>1, <2>3
    <3> QED BY <1>1, <2>1, <3>1
  <2> QED BY <2>2, <2>3
<1> QED BY <1>3, <1>4

-----------------------------------------------------------------------------
(* Functions.                                                               *)

\* A set of natural numbers has a least element.
LEMMA FirstOf ==
  ASSUME NEW S \in SUBSET Nat, S # {}
  PROVE  \E k \in S : \A j \in S : ~(j < k)
<1>1. IsWellFoundedOn(OpToRel(<, Nat), Nat)
  BY NatLessThanWellFounded
<1>2. PICK k \in S : \A j \in S : ~(<<j, k>> \in OpToRel(<, Nat))
  BY <1>1, WFMin
<1> QED BY <1>2 DEF OpToRel

LEMMA BrothersOfBrother ==
  ASSUME NEW i \in Ids, NEW k \in Ids, k \in Brothers(i)
  PROVE  Brothers(k) = Brothers(i)
<1>1. CASE k = i
  BY <1>1
<1>2. CASE SameEntry(i, k)
  <2>1. SameEntry(k, i) /\ \A j \in Ids : SameEntry(i, j) <=> SameEntry(k, j)
    BY <1>2 DEF SameEntry
  <2>2. SameEntry(i, i) /\ SameEntry(k, k)
    BY <1>2 DEF SameEntry
  <2> QED BY <1>2, <2>1, <2>2 DEF Brothers
<1> QED BY <1>1, <1>2 DEF Brothers

\* What shares an entry with a function is a function.
LEMMA BrotherFunctions ==
  ASSUME IInv, NEW i \in Ids, Is(i, Functions), NEW k \in Ids, k \in Brothers(i)
  PROVE  Is(k, Functions)
<1>1. CASE k = i
  BY <1>1
<1>2. CASE SameEntry(i, k)
  <2>1. ~Is(k, Data)
    BY <1>2, KindsApart DEF IInv, Uniform
  <2>2. symbols[k].kind # "tag"
    BY <1>2 DEF SameEntry
  <2>3. symbols[k].kind \in Kinds
    BY SymbolTypes
  <2> QED BY <2>1, <2>2, <2>3 DEF Is, Kinds
<1> QED BY <1>1, <1>2 DEF Brothers

LEMMA FunctionFacts ==
  ASSUME WalkInv, NEW i \in Ids, Is(i, Functions)
  PROVE  /\ symbols[i].rename = 0 /\ getName(i) = <<0, symbols[i].name>>
         /\ ~Local(i) /\ ~Is(i, Data) /\ symbols[i].kind \notin {"tag", "block static data"}
         /\ Is(i, Definitions) => Is(i, FunctionDefinitions)
<1>1. symbols[i].rename = 0
  BY DEF WalkInv, Is
<1> QED BY <1>1 DEF getName, Is, Local, Functions, FunctionDefinitions, Prototypes, Data,
                    Definitions, DataDefinitions, ExternData

\* The table keeps the definition of a function.
LEMMA DefinitionKept ==
  ASSUME IInv, WalkInv, NEW f \in Ids, Is(f, FunctionDefinitions)
  PROVE  Kept(f)
<1>1. Is(f, Definitions) /\ Is(f, Functions) /\ f \in Nat
  BY SymbolTypes DEF Is, Definitions, Functions
<1>2. ASSUME NEW j \in Brothers(f), j < f PROVE ~Is(j, Definitions)
  <2>1. j # f
    BY <1>1, <1>2
  <2>2. j \in Ids /\ SameEntry(f, j)
    BY <2>1 DEF Brothers
  <2>3. Is(j, Functions)
    BY <1>1, <2>2, BrotherFunctions
  <2>4. ~Is(j, FunctionDefinitions)
    BY <2>1, <2>2 DEF WalkInv
  <2> QED BY <2>2, <2>3, <2>4, FunctionFacts
<1> QED BY <1>1, <1>2 DEF Kept

\* Where no function is defined, the table keeps the first prototype.
LEMMA PrototypeKept ==
  ASSUME IInv, WalkInv, NEW i \in Ids, Is(i, Functions),
         \A k \in Brothers(i) : ~Is(k, FunctionDefinitions)
  PROVE  \E k \in Ids : k \in Brothers(i) /\ Is(k, Prototypes) /\ Kept(k)
<1>1. Brothers(i) \subseteq Ids /\ Brothers(i) # {} /\ \A k \in Ids : k \in Nat
  BY SymbolTypes DEF Brothers
<1>2. PICK k \in Brothers(i) : \A j \in Brothers(i) : ~(j < k)
  BY <1>1, FirstOf
<1>3. k \in Ids /\ Brothers(k) = Brothers(i)
  BY <1>1, <1>2, BrothersOfBrother
<1>4. \A j \in Brothers(i) : ~Is(j, Definitions)
  BY <1>1, BrotherFunctions, FunctionFacts
<1>5. Is(k, Prototypes)
  BY <1>3, BrotherFunctions, KindsApart
<1> QED BY <1>2, <1>3, <1>4, <1>5 DEF Kept

\* A name of a variable of the program is no name of a function of it.
LEMMA NoFunction ==
  ASSUME IInv, WalkInv, WellFormed, NEW d \in Ids, Is(d, DataDefinitions),
         NEW k \in Ids, Is(k, Functions), getName(d) = getName(k),
         Entity(k) = <<0, symbols[k].name, 0>>
  PROVE  FALSE
<1>1. symbols[d].rename = 0 /\ symbols[d].name = symbols[k].name
  BY FunctionFacts DEF getName
<1>2. Entity(d) = Entity(k)
  BY <1>1, PlainData
<1>3. Is(d, Data) /\ ~Is(d, Statics)
  BY <1>1, KindsApart DEF WalkInv, Is
<1>4. symbols[d].kind \notin {"tag", "block static data"}
  BY <1>3 DEF Is, Statics, Data, DataDefinitions, ExternData
<1>5. {symbols[d].kind, symbols[k].kind} \cap {"tag", "block static data"} = {}
  BY <1>4, FunctionFacts
<1>6. Is(d, Data) <=> Is(k, Data)
  BY <1>1, <1>2, <1>5 DEF WellFormed
<1> QED BY <1>3, <1>6, FunctionFacts

LEMMA StaticHere ==
  ASSUME IInv, WalkInv, NEW f \in Ids, Is(f, FunctionDefinitions),
         NEW i \in Ids, Is(i, Functions), ~Inherits(i),
         Entity(f) = Entity(i), Entity(i)[1] # 0
  PROVE  i \in Brothers(f)
<1>1. symbols[f].module = symbols[i].module /\ symbols[f].name = symbols[i].name
  BY EntityCases
<1>2. Is(i, Statics)
  BY DEF Inherits
<1>3. symbols[i].kind \in {"static function", "static prototype"}
  BY <1>2 DEF Is, Statics, Functions, FunctionDefinitions, Prototypes
<1>4. SameEntry(f, i)
  BY <1>1, <1>3 DEF SameEntry, Is, FunctionDefinitions, Blocks
<1> QED BY <1>4 DEF Brothers

LEMMA CallsThen == IInv /\ WalkInv /\ LinkInv => CallsAgree
<1> SUFFICES ASSUME IInv, WalkInv, LinkInv, pass = "done", WellFormed, StaticsSaySo,
                    NEW i \in Ids, Is(i, Functions), ~Inherits(i)
             PROVE  i \in programInternal <=> Defined(FunctionDefinitions, Entity(i))
  BY DEF CallsAgree
<1>g. ASSUME NEW f \in Ids, Is(f, FunctionDefinitions)
      PROVE  ~Is(f, Statics) => Entity(f) = <<0, symbols[f].name, 0>>
  BY <1>g, Global DEF StaticsSaySo
<1>1. ASSUME i \in programInternal PROVE Defined(FunctionDefinitions, Entity(i))
  <2>1. PICK k \in Ids : i \in Brothers(k) /\ Marked(k)
    BY <1>1 DEF LinkInv, MarkedOK
  <2>2. Entity(i) = Entity(k) /\ Is(k, Functions)
    <3>1. k \in Brothers(i)
      BY <2>1, BrothersOfBrother, OwnBrother
    <3> QED BY <2>1, <3>1, SameEntity, BrotherFunctions
  <2>3. CASE Is(k, FunctionDefinitions)
    BY <2>2, <2>3 DEF Defined
  <2>4. CASE Is(k, Prototypes) /\ getName(k) \in DOMAIN globalSymbolTable
    <3>1. CASE Entity(k) = <<0, symbols[k].name, 0>>
      <4>1. globalSymbolTable[getName(k)] \in {"data", "function"}
        BY <2>4 DEF IInv, TypeOK
      <4>2. globalSymbolTable[getName(k)] # "data"
        <5> SUFFICES ASSUME globalSymbolTable[getName(k)] = "data" PROVE FALSE
          OBVIOUS
        <5>1. PICK d \in Ids : Is(d, DataDefinitions) /\ getName(d) = getName(k)
          BY <2>4 DEF LinkInv, GlobalOK
        <5> QED BY <2>2, <3>1, <5>1, NoFunction
      <4>3. PICK f \in Ids : Is(f, {"function"}) /\ getName(f) = getName(k)
        BY <2>4, <4>1, <4>2 DEF LinkInv, GlobalOK
      <4>4. Is(f, FunctionDefinitions) /\ ~Is(f, Statics)
        BY <4>3, KindsApart
      <4>5. Entity(f) = Entity(k)
        BY <1>g, <3>1, <4>3, <4>4 DEF getName
      <4> QED BY <2>2, <4>4, <4>5 DEF Defined
    <3>2. CASE Entity(k) # <<0, symbols[k].name, 0>>
      <4>1. Is(i, Statics)
        <5> SUFFICES ASSUME ~Is(i, Statics) PROVE FALSE
          OBVIOUS
        <5>1. Entity(i) = <<0, symbols[i].name, 0>>
          BY Global
        <5>2. symbols[k].name = symbols[i].name
          BY <2>2, EntityCases
        <5> QED BY <2>2, <3>2, <5>1, <5>2
      <4>2. CASE Is(i, FunctionDefinitions)
        BY <4>2 DEF Defined
      <4>3. CASE symbols[i].kind = "static prototype"
        BY <4>3 DEF WellFormed, Is
      <4> QED BY <4>1, <4>2, <4>3 DEF Is, Statics, Functions, FunctionDefinitions, Prototypes
    <3> QED BY <3>1, <3>2
  <2>5. ~Is(k, DataDefinitions) /\ ~Is(k, ExternData)
    BY <2>2, KindsApart
  <2> QED BY <2>1, <2>3, <2>4, <2>5 DEF Marked, Is
<1>2. ASSUME Defined(FunctionDefinitions, Entity(i)) PROVE i \in programInternal
  <2>1. PICK f \in Ids : Is(f, FunctionDefinitions) /\ Entity(f) = Entity(i)
    BY <1>2 DEF Defined
  <2>2. ASSUME NEW g \in Ids, Is(g, FunctionDefinitions)
        PROVE  /\ Brothers(g) \subseteq programInternal
               /\ Is(g, {"function"}) => getName(g) \in DOMAIN globalSymbolTable
    <3>1. Kept(g)
      BY <2>2, DefinitionKept
    <3> QED BY <2>2, <3>1 DEF LinkInv, LinkedOK, DefinitionLinked
  <2>3. CASE Entity(i)[1] # 0
    BY <2>1, <2>2, <2>3, StaticHere
  <2>4. CASE Entity(i)[1] = 0
    <3>1. CASE \E g \in Brothers(i) : Is(g, FunctionDefinitions)
      <4>1. PICK g \in Ids : g \in Brothers(i) /\ Is(g, FunctionDefinitions)
        BY <3>1 DEF Brothers
      <4> QED BY <2>2, <4>1, BrothersOfBrother, OwnBrother
    <3>2. CASE \A g \in Brothers(i) : ~Is(g, FunctionDefinitions)
      <4>1. PICK k \in Ids : k \in Brothers(i) /\ Is(k, Prototypes) /\ Kept(k)
        BY <3>2, PrototypeKept
      <4>2. ~Is(f, Statics)
        BY <2>1, <2>4, StaticEntity
      <4>3. Is(f, {"function"}) /\ Is(f, Functions) /\ Is(k, Functions)
        BY <2>1, <4>1, <4>2, KindsApart
      <4>4. getName(k) = getName(f)
        <5>1. symbols[f].name = symbols[i].name
          BY <2>1, EntityCases
        <5>2. symbols[k].name = symbols[i].name
          BY <4>1 DEF Brothers, SameEntry
        <5> QED BY <4>3, <5>1, <5>2, FunctionFacts
      <4>5. getName(k) \in DOMAIN globalSymbolTable
        BY <2>1, <2>2, <4>3, <4>4
      <4>6. Brothers(k) \subseteq programInternal
        BY <4>1, <4>5 DEF LinkInv, LinkedOK, PrototypeLinked
      <4> QED BY <4>1, <4>6, BrothersOfBrother, OwnBrother
    <3> QED BY <3>1, <3>2
  <2> QED BY <2>3, <2>4
<1> QED BY <1>1, <1>2

-----------------------------------------------------------------------------
(* Errors.                                                                  *)

LEMMA RefusedThen == IInv /\ WalkInv /\ LinkInv => RefusedForCause
<1> SUFFICES ASSUME IInv, WalkInv, LinkInv, errors > 0, WellFormed, StaticsSaySo
             PROVE  \E i, j \in Ids : /\ i # j /\ Is(i, DataDefinitions) /\ Is(j, DataDefinitions)
                                      /\ Entity(i) = Entity(j)
  BY DEF RefusedForCause
<1>1. PICK d \in Ids, e \in Ids :
         /\ d # e /\ getName(d) = getName(e) /\ Is(d, DataDefinitions)
         /\ Is(e, DataDefinitions \cup {"function"})
  BY DEF LinkInv, ErrorsOK, Clash
<1>2. CASE Is(e, DataDefinitions)
  <2>1. symbols[d].rename = symbols[e].rename /\ symbols[d].name = symbols[e].name
    BY <1>1 DEF getName
  <2>2. CASE symbols[d].rename # 0
    <3>1. SameEntry(d, e)
      BY <1>1, <2>2 DEF IInv, NewNamesDiffer
    <3>2. Entity(e) = Entity(d)
      BY <3>1, SameEntity DEF Brothers
    <3> QED BY <1>1, <1>2, <3>2
  <2>3. CASE symbols[d].rename = 0
    <3>1. Entity(d) = Entity(e)
      BY <1>1, <1>2, <2>1, <2>3, PlainData
    <3> QED BY <1>1, <1>2, <3>1
  <2> QED BY <2>2, <2>3
<1>3. CASE symbols[e].kind = "function"
  <2>1. Is(e, FunctionDefinitions) /\ Is(e, Functions) /\ ~Is(e, Statics)
    BY <1>3 DEF Is, FunctionDefinitions, Functions, Statics
  <2>2. Entity(e) = <<0, symbols[e].name, 0>>
    BY <2>1, Global DEF StaticsSaySo
  <2> QED BY <1>1, <2>1, <2>2, NoFunction
<1> QED BY <1>1, <1>2, <1>3 DEF Is

LEMMA ClashesThen == IInv /\ WalkInv /\ LinkInv => ClashesRefused
<1> SUFFICES ASSUME IInv, WalkInv, LinkInv, pass = "done", NEW i \in Ids, NEW j \in Ids,
                    i # j, Entity(i) = Entity(j), Is(i, DataDefinitions)
             PROVE  /\ ~(symbols[j].kind = "function" /\ ~Inherits(j))
                    /\ Is(j, DataDefinitions) => optionLink
  BY DEF ClashesRefused
<1>0. errors = 0 /\ \A d \in Ids : DataLinked(d) /\ DefinitionLinked(d)
  BY DEF LinkInv, ErrorsOK, DataLinked, DefinitionLinked
<1>1. ASSUME symbols[j].kind = "function", ~Inherits(j) PROVE FALSE
  <2>1. Is(j, FunctionDefinitions) /\ Is(j, Functions) /\ ~Is(j, Statics) /\ Is(j, {"function"})
    BY <1>1 DEF Is, FunctionDefinitions, Functions, Statics
  <2>2. Entity(j) = <<0, symbols[j].name, 0>>
    BY <1>1, <2>1, Global
  <2>3. symbols[i].name = symbols[j].name
    BY EntityCases
  <2>4. symbols[i].rename = 0
    BY <2>2, <2>3, PlainData
  <2>5. getName(i) = getName(j)
    BY <2>1, <2>3, <2>4, FunctionFacts DEF getName
  <2>6. globalSymbolTable[getName(i)] = "data"
    BY <1>0 DEF LinkInv, LinkedOK
  <2>7. Kept(j)
    BY <2>1, DefinitionKept
  <2>8. globalSymbolTable[getName(j)] = "function"
    BY <1>0, <2>1, <2>7 DEF LinkInv, LinkedOK
  <2> QED BY <2>5, <2>6, <2>8
<1>2. ASSUME Is(j, DataDefinitions) PROVE optionLink
  <2>1. getName(i) = getName(j)
    BY <1>2, OneNamePerVariable
  <2> QED BY <1>0, <1>2, <2>1 DEF LinkInv, ErrorsOK
<1> QED BY <1>1, <1>2

-----------------------------------------------------------------------------
(* The theorems about the link.                                             *)

\* The declaration of a variable that the program defines, in whatever module
\* and order, is taken out of the output, and no other: the last lists of the
\* link have been through all extern declarations.
THEOREM ExternsAreResolved == Spec => []ExternsResolved
BY AlwaysLinkInv, ResolvedThen, PTL

\* Two uses of variables are printed alike exactly when they denote one
\* variable: new names, brothers and marks agree with linkage.
THEOREM MeaningIsKept == Spec => []UsesKeepTheirMeaning
BY AlwaysLinkInv, MeaningKept, PTL

\* A call passes _this exactly when the function called takes it, whatever the
\* order in which the modules declare and define it.
THEOREM CallsPassThis == Spec => []CallsAgree
BY AlwaysLinkInv, CallsThen, PTL

\* What the link refuses are clashes of definitions, and it lets none pass.
THEOREM ErrorsAreClashes == Spec => []ClashesAreTheErrors
<1>1. IInv /\ WalkInv /\ LinkInv => ClashesAreTheErrors
  BY RefusedThen, ClashesThen DEF ClashesAreTheErrors
<1> QED BY <1>1, AlwaysLinkInv, PTL
=============================================================================
