------------------------- MODULE SymbolTable_proofs -------------------------
(***************************************************************************)
(* Proofs about the ordinary name space, for any declarations and scopes.   *)
(*                                                                          *)
(* The inductive invariant TableInv says how the table, the vectors of      *)
(* brothers and the flushed symbols fit together.  What a declaration does  *)
(* is one of few effects: the new symbol is refused, it enters the table,   *)
(* or it joins the brothers of a symbol there and one of the two is kept.   *)
(* The lemmas about operations show which effect an operation has, and each *)
(* property is proved of the effects.                                       *)
(*                                                                          *)
(* The second invariant, ScopesInv, says that whatever holds a declaration  *)
(* has been opened, under a number that is taken: a scope about to open has *)
(* a new name, so the table has nothing under it.  With it every step is a  *)
(* step of ScopedEnvironment, or none.                                      *)
(***************************************************************************)
EXTENDS SymbolTable, SequenceTheorems, FiniteSetTheorems, TLAPS

\* The symbols under a key were declared with that key; only functions are
\* overloaded.
KeptOK ==
  \A key \in DOMAIN symTable :
    /\ \A id \in Kept(symTable[key]) : KeyOf(id) = key
    /\ \A i, j \in 1..Len(symTable[key].ids) :
         symTable[key].ids[i] = symTable[key].ids[j] => i = j
    /\ symTable[key].pseudo =>
         \A id \in Kept(symTable[key]) : symbols[id].kind = "function"
    /\ ~symTable[key].pseudo => Len(symTable[key].ids) = 1

\* The vectors of brothers are disjoint, each of one name, scope and kind.
VectorsOK ==
  /\ \A id \in Ids : symbols[id].brothers # 0 => id \in vectors[symbols[id].brothers]
  /\ \A v \in 1..Len(vectors) : \A id \in vectors[v] : symbols[id].brothers = v
  /\ \A v \in 1..Len(vectors) : \A a, b \in vectors[v] :
       KeyOf(a) = KeyOf(b) /\ symbols[a].kind = symbols[b].kind

\* Of each vector, the table holds one symbol.
OneKept ==
  \A v \in 1..Len(vectors) : \E k \in vectors[v] :
    KeyOf(k) \in DOMAIN symTable /\ Kept(symTable[KeyOf(k)]) \cap vectors[v] = {k}

\* A flushed symbol has brothers, and is out of the table.
FlushedOK ==
  \A id \in flushed_list :
    /\ symbols[id].brothers # 0
    /\ KeyOf(id) \in DOMAIN symTable => id \notin Kept(symTable[KeyOf(id)])

TableInv == TableTypeOK /\ KeptOK /\ VectorsOK /\ OneKept /\ FlushedOK

\* A symbol about to be declared under a key: only functions are builtins or
\* have definitions, and the parameters of a definition are known.
Fresh(key, new) ==
  /\ new \in SymbolType(0) /\ key = <<new.path, new.name>>
  /\ new.builtin => new.kind = "function"
  /\ new.isDefinition => new.kind = "function" /\ new.type # AnyParams

Alone(new) == StoreAlone(new) /\ errors' \in Nat /\ aborted' \in BOOLEAN

Elements(ids) == {ids[i] : i \in 1..Len(ids)}
Distinct(ids) == \A i, j \in 1..Len(ids) : ids[i] = ids[j] => i = j

-----------------------------------------------------------------------------
(* The effects of a declaration.                                            *)

\* An entry for the new symbol.
WellFormed(entry, new) ==
  /\ entry \in [pseudo : BOOLEAN, ids : Seq(Ids \cup {NewId})] /\ entry.ids # << >>
  /\ Distinct(entry.ids)
  /\ entry.pseudo => new.kind = "function"
  /\ ~entry.pseudo => Len(entry.ids) = 1

Stops     == /\ UNCHANGED <<symTable, symbols, vectors, flushed_list>>
             /\ errors' \in Nat \ {0} /\ aborted' \in BOOLEAN
Refuses(new) == /\ Alone(new)
                /\ UNCHANGED <<symTable, flushed_list>>
                /\ errors' # 0

\* The first symbol under the key, or an overload that differs from the others.
Enters(key, new) ==
  /\ Alone(new) /\ UNCHANGED flushed_list
  /\ \E entry :
       /\ WellFormed(entry, new) /\ Put(key, entry)
       /\ \/ key \notin DOMAIN symTable /\ Kept(entry) = {NewId}
          \/ /\ key \in DOMAIN symTable /\ entry.pseudo /\ symTable[key].pseudo
             /\ Kept(entry) = Kept(symTable[key]) \cup {NewId}
             /\ \A id \in Kept(symTable[key]) : ~EquivalentFunctions(symbols[id], new)

\* The table keeps the old symbol: the new one is flushed, or is an error.
StaysAside(old, new) ==
  /\ UNCHANGED symTable
  /\ \/ flushed_list' = flushed_list \cup {NewId}
     \/ UNCHANGED flushed_list /\ errors' # 0
  /\ new.isDefinition => symbols[old].isDefinition

\* The new symbol takes the place of the old one.
TakesPlace(key, old, new) ==
  /\ flushed_list' = flushed_list \cup {old}
  /\ new.kind = "function" =>
       new.isDefinition /\ (symbols[old].builtin => new.builtin)
  /\ \E entry :
       /\ WellFormed(entry, new) /\ Put(key, entry)
       /\ Kept(entry) = (Kept(symTable[key]) \ {old}) \cup {NewId}
       /\ entry.pseudo => symTable[key].pseudo /\ EquivalentFunctions(symbols[old], new)

Joins(key, new) ==
  /\ errors' \in Nat /\ aborted' \in BOOLEAN
  /\ key \in DOMAIN symTable
  /\ \E old \in Kept(symTable[key]) :
       /\ symbols[old].kind = new.kind
       /\ StoreAsBrother(old, new)
       /\ StaysAside(old, new) \/ TakesPlace(key, old, new)

Effect(key, new) ==
  /\ errors' = 0 => errors = 0
  /\ Stops \/ Refuses(new) \/ Enters(key, new) \/ Joins(key, new)

-----------------------------------------------------------------------------
(* What is stored of a new symbol.                                          *)

LEMMA StoreAloneEffect ==
  ASSUME TableTypeOK, NEW new \in SymbolType(0), StoreAlone(new)
  PROVE  /\ vectors' = vectors
         /\ symbols' \in Seq(SymbolType(Len(vectors')))
         /\ NewId \in Nat /\ NewId \notin Ids /\ Ids' = Ids \cup {NewId}
         /\ \A id \in Ids : symbols'[id] = symbols[id]
         /\ symbols'[NewId] = new
<1>1. Len(vectors) \in Nat /\ new \in SymbolType(Len(vectors))
  BY DEF TableTypeOK, SymbolType
<1>2. symbols \in Seq(SymbolType(Len(vectors))) /\ symbols' = Append(symbols, new)
      /\ vectors' = vectors
  BY DEF TableTypeOK, StoreAlone
<1> HIDE DEF SymbolType
<1> QED BY <1>1, <1>2 DEF NewId, Ids

LEMMA RefusedInv ==
  ASSUME TableInv, NEW key, NEW new, Fresh(key, new), Alone(new),
         UNCHANGED <<symTable, flushed_list>>
  PROVE  TableInv'
<1>1. /\ vectors' = vectors
      /\ symbols' \in Seq(SymbolType(Len(vectors')))
      /\ NewId \in Nat /\ NewId \notin Ids /\ Ids' = Ids \cup {NewId}
      /\ \A id \in Ids : symbols'[id] = symbols[id]
      /\ symbols'[NewId] = new
  BY StoreAloneEffect DEF Fresh, Alone, TableInv
<1>0. new.brothers = 0
  BY DEF Fresh, SymbolType
<1>2. \A id \in Ids : KeyOf(id)' = KeyOf(id)
  BY <1>1 DEF KeyOf
<1>3. \A v \in 1..Len(vectors) : vectors[v] \subseteq Ids
  BY DEF TableInv, TableTypeOK
<1>4. \A key_1 \in DOMAIN symTable : Kept(symTable[key_1]) \subseteq Ids
  BY DEF TableInv, TableTypeOK, Kept
<1>5. TableTypeOK'
  <2>1. vectors' \in Seq(SUBSET Ids')
    BY <1>1, SeqMonotonic DEF TableInv, TableTypeOK
  <2>2. \A key_1 \in DOMAIN symTable : symTable[key_1].ids \in Seq(Ids')
    BY <1>1, SeqMonotonic DEF TableInv, TableTypeOK
  <2> QED BY <1>1, <2>1, <2>2 DEF TableInv, TableTypeOK, Alone
<1>6. KeptOK'
  BY <1>1, <1>2, <1>4 DEF TableInv, KeptOK
<1>7. VectorsOK'
  BY <1>0, <1>1, <1>2, <1>3 DEF TableInv, VectorsOK
<1>8. OneKept'
  BY <1>1, <1>2, <1>3 DEF TableInv, OneKept
<1>9. FlushedOK'
  <2>1. flushed_list \subseteq Ids
    BY DEF TableInv, TableTypeOK
  <2> QED BY <1>1, <1>2, <2>1 DEF TableInv, FlushedOK, Kept
<1> QED BY <1>5, <1>6, <1>7, <1>8, <1>9 DEF TableInv

\* The new symbol enters the table, next to the overloads it has there.
LEMMA EnteredInv ==
  ASSUME TableInv, NEW key, NEW new, Fresh(key, new), Alone(new),
         NEW entry, Put(key, entry), UNCHANGED flushed_list,
         entry \in [pseudo : BOOLEAN, ids : Seq(Ids \cup {NewId})], entry.ids # << >>,
         \A i, j \in 1..Len(entry.ids) : entry.ids[i] = entry.ids[j] => i = j,
         entry.pseudo => new.kind = "function", ~entry.pseudo => Len(entry.ids) = 1,
         \/ key \notin DOMAIN symTable /\ Kept(entry) = {NewId}
         \/ /\ key \in DOMAIN symTable /\ Kept(entry) = Kept(symTable[key]) \cup {NewId}
            /\ entry.pseudo => symTable[key].pseudo
  PROVE  TableInv'
<1>0. new.brothers = 0 /\ <<new.path, new.name>> = key
  BY DEF Fresh, SymbolType
<1>1. /\ vectors' = vectors
      /\ symbols' \in Seq(SymbolType(Len(vectors')))
      /\ NewId \in Nat /\ NewId \notin Ids /\ Ids' = Ids \cup {NewId}
      /\ \A id \in Ids : symbols'[id] = symbols[id]
      /\ symbols'[NewId] = new
  BY StoreAloneEffect DEF Fresh, Alone, TableInv
<1>2. /\ \A id \in Ids : KeyOf(id)' = KeyOf(id)
      /\ \A id \in {NewId} : KeyOf(id)' = key
  BY <1>0, <1>1 DEF KeyOf
<1>3. \A v \in 1..Len(vectors) : vectors[v] \subseteq Ids
  BY DEF TableInv, TableTypeOK
<1>4. \A k \in DOMAIN symTable : Kept(symTable[k]) \subseteq Ids
  BY DEF TableInv, TableTypeOK, Kept
<1>p. /\ DOMAIN symTable' = DOMAIN symTable \cup {key} /\ symTable'[key] = entry
      /\ \A k \in DOMAIN symTable : k # key => symTable'[k] = symTable[k]
  BY DEF Put
<1>5. TableTypeOK'
  <2>1. vectors' \in Seq(SUBSET Ids')
    BY <1>1, SeqMonotonic DEF TableInv, TableTypeOK
  <2>2. \A k \in DOMAIN symTable : /\ symTable[k].ids \in Seq(Ids')
                                    /\ symTable[k] \in [pseudo : BOOLEAN, ids : Seq(Ids')]
    BY <1>1, SeqMonotonic DEF TableInv, TableTypeOK
  <2>3. \A k \in DOMAIN symTable' : /\ symTable'[k] \in [pseudo : BOOLEAN, ids : Seq(Ids')]
                                     /\ symTable'[k].ids # << >>
    BY <1>1, <1>p, <2>2 DEF TableInv, TableTypeOK
  <2> QED BY <1>1, <2>1, <2>3 DEF TableInv, TableTypeOK, Alone
<1>6. KeptOK'
  <2>1. SUFFICES ASSUME NEW k \in DOMAIN symTable'
                 PROVE  /\ \A id \in Kept(symTable'[k]) : KeyOf(id)' = k
                        /\ \A i, j \in 1..Len(symTable'[k].ids) :
                             symTable'[k].ids[i] = symTable'[k].ids[j] => i = j
                        /\ symTable'[k].pseudo =>
                             \A id \in Kept(symTable'[k]) : symbols'[id].kind = "function"
                        /\ ~symTable'[k].pseudo => Len(symTable'[k].ids) = 1
    BY DEF KeptOK, Kept
  <2>2. CASE k = key
    <3>1. symTable'[k] = entry
      BY <1>p, <2>2
    <3>2. /\ \A id \in Kept(entry) : KeyOf(id)' = k
          /\ entry.pseudo => \A id \in Kept(entry) : symbols'[id].kind = "function"
      <4>1. CASE key \notin DOMAIN symTable
        BY <1>1, <1>2, <2>2, <4>1
      <4>2. CASE key \in DOMAIN symTable
        <5>1. \A id \in Kept(symTable[key]) : id \in Ids /\ KeyOf(id) = key
          BY <1>4, <4>2 DEF TableInv, KeptOK
        <5>2. entry.pseudo => \A id \in Kept(symTable[key]) : symbols[id].kind = "function"
          BY <4>2 DEF TableInv, KeptOK
        <5>3. Kept(entry) = Kept(symTable[key]) \cup {NewId}
          BY <4>2
        <5> QED BY <1>1, <1>2, <2>2, <5>1, <5>2, <5>3
      <4> QED BY <4>1, <4>2
    <3> QED BY <3>1, <3>2
  <2>3. CASE k # key
    BY <1>1, <1>2, <1>4, <1>p, <2>3 DEF TableInv, KeptOK
  <2> QED BY <2>2, <2>3
<1>7. VectorsOK'
  <2>1. \A id \in Ids' : symbols'[id].brothers # 0 => id \in vectors'[symbols'[id].brothers]
    BY <1>0, <1>1 DEF TableInv, VectorsOK
  <2>2. \A v \in 1..Len(vectors) : \A id \in vectors[v] : symbols'[id].brothers = v
    BY <1>1, <1>3 DEF TableInv, VectorsOK
  <2>3. \A v \in 1..Len(vectors) : \A c, d \in vectors[v] :
          KeyOf(c)' = KeyOf(d)' /\ symbols'[c].kind = symbols'[d].kind
    BY <1>1, <1>2, <1>3 DEF TableInv, VectorsOK
  <2> QED BY <1>1, <2>1, <2>2, <2>3 DEF VectorsOK
<1>8. OneKept'
  <2>1. SUFFICES ASSUME NEW v \in 1..Len(vectors)
                 PROVE  \E k \in vectors[v] :
                          /\ KeyOf(k)' \in DOMAIN symTable'
                          /\ Kept(symTable'[KeyOf(k)']) \cap vectors[v] = {k}
    BY <1>1 DEF OneKept, Kept
  <2>2. PICK k \in vectors[v] : /\ KeyOf(k) \in DOMAIN symTable
                                /\ Kept(symTable[KeyOf(k)]) \cap vectors[v] = {k}
    BY DEF TableInv, OneKept
  <2>3. k \in Ids /\ KeyOf(k)' = KeyOf(k) /\ NewId \notin vectors[v]
    BY <1>1, <1>2, <1>3
  <2>4. Kept(symTable'[KeyOf(k)]) \cap vectors[v] = {k}
    BY <1>p, <2>2, <2>3
  <2> QED BY <1>p, <2>2, <2>3, <2>4
<1>9. FlushedOK'
  <2>1. SUFFICES ASSUME NEW id \in flushed_list
                 PROVE  /\ symbols'[id].brothers # 0
                        /\ KeyOf(id)' \in DOMAIN symTable' =>
                             id \notin Kept(symTable'[KeyOf(id)'])
    BY DEF FlushedOK, Kept
  <2>2. id \in Ids /\ id # NewId
    BY <1>1 DEF TableInv, TableTypeOK
  <2> QED BY <1>1, <1>2, <1>p, <2>2 DEF TableInv, FlushedOK
<1> QED BY <1>5, <1>6, <1>7, <1>8, <1>9 DEF TableInv

\* Symbols that say the same of what they declare.
SameDeclaration(s, t) == /\ s.kind = t.kind /\ s.type = t.type
                         /\ s.isDefinition = t.isDefinition /\ s.builtin = t.builtin

\* Giving a symbol its vector changes nothing else of it.
LEMMA BrothersField ==
  ASSUME NEW m \in Nat, NEW n \in Nat, m <= n, NEW s \in SymbolType(m), NEW v \in 0..n
  PROVE  /\ [s EXCEPT !.brothers = v] \in SymbolType(n)
         /\ [s EXCEPT !.brothers = v].brothers = v
         /\ [s EXCEPT !.brothers = v].path = s.path
         /\ [s EXCEPT !.brothers = v].name = s.name
         /\ [s EXCEPT !.brothers = v].kind = s.kind
         /\ SameDeclaration([s EXCEPT !.brothers = v], s)
BY DEF SymbolType, SameDeclaration

\* The vector that a symbol of the table and the new one share from now on.
Vector(old) == IF symbols[old].brothers = 0 THEN Len(vectors) + 1 ELSE symbols[old].brothers

LEMMA StoreAsBrotherEffect ==
  ASSUME TableTypeOK, NEW new \in SymbolType(0), NEW old \in Ids,
         StoreAsBrother(old, new), NEW v, v = Vector(old)
  PROVE  /\ symbols' \in Seq(SymbolType(Len(vectors')))
         /\ NewId \in Nat /\ NewId \notin Ids /\ Ids' = Ids \cup {NewId}
         /\ vectors' \in Seq(SUBSET Ids')
         /\ v \in 1..Len(vectors') /\ vectors'[v] = Brothers(old) \cup {NewId}
         /\ \A w \in 1..Len(vectors') : w # v =>
              w \in 1..Len(vectors) /\ vectors'[w] = vectors[w]
         /\ 1..Len(vectors) \subseteq 1..Len(vectors')
         /\ \A id \in Ids : KeyOf(id)' = KeyOf(id) /\ symbols'[id].kind = symbols[id].kind
         /\ \A id \in {NewId} : KeyOf(id)' = <<new.path, new.name>>
         /\ symbols'[NewId].kind = new.kind /\ symbols'[NewId].brothers = v
         /\ \A id \in Ids : symbols'[id].brothers = IF id = old THEN v ELSE symbols[id].brothers
         /\ \A id \in Ids : SameDeclaration(symbols'[id], symbols[id])
         /\ SameDeclaration(symbols'[NewId], new)
<1> DEFINE n == Len(vectors)
           mine == [new EXCEPT !.brothers = v]
           his == [symbols[old] EXCEPT !.brothers = v]
<1>1. /\ n \in Nat /\ vectors \in Seq(SUBSET Ids) /\ symbols \in Seq(SymbolType(n))
      /\ Len(symbols) \in Nat /\ symbols[old] \in SymbolType(n)
      /\ \A id \in Ids : symbols[id] \in SymbolType(n)
  BY LenProperties, ElementOfSeq DEF TableTypeOK, Ids
<1>2. NewId \in Nat /\ NewId \notin Ids /\ NewId = Len(symbols) + 1
  BY <1>1 DEF NewId, Ids
<1>3. CASE symbols[old].brothers = 0
  <2>1. v = n + 1
    BY <1>3 DEF Vector
  <2> DEFINE m == n + 1
  <2>v. /\ n \in Nat /\ m \in Nat /\ 0 \in Nat /\ n <= m /\ 0 <= m /\ v \in 0..m
        /\ symbols[old] \in SymbolType(n)
    BY <1>1, <2>1
  <2>2. /\ mine \in SymbolType(n + 1) /\ mine.brothers = v /\ mine.kind = new.kind
        /\ SameDeclaration(mine, new)
        /\ mine.path = new.path /\ mine.name = new.name
    <3> HIDE DEF m, n
    <3>1. /\ mine \in SymbolType(m) /\ mine.brothers = v /\ mine.kind = new.kind
          /\ SameDeclaration(mine, new) /\ mine.path = new.path /\ mine.name = new.name
      BY <2>v, BrothersField
    <3> QED BY <3>1 DEF m
  <2>3. /\ his \in SymbolType(n + 1) /\ his.brothers = v /\ his.kind = symbols[old].kind
        /\ his.path = symbols[old].path /\ his.name = symbols[old].name
        /\ SameDeclaration(his, symbols[old])
    <3> HIDE DEF m, n
    <3>1. /\ his \in SymbolType(m) /\ his.brothers = v /\ his.kind = symbols[old].kind
          /\ his.path = symbols[old].path /\ his.name = symbols[old].name
          /\ SameDeclaration(his, symbols[old])
      BY <2>v, BrothersField
    <3> QED BY <3>1 DEF m
  <2>4. /\ vectors' = Append(vectors, {old, NewId})
        /\ symbols' = Append([symbols EXCEPT ![old] = his], mine)
    BY <1>1, <1>3, <2>1 DEF StoreAsBrother
  <2> HIDE DEF mine, his
  <2>5. /\ Len(vectors') = n + 1 /\ vectors'[v] = {old, NewId}
        /\ \A w \in 1..n : vectors'[w] = vectors[w]
        /\ vectors' \in Seq(SUBSET (Ids \cup {NewId}))
    <3>1. vectors \in Seq(SUBSET (Ids \cup {NewId}))
      BY <1>1, SeqMonotonic
    <3>2. {old, NewId} \in SUBSET (Ids \cup {NewId})
      OBVIOUS
    <3>3. /\ vectors' = Append(vectors, {old, NewId}) /\ Len(vectors) = n
          /\ v = Len(vectors) + 1
      BY <2>1, <2>4
    <3>4. /\ vectors' \in Seq(SUBSET (Ids \cup {NewId})) /\ Len(vectors') = Len(vectors) + 1
          /\ \A w \in 1..Len(vectors) : vectors'[w] = vectors[w]
          /\ vectors'[Len(vectors) + 1] = {old, NewId}
      BY <3>1, <3>2, <3>3, AppendProperties
    <3> QED BY <3>3, <3>4
  <2>6. symbols \in Seq(SymbolType(n + 1))
    <3>1. 0..n \subseteq 0..(n + 1)
      BY <1>1
    <3>2. SymbolType(n) \subseteq SymbolType(n + 1)
      <4> HIDE DEF n
      <4> QED BY <3>1 DEF SymbolType
    <3> QED BY <1>1, <3>2, SeqMonotonic
  <2>7. /\ [symbols EXCEPT ![old] = his] \in Seq(SymbolType(n + 1))
        /\ Len([symbols EXCEPT ![old] = his]) = Len(symbols)
        /\ \A id \in Ids : [symbols EXCEPT ![old] = his][id] = IF id = old THEN his ELSE symbols[id]
    BY <2>3, <2>6, ExceptSeq DEF Ids
  <2>8. /\ symbols' \in Seq(SymbolType(n + 1)) /\ Len(symbols') = NewId
        /\ symbols'[NewId] = mine
        /\ \A id \in Ids : symbols'[id] = IF id = old THEN his ELSE symbols[id]
    BY <1>1, <1>2, <2>2, <2>4, <2>7 DEF Ids
  <2>9. Ids' = Ids \cup {NewId}
    BY <1>1, <1>2, <2>8 DEF Ids
  <2>10. Brothers(old) = {old}
    BY <1>3 DEF Brothers
  <2>11. \A id \in Ids : /\ KeyOf(id)' = KeyOf(id) /\ symbols'[id].kind = symbols[id].kind
                         /\ symbols'[id].brothers = IF id = old THEN v ELSE symbols[id].brothers
    BY <2>3, <2>8 DEF KeyOf
  <2>12. \A id \in {NewId} : KeyOf(id)' = <<new.path, new.name>>
    BY <2>2, <2>8 DEF KeyOf
  <2>13. /\ \A id \in Ids : SameDeclaration(symbols'[id], symbols[id])
         /\ SameDeclaration(symbols'[NewId], new)
    BY <2>2, <2>3, <2>8 DEF SameDeclaration
  <2> QED BY <1>1, <1>2, <2>1, <2>2, <2>5, <2>8, <2>9, <2>10, <2>11, <2>12, <2>13
<1>4. CASE symbols[old].brothers # 0
  <2>1. v = symbols[old].brothers /\ v \in 1..n
    BY <1>1, <1>4 DEF Vector, SymbolType
  <2>2. /\ mine \in SymbolType(n) /\ mine.brothers = v /\ mine.kind = new.kind
        /\ SameDeclaration(mine, new)
        /\ mine.path = new.path /\ mine.name = new.name
    BY <1>1, <2>1, BrothersField
  <2>3. /\ vectors' = [vectors EXCEPT ![v] = vectors[v] \cup {NewId}]
        /\ symbols' = Append(symbols, mine)
    BY <1>1, <1>4, <2>1 DEF StoreAsBrother
  <2> HIDE DEF mine
  <2>4. /\ Len(vectors') = n /\ vectors'[v] = vectors[v] \cup {NewId}
        /\ \A w \in 1..n : w # v => vectors'[w] = vectors[w]
        /\ vectors' \in Seq(SUBSET (Ids \cup {NewId}))
    <3>1. vectors \in Seq(SUBSET (Ids \cup {NewId}))
      BY <1>1, SeqMonotonic
    <3>2. vectors[v] \cup {NewId} \in SUBSET (Ids \cup {NewId})
      BY <1>1, <2>1, ElementOfSeq
    <3> QED BY <2>1, <2>3, <3>1, <3>2, ExceptSeq
  <2>5. /\ symbols' \in Seq(SymbolType(n)) /\ Len(symbols') = NewId
        /\ symbols'[NewId] = mine
        /\ \A id \in Ids : symbols'[id] = symbols[id]
    BY <1>1, <1>2, <2>2, <2>3 DEF Ids
  <2>6. Ids' = Ids \cup {NewId}
    BY <1>1, <1>2, <2>5 DEF Ids
  <2>7. Brothers(old) = vectors[v]
    BY <1>4, <2>1 DEF Brothers
  <2>8. \A id \in Ids : /\ KeyOf(id)' = KeyOf(id) /\ symbols'[id].kind = symbols[id].kind
                        /\ symbols'[id].brothers = IF id = old THEN v ELSE symbols[id].brothers
    BY <2>1, <2>5 DEF KeyOf
  <2>9. \A id \in {NewId} : KeyOf(id)' = <<new.path, new.name>>
    BY <2>2, <2>5 DEF KeyOf
  <2>10. /\ \A id \in Ids : SameDeclaration(symbols'[id], symbols[id])
         /\ SameDeclaration(symbols'[NewId], new)
    BY <2>2, <2>5 DEF SameDeclaration
  <2> QED BY <1>1, <1>2, <2>1, <2>2, <2>4, <2>5, <2>6, <2>7, <2>8, <2>9, <2>10
<1> QED BY <1>3, <1>4

\* The new symbol becomes the brother of one the table holds; one of the two
\* is flushed, or else the new one is left aside.
LEMMA BrotherInv ==
  ASSUME TableInv, NEW key, NEW new, Fresh(key, new), key \in DOMAIN symTable,
         NEW old \in Kept(symTable[key]), symbols[old].kind = new.kind,
         StoreAsBrother(old, new), errors' \in Nat, aborted' \in BOOLEAN,
         \/ UNCHANGED symTable /\ flushed_list' \in {flushed_list, flushed_list \cup {NewId}}
         \/ /\ flushed_list' = flushed_list \cup {old}
            /\ \E entry \in [pseudo : BOOLEAN, ids : Seq(Ids \cup {NewId})] :
                 /\ Put(key, entry) /\ entry.ids # << >>
                 /\ entry.pseudo => new.kind = "function"
                 /\ ~entry.pseudo => Len(entry.ids) = 1
                 /\ \A i, j \in 1..Len(entry.ids) : entry.ids[i] = entry.ids[j] => i = j
                 /\ Kept(entry) = (Kept(symTable[key]) \ {old}) \cup {NewId}
                 /\ entry.pseudo => symTable[key].pseudo
  PROVE  TableInv'
<1> DEFINE v == Vector(old)
<1>0. <<new.path, new.name>> = key /\ new \in SymbolType(0)
  BY DEF Fresh
<1>1. /\ \A k \in DOMAIN symTable : Kept(symTable[k]) \subseteq Ids
      /\ \A w \in 1..Len(vectors) : vectors[w] \subseteq Ids
      /\ flushed_list \subseteq Ids
      /\ Len(vectors) \in Nat /\ \A id \in Ids : symbols[id].brothers \in 0..Len(vectors)
  <2>1. \A k \in DOMAIN symTable : Kept(symTable[k]) \subseteq Ids
    BY DEF TableInv, TableTypeOK, Kept
  <2>2. \A id \in Ids : symbols[id] \in SymbolType(Len(vectors))
    BY ElementOfSeq DEF TableInv, TableTypeOK, Ids
  <2> QED BY <2>1, <2>2 DEF TableInv, TableTypeOK, SymbolType
<1>2. old \in Ids /\ KeyOf(old) = key
  BY <1>1 DEF TableInv, KeptOK
<1>p. v = Vector(old)
  OBVIOUS
<1> HIDE DEF v
<1>3. /\ symbols' \in Seq(SymbolType(Len(vectors')))
      /\ NewId \in Nat /\ NewId \notin Ids /\ Ids' = Ids \cup {NewId}
      /\ vectors' \in Seq(SUBSET Ids')
      /\ v \in 1..Len(vectors') /\ vectors'[v] = Brothers(old) \cup {NewId}
      /\ \A w \in 1..Len(vectors') : w # v =>
           w \in 1..Len(vectors) /\ vectors'[w] = vectors[w]
      /\ 1..Len(vectors) \subseteq 1..Len(vectors')
      /\ \A id \in Ids : KeyOf(id)' = KeyOf(id) /\ symbols'[id].kind = symbols[id].kind
      /\ \A id \in {NewId} : KeyOf(id)' = key
      /\ symbols'[NewId].kind = new.kind /\ symbols'[NewId].brothers = v
      /\ \A id \in Ids : symbols'[id].brothers = IF id = old THEN v ELSE symbols[id].brothers
  <2>1. TableTypeOK
    BY DEF TableInv
  <2>2. \A id \in {NewId} : KeyOf(id)' = <<new.path, new.name>>
    BY <1>0, <1>2, <1>p, <2>1, StoreAsBrotherEffect
  <2>3. /\ symbols' \in Seq(SymbolType(Len(vectors')))
        /\ NewId \in Nat /\ NewId \notin Ids /\ Ids' = Ids \cup {NewId}
        /\ vectors' \in Seq(SUBSET Ids')
    BY <1>0, <1>2, <1>p, <2>1, StoreAsBrotherEffect
  <2>4. /\ v \in 1..Len(vectors') /\ vectors'[v] = Brothers(old) \cup {NewId}
        /\ \A w \in 1..Len(vectors') : w # v =>
             w \in 1..Len(vectors) /\ vectors'[w] = vectors[w]
        /\ 1..Len(vectors) \subseteq 1..Len(vectors')
    BY <1>0, <1>2, <1>p, <2>1, StoreAsBrotherEffect
  <2>5. /\ \A id \in Ids : KeyOf(id)' = KeyOf(id) /\ symbols'[id].kind = symbols[id].kind
        /\ symbols'[NewId].kind = new.kind /\ symbols'[NewId].brothers = v
    BY <1>0, <1>2, <1>p, <2>1, StoreAsBrotherEffect
  <2>6. \A id \in Ids : symbols'[id].brothers = IF id = old THEN v ELSE symbols[id].brothers
    BY <1>0, <1>2, <1>p, <2>1, StoreAsBrotherEffect
  <2> QED BY <1>0, <2>2, <2>3, <2>4, <2>5, <2>6
<1>4. /\ \A id \in Brothers(old) : /\ id \in Ids /\ KeyOf(id) = key
                                   /\ symbols[id].kind = new.kind
                                   /\ symbols'[id].brothers = v
      /\ old \in Brothers(old)
  <2>1. symbols[old].kind = new.kind /\ symbols'[old].brothers = v
    BY <1>2, <1>3
  <2>2. CASE symbols[old].brothers = 0
    BY <1>2, <2>1, <2>2 DEF Brothers
  <2>3. CASE symbols[old].brothers # 0
    <3>1. v = symbols[old].brothers /\ v \in 1..Len(vectors) /\ Brothers(old) = vectors[v]
      BY <1>1, <1>2, <1>p, <2>3 DEF Brothers, Vector
    <3>2. old \in vectors[v] /\ vectors[v] \subseteq Ids
      BY <1>1, <1>2, <2>3, <3>1 DEF TableInv, VectorsOK
    <3>3. \A id \in vectors[v] : /\ symbols[id].brothers = v /\ KeyOf(id) = KeyOf(old)
                                 /\ symbols[id].kind = symbols[old].kind
      BY <3>1, <3>2 DEF TableInv, VectorsOK
    <3> QED BY <1>2, <1>3, <2>1, <3>1, <3>2, <3>3
  <2> QED BY <2>2, <2>3
<1>5. /\ v # 0
      /\ \A w \in 1..Len(vectors) : w # v => old \notin vectors[w]
  <2>1. v # 0
    BY <1>3
  <2>2. ASSUME NEW w \in 1..Len(vectors), w # v, old \in vectors[w]
        PROVE  FALSE
    <3>1. symbols[old].brothers = w
      BY <2>2 DEF TableInv, VectorsOK
    <3> QED BY <1>1, <1>p, <2>2, <3>1 DEF Vector
  <2> QED BY <2>1, <2>2
<1>6. Kept(symTable[key]) \cap Brothers(old) = {old}
  <2>1. CASE symbols[old].brothers = 0
    BY <2>1 DEF Brothers
  <2>2. CASE symbols[old].brothers # 0
    <3>1. v \in 1..Len(vectors) /\ Brothers(old) = vectors[v]
      BY <1>1, <1>2, <2>2 DEF v, Vector, Brothers
    <3>2. PICK k \in vectors[v] : Kept(symTable[KeyOf(k)]) \cap vectors[v] = {k}
      BY <3>1 DEF TableInv, OneKept
    <3>3. KeyOf(k) = key
      BY <1>4, <3>1
    <3> QED BY <1>4, <3>1, <3>2, <3>3
  <2> QED BY <2>1, <2>2
<1>7. VectorsOK'
  <2>1. \A id \in Ids' : symbols'[id].brothers # 0 => id \in vectors'[symbols'[id].brothers]
    <3>1. SUFFICES ASSUME NEW id \in Ids, symbols'[id].brothers # 0
                   PROVE  id \in vectors'[symbols'[id].brothers]
      BY <1>3
    <3>2. CASE id = old
      BY <1>3, <1>4, <3>2
    <3>3. CASE id # old
      <4>1. symbols'[id].brothers = symbols[id].brothers /\ symbols[id].brothers \in 1..Len(vectors)
        BY <1>1, <1>3, <3>1, <3>3
      <4>2. id \in vectors[symbols[id].brothers]
        BY <3>1, <4>1 DEF TableInv, VectorsOK
      <4>3. CASE symbols[id].brothers = v
        <5>1. symbols[old].brothers = v /\ v # 0
          BY <1>1, <1>2, <4>1, <4>3 DEF v, Vector
        <5> QED BY <1>3, <4>1, <4>2, <4>3, <5>1 DEF Brothers
      <4>4. CASE symbols[id].brothers # v
        BY <1>3, <4>1, <4>2, <4>4
      <4> QED BY <4>3, <4>4
    <3> QED BY <3>2, <3>3
  <2>2. \A w \in 1..Len(vectors') : \A id \in vectors'[w] : symbols'[id].brothers = w
    <3>1. SUFFICES ASSUME NEW w \in 1..Len(vectors'), NEW id \in vectors'[w]
                   PROVE  symbols'[id].brothers = w
      OBVIOUS
    <3>2. CASE w = v
      BY <1>3, <1>4, <3>2
    <3>3. CASE w # v
      <4>1. w \in 1..Len(vectors) /\ id \in vectors[w] /\ id # old /\ id \in Ids
        BY <1>1, <1>3, <1>5, <3>3
      <4> QED BY <1>3, <4>1 DEF TableInv, VectorsOK
    <3> QED BY <3>2, <3>3
  <2>3. \A w \in 1..Len(vectors') : \A c, d \in vectors'[w] :
          KeyOf(c)' = KeyOf(d)' /\ symbols'[c].kind = symbols'[d].kind
    <3>1. SUFFICES ASSUME NEW w \in 1..Len(vectors'), NEW c \in vectors'[w], NEW d \in vectors'[w]
                   PROVE  KeyOf(c)' = KeyOf(d)' /\ symbols'[c].kind = symbols'[d].kind
      OBVIOUS
    <3>2. CASE w = v
      BY <1>3, <1>4, <3>2
    <3>3. CASE w # v
      BY <1>1, <1>3, <3>3 DEF TableInv, VectorsOK
    <3> QED BY <3>2, <3>3
  <2> QED BY <2>1, <2>2, <2>3 DEF v, VectorsOK
\* The vectors keep one symbol in the table each, if the one at hand does.
<1>8. ASSUME NEW k \in Brothers(old) \cup {NewId},
             DOMAIN symTable' = DOMAIN symTable,
             \A q \in DOMAIN symTable : q # key => symTable'[q] = symTable[q],
             Kept(symTable'[key]) \cap vectors'[v] = {k},
             \A id \in Ids : id # old => (id \in Kept(symTable'[key]) <=> id \in Kept(symTable[key]))
      PROVE  OneKept'
  <2>1. SUFFICES ASSUME NEW w \in 1..Len(vectors')
                 PROVE  \E m \in vectors'[w] :
                          /\ KeyOf(m)' \in DOMAIN symTable'
                          /\ Kept(symTable'[KeyOf(m)']) \cap vectors'[w] = {m}
    BY DEF OneKept, Kept
  <2>2. CASE w = v
    <3>1. k \in vectors'[w] /\ KeyOf(k)' = key
      BY <1>3, <1>4, <1>8, <2>2
    <3> QED BY <1>8, <2>2, <3>1
  <2>3. CASE w # v
    <3>1. w \in 1..Len(vectors) /\ vectors'[w] = vectors[w]
      BY <1>3, <2>3
    <3>2. PICK m \in vectors[w] : /\ KeyOf(m) \in DOMAIN symTable
                                  /\ Kept(symTable[KeyOf(m)]) \cap vectors[w] = {m}
      BY <3>1 DEF TableInv, OneKept
    <3>3. m \in Ids /\ KeyOf(m)' = KeyOf(m) /\ old \notin vectors[w] /\ vectors[w] \subseteq Ids
      BY <1>1, <1>3, <1>5, <2>3, <3>1
    <3>4. Kept(symTable'[KeyOf(m)]) \cap vectors[w] = {m}
      BY <1>8, <3>2, <3>3
    <3> QED BY <1>8, <3>1, <3>2, <3>3, <3>4
  <2> QED BY <2>2, <2>3
<1>9. CASE UNCHANGED symTable /\ flushed_list' \in {flushed_list, flushed_list \cup {NewId}}
  <2>1. TableTypeOK'
    <3>1. \A k \in DOMAIN symTable : symTable[k].ids \in Seq(Ids')
      BY <1>3, SeqMonotonic DEF TableInv, TableTypeOK
    <3> QED BY <1>3, <1>9, <3>1 DEF TableInv, TableTypeOK
  <2>2. KeptOK'
    <3>1. \A k \in DOMAIN symTable : \A id \in Kept(symTable[k]) :
            id \in Ids /\ KeyOf(id)' = k /\ symbols'[id].kind = symbols[id].kind
      BY <1>1, <1>3 DEF TableInv, KeptOK
    <3>2. symTable' = symTable
      BY <1>9
    <3> QED BY <3>1, <3>2 DEF TableInv, KeptOK
  <2>3. OneKept'
    <3>1. Kept(symTable[key]) \cap vectors'[v] = {old}
      BY <1>1, <1>3, <1>6
    <3> QED BY <1>4, <1>8, <1>9, <3>1
  <2>4. FlushedOK'
    <3>1. SUFFICES ASSUME NEW id \in flushed_list'
                   PROVE  /\ symbols'[id].brothers # 0
                          /\ KeyOf(id)' \in DOMAIN symTable => id \notin Kept(symTable[KeyOf(id)'])
      BY <1>9 DEF FlushedOK, Kept
    <3>2. CASE id \in flushed_list
      BY <1>1, <1>3, <1>5, <3>2 DEF TableInv, FlushedOK
    <3>3. CASE id = NewId
      BY <1>1, <1>3, <1>5, <3>3
    <3> QED BY <1>9, <3>2, <3>3
  <2> QED BY <1>7, <2>1, <2>2, <2>3, <2>4 DEF TableInv
<1>10. ASSUME flushed_list' = flushed_list \cup {old},
              NEW entry \in [pseudo : BOOLEAN, ids : Seq(Ids \cup {NewId})],
              Put(key, entry), entry.ids # << >>, entry.pseudo => new.kind = "function",
              ~entry.pseudo => Len(entry.ids) = 1,
              \A i, j \in 1..Len(entry.ids) : entry.ids[i] = entry.ids[j] => i = j,
              Kept(entry) = (Kept(symTable[key]) \ {old}) \cup {NewId},
              entry.pseudo => symTable[key].pseudo
       PROVE  TableInv'
  <2>0. /\ DOMAIN symTable' = DOMAIN symTable /\ symTable'[key] = entry
        /\ \A k \in DOMAIN symTable : k # key => symTable'[k] = symTable[k]
    <3>1. Put(key, entry)
      BY <1>10
    <3>2. symTable' = [k \in DOMAIN symTable |-> IF k = key THEN entry ELSE symTable[k]]
      <4>1. DOMAIN symTable \cup {key} = DOMAIN symTable
        OBVIOUS
      <4> QED BY <3>1, <4>1 DEF Put
    <3> QED BY <3>2
  <2>1. TableTypeOK'
    <3>1. \A k \in DOMAIN symTable : /\ symTable[k].ids \in Seq(Ids')
                                      /\ symTable[k] \in [pseudo : BOOLEAN, ids : Seq(Ids')]
      BY <1>3, SeqMonotonic DEF TableInv, TableTypeOK
    <3>2. \A k \in DOMAIN symTable' : /\ symTable'[k] \in [pseudo : BOOLEAN, ids : Seq(Ids')]
                                       /\ symTable'[k].ids # << >>
      BY <1>3, <1>10, <2>0, <3>1 DEF TableInv, TableTypeOK
    <3> QED BY <1>1, <1>2, <1>3, <1>10, <3>2 DEF TableInv, TableTypeOK
  <2>2. KeptOK'
    <3>1. SUFFICES ASSUME NEW k \in DOMAIN symTable'
                   PROVE  /\ \A id \in Kept(symTable'[k]) : KeyOf(id)' = k
                          /\ \A i, j \in 1..Len(symTable'[k].ids) :
                               symTable'[k].ids[i] = symTable'[k].ids[j] => i = j
                          /\ symTable'[k].pseudo =>
                               \A id \in Kept(symTable'[k]) : symbols'[id].kind = "function"
                          /\ ~symTable'[k].pseudo => Len(symTable'[k].ids) = 1
      BY DEF KeptOK, Kept
    <3>2. CASE k = key
      <4>1. symTable'[k] = entry
        BY <2>0, <3>2
      <4>2. \A id \in Kept(symTable[key]) : KeyOf(id) = key /\ id \in Ids
        BY <1>1 DEF TableInv, KeptOK
      <4>3. \A id \in Kept(entry) : KeyOf(id)' = k
        BY <1>3, <1>10, <3>2, <4>2
      <4>4. ASSUME entry.pseudo, NEW id \in Kept(entry)
            PROVE  symbols'[id].kind = "function"
        <5>1. CASE id = NewId
          BY <1>3, <1>10, <4>4, <5>1
        <5>2. CASE id \in Kept(symTable[key])
          <6>1. symbols[id].kind = "function"
            BY <1>10, <4>4, <5>2 DEF TableInv, KeptOK
          <6> QED BY <1>3, <4>2, <5>2, <6>1
        <5> QED BY <1>10, <4>4, <5>1, <5>2
      <4> QED BY <1>10, <4>1, <4>3, <4>4
    <3>3. CASE k # key
      <4>1. k \in DOMAIN symTable /\ symTable'[k] = symTable[k]
        BY <2>0, <3>3
      <4>2. /\ \A id \in Kept(symTable[k]) : id \in Ids /\ KeyOf(id) = k
            /\ symTable[k].pseudo => \A id \in Kept(symTable[k]) : symbols[id].kind = "function"
            /\ \A i, j \in 1..Len(symTable[k].ids) :
                 symTable[k].ids[i] = symTable[k].ids[j] => i = j
            /\ ~symTable[k].pseudo => Len(symTable[k].ids) = 1
        BY <1>1, <4>1 DEF TableInv, KeptOK
      <4> QED BY <1>3, <4>1, <4>2
    <3> QED BY <3>2, <3>3
  <2>3. OneKept'
    <3>1. Kept(entry) \cap vectors'[v] = {NewId}
      BY <1>1, <1>3, <1>6, <1>10
    <3> QED BY <1>1, <1>3, <1>8, <1>10, <2>0, <3>1
  <2>4. FlushedOK'
    <3>1. SUFFICES ASSUME NEW id \in flushed_list'
                   PROVE  /\ symbols'[id].brothers # 0
                          /\ KeyOf(id)' \in DOMAIN symTable' => id \notin Kept(symTable'[KeyOf(id)'])
      BY DEF FlushedOK, Kept
    <3>2. id \in Ids /\ id # NewId /\ KeyOf(id)' = KeyOf(id)
      BY <1>1, <1>2, <1>3, <1>10
    <3>3. CASE id \in flushed_list /\ id # old
      <4>1. /\ symbols[id].brothers # 0
            /\ KeyOf(id) \in DOMAIN symTable => id \notin Kept(symTable[KeyOf(id)])
        BY <3>3 DEF TableInv, FlushedOK
      <4>2. KeyOf(id) = key => id \notin Kept(symTable'[key])
        BY <1>10, <2>0, <3>2, <4>1
      <4> QED BY <1>3, <2>0, <3>2, <3>3, <4>1, <4>2
    <3>4. CASE id = old
      BY <1>2, <1>3, <1>5, <1>10, <2>0, <3>2, <3>4
    <3> QED BY <1>10, <3>3, <3>4
  <2> QED BY <1>7, <2>1, <2>2, <2>3, <2>4 DEF TableInv
<1> QED BY <1>9, <1>10

\* Neither an error nor a step elsewhere disturbs the table.
LEMMA UntouchedInv ==
  ASSUME TableInv, UNCHANGED <<symTable, symbols, vectors, flushed_list>>,
         errors' \in Nat, aborted' \in BOOLEAN
  PROVE  TableInv'
<1>1. Ids' = Ids /\ \A id : KeyOf(id)' = KeyOf(id)
  BY DEF Ids, KeyOf
<1>2. TableTypeOK'
  BY <1>1 DEF TableInv, TableTypeOK
<1>3. KeptOK' /\ OneKept' /\ FlushedOK'
  BY <1>1 DEF TableInv, KeptOK, OneKept, FlushedOK, Kept
<1>4. VectorsOK'
  BY <1>1 DEF TableInv, VectorsOK
<1> QED BY <1>2, <1>3, <1>4 DEF TableInv

LEMMA EffectInv ==
  ASSUME TableInv, NEW key, NEW new, Fresh(key, new), Effect(key, new)
  PROVE  TableInv'
<1>1. CASE Stops
  BY <1>1, UntouchedInv DEF Stops
<1>2. CASE Refuses(new)
  BY <1>2, RefusedInv DEF Refuses
<1>3. CASE Enters(key, new)
  <2>1. PICK entry :
          /\ WellFormed(entry, new) /\ Put(key, entry)
          /\ \/ key \notin DOMAIN symTable /\ Kept(entry) = {NewId}
             \/ /\ key \in DOMAIN symTable /\ symTable[key].pseudo
                /\ Kept(entry) = Kept(symTable[key]) \cup {NewId}
    BY <1>3 DEF Enters
  <2> QED BY <1>3, <2>1, EnteredInv DEF Enters, WellFormed, Distinct
<1>4. CASE Joins(key, new)
  <2>1. PICK old \in Kept(symTable[key]) :
          /\ symbols[old].kind = new.kind
          /\ StoreAsBrother(old, new)
          /\ StaysAside(old, new) \/ TakesPlace(key, old, new)
    BY <1>4 DEF Joins
  <2>2. CASE StaysAside(old, new)
    BY <1>4, <2>1, <2>2, BrotherInv DEF Joins, StaysAside
  <2>3. CASE TakesPlace(key, old, new)
    <3>1. PICK entry :
            /\ WellFormed(entry, new) /\ Put(key, entry)
            /\ Kept(entry) = (Kept(symTable[key]) \ {old}) \cup {NewId}
            /\ entry.pseudo => symTable[key].pseudo
      BY <2>3 DEF TakesPlace
    <3>2. flushed_list' = flushed_list \cup {old}
      BY <2>3 DEF TakesPlace
    <3> QED BY <1>4, <2>1, <3>1, <3>2, BrotherInv DEF Joins, WellFormed, Distinct
  <2> QED BY <2>1, <2>2, <2>3
<1> QED BY <1>1, <1>2, <1>3, <1>4 DEF Effect

-----------------------------------------------------------------------------
(* The operations on the table.                                             *)

LEMMA ErrorTypes ==
  ASSUME TableInv
  PROVE  /\ NoError => errors' \in Nat /\ aborted' \in BOOLEAN /\ errors' = errors
         /\ RaiseError \/ FatalError =>
              errors' \in Nat /\ errors' # 0 /\ aborted' \in BOOLEAN
<1>1. errors \in Nat /\ aborted \in BOOLEAN /\ MaxErrors \in Nat
  BY SymbolTableAssumption DEF TableInv, TableTypeOK
<1>2. (errors + 1 >= MaxErrors) \in BOOLEAN
  BY <1>1
<1>3. errors + 1 \in Nat /\ errors + 1 # 0
  BY <1>1
<1>4. RaiseError => errors' \in Nat /\ errors' # 0 /\ aborted' \in BOOLEAN
  BY <1>2, <1>3 DEF RaiseError
<1> QED BY <1>1, <1>3, <1>4 DEF NoError, FatalError

\* An entry of one symbol.
LEMMA SingleEntry ==
  ASSUME NEW S, NEW id \in S, NEW entry, entry = Entry(id) \/ entry = PseudoEntry(<<id>>)
  PROVE  /\ entry \in [pseudo : BOOLEAN, ids : Seq(S)] /\ entry.ids # << >>
         /\ Len(entry.ids) = 1 /\ entry.ids[1] = id /\ Kept(entry) = {id}
         /\ \A i, j \in 1..Len(entry.ids) : entry.ids[i] = entry.ids[j] => i = j
<1>1. entry.ids = <<id>> /\ entry \in [pseudo : BOOLEAN, ids : Seq(S)]
  <2>1. <<id>> \in Seq(S)
    OBVIOUS
  <2>2. CASE entry = Entry(id)
    BY <2>1, <2>2 DEF Entry
  <2>3. CASE entry = PseudoEntry(<<id>>)
    BY <2>1, <2>3 DEF PseudoEntry
  <2> QED BY <2>2, <2>3
<1>2. entry.ids # << >> /\ Len(entry.ids) = 1 /\ entry.ids[1] = id
  BY <1>1
<1> QED BY <1>1, <1>2 DEF Kept

\* What the table holds under a key.
LEMMA Held ==
  ASSUME TableInv, NEW key \in DOMAIN symTable
  PROVE  /\ symTable[key] \in [pseudo : BOOLEAN, ids : Seq(Ids)]
         /\ Len(symTable[key].ids) \in Nat \ {0}
         /\ \A i \in 1..Len(symTable[key].ids) :
              symTable[key].ids[i] \in Kept(symTable[key]) \cap Ids
         /\ ~symTable[key].pseudo => Kept(symTable[key]) = {symTable[key].ids[1]}
<1>1. symTable[key] \in [pseudo : BOOLEAN, ids : Seq(Ids)] /\ symTable[key].ids # << >>
  BY DEF TableInv, TableTypeOK
<1>2. Len(symTable[key].ids) \in Nat \ {0}
  BY <1>1, EmptySeq
<1>3. ~symTable[key].pseudo => Len(symTable[key].ids) = 1
  BY DEF TableInv, KeptOK
<1> QED BY <1>1, <1>2, <1>3 DEF Kept

LEMMA RefuseEffect ==
  ASSUME TableInv, NEW key, NEW new, Refuse(new)
  PROVE  Effect(key, new)
BY ErrorTypes DEF Refuse, Refuses, Alone, Effect

LEMMA FatalEffect ==
  ASSUME TableInv, NEW key, NEW new, FatalError
  PROVE  Effect(key, new)
BY ErrorTypes DEF FatalError, Stops, Effect

LEMMA AddFirstEffect ==
  ASSUME TableInv, NEW key, NEW new, key \notin DOMAIN symTable,
         NEW entry, entry = Entry(NewId) \/ entry = PseudoEntry(<<NewId>>), AddFirst(key, new, entry),
         entry.pseudo => new.kind = "function"
  PROVE  Effect(key, new)
<1>1. /\ Alone(new) /\ Put(key, entry) /\ UNCHANGED flushed_list
      /\ errors' = 0 => errors = 0
  BY ErrorTypes DEF AddFirst, Alone
<1>2. WellFormed(entry, new) /\ Kept(entry) = {NewId}
  <2>1. NewId \in Ids \cup {NewId}
    OBVIOUS
  <2> QED BY <2>1, SingleEntry DEF WellFormed, Distinct
<1> QED BY <1>1, <1>2 DEF Enters, Effect

\* The new symbol takes the place of the only one the table holds.
LEMMA ReplacedEffect ==
  ASSUME TableInv, NEW key, NEW new, key \in DOMAIN symTable,
         ~symTable[key].pseudo, NEW old, old = symTable[key].ids[1],
         symbols[old].kind = new.kind,
         new.kind = "function" => new.isDefinition /\ (symbols[old].builtin => new.builtin),
         StoreAsBrother(old, new), errors' \in Nat, aborted' \in BOOLEAN,
         errors' = 0 => errors = 0,
         Put(key, Entry(NewId)), Flush(old)
  PROVE  Effect(key, new)
<1> DEFINE entry == Entry(NewId)
<1>1. old \in Kept(symTable[key]) /\ Kept(symTable[key]) = {old}
  BY Held
<1>p. ~entry.pseudo
  BY DEF Entry
<1>2. WellFormed(entry, new) /\ Kept(entry) = {NewId}
  <2>1. NewId \in Ids \cup {NewId} /\ entry = Entry(NewId)
    OBVIOUS
  <2>2. /\ entry \in [pseudo : BOOLEAN, ids : Seq(Ids \cup {NewId})] /\ entry.ids # << >>
        /\ Len(entry.ids) = 1 /\ Kept(entry) = {NewId}
        /\ \A i, j \in 1..Len(entry.ids) : entry.ids[i] = entry.ids[j] => i = j
    BY <2>1, SingleEntry
  <2> HIDE DEF entry
  <2> QED BY <1>p, <2>2 DEF WellFormed, Distinct
<1>3. Put(key, entry) /\ flushed_list' = flushed_list \cup {old}
  BY DEF Flush
<1> HIDE DEF entry
<1>4. Kept(entry) = (Kept(symTable[key]) \ {old}) \cup {NewId}
  BY <1>1, <1>2
<1>5. TakesPlace(key, old, new)
  BY <1>2, <1>3, <1>4, <1>p DEF TakesPlace
<1> QED BY <1>1, <1>5 DEF Joins, Effect

LEMMA ObjectEffect ==
  ASSUME TableInv, NEW new, Fresh(Scoped(new.name), new), new.kind = "object",
         addObjectLabel(new)
  PROVE  Effect(Scoped(new.name), new)
<1> DEFINE key == Scoped(new.name)
           old == symTable[key].ids[1]
<1>1. CASE key \notin DOMAIN symTable
  BY <1>1, AddFirstEffect DEF addObjectLabel, Entry
<1>2. CASE key \in DOMAIN symTable /\ Refuse(new)
  BY <1>2, RefuseEffect
<1>3. CASE /\ key \in DOMAIN symTable
           /\ ~ObjectRefused(symbols[old], new)
           /\ IF ObjectReplaces(symbols[old], new)
              THEN Put(key, Entry(NewId)) /\ Flush(old)
              ELSE Flush(NewId) /\ UNCHANGED symTable
           /\ StoreAsBrother(old, new)
           /\ NoError
  <2>1. /\ old \in Kept(symTable[key]) /\ symbols[old].kind = new.kind
        /\ errors' \in Nat /\ aborted' \in BOOLEAN /\ errors' = errors
        /\ new.kind # "function" /\ ~new.isDefinition
    BY <1>3, Held, ErrorTypes DEF ObjectRefused, Fresh
  <2>2. ~symTable[key].pseudo
    BY <1>3, <2>1 DEF TableInv, KeptOK
  <2> HIDE DEF key, old
  <2>3. CASE Flush(NewId) /\ UNCHANGED symTable
    BY <1>3, <2>1, <2>3 DEF Flush, StaysAside, Joins, Effect, key
  <2>4. CASE Put(key, Entry(NewId)) /\ Flush(old)
    BY <1>3, <2>1, <2>2, <2>4, ReplacedEffect DEF key, old
  <2> QED BY <1>3, <2>3, <2>4
<1> QED BY <1>1, <1>2, <1>3 DEF addObjectLabel

LEMMA UniqueEffect ==
  ASSUME TableInv, NEW new, addUnique(new)
  PROVE  Effect(Scoped(new.name), new)
BY RefuseEffect, AddFirstEffect DEF addUnique, Entry

-----------------------------------------------------------------------------
(* addFunction.                                                             *)

\* A nonempty set of numbers has a least one.
LEMMA LeastElement ==
  ASSUME NEW n \in Nat, NEW M \in SUBSET (1..n), M # {}
  PROVE  \E i \in M : \A j \in M : i <= j
<1> DEFINE R == StrictSubsetOrdering(1..n)
           T == {1..i : i \in M}
<1>1. IsFiniteSet(1..n)
  BY FS_Interval
<1>2. IsWellFoundedOn(R, SUBSET (1..n))
  BY <1>1, FS_StrictSubsetOrderingWellFounded, FS_FiniteSubsetsOfFinite
<1>3. T \subseteq SUBSET (1..n) /\ T # {}
  <2>1. \A i \in M : 1..i \subseteq 1..n
    OBVIOUS
  <2> QED BY <2>1
<1>4. PICK x \in T : \A y \in T : ~ (<<y, x>> \in R)
  <2> HIDE DEF R, T
  <2> QED BY <1>2, <1>3, WFMin
<1>5. PICK i \in M : x = 1..i
  OBVIOUS
<1>6. ASSUME NEW j \in M, j < i PROVE FALSE
  <2>1. 1..j \subseteq 1..i /\ i \in 1..i /\ i \notin 1..j
    BY <1>6
  <2>2. <<1..j, 1..i>> \in R
    BY <2>1, <1>3, <1>5 DEF StrictSubsetOrdering
  <2> QED BY <1>4, <1>5, <2>2
<1> QED BY <1>6

\* The overload found is one the new declaration is equivalent to, and there
\* is one if it is found.
LEMMA OverloadIndex ==
  ASSUME TableInv, NEW key \in DOMAIN symTable, NEW new,
         NEW i, i = EquivalentOverload(symTable[key].ids, new)
  PROVE  /\ i \in 0..Len(symTable[key].ids)
         /\ i # 0 => EquivalentFunctions(symbols[symTable[key].ids[i]], new)
         /\ i = 0 => \A id \in Kept(symTable[key]) : ~EquivalentFunctions(symbols[id], new)
<1> DEFINE ids == symTable[key].ids
           matching == {j \in 1..Len(ids) : EquivalentFunctions(symbols[ids[j]], new)}
<1>1. Len(ids) \in Nat
  BY Held
<1>2. CASE matching = {}
  BY <1>1, <1>2 DEF EquivalentOverload, Kept
<1>3. CASE matching # {}
  <2>1. \E j \in matching : \A k \in matching : j <= k
    <3>1. matching \in SUBSET (1..Len(ids))
      OBVIOUS
    <3> HIDE DEF matching, ids
    <3> QED BY <1>1, <1>3, <3>1, LeastElement
  <2>2. i \in matching
    BY <1>3, <2>1 DEF EquivalentOverload
  <2>3. i # 0
    BY <1>1, <2>2
  <2> QED BY <1>1, <2>2, <2>3
<1> QED BY <1>2, <1>3

\* Appending the new symbol to a list of others.
LEMMA AppendedList ==
  ASSUME NEW S, NEW ids \in Seq(S), NEW id, id \notin S, Distinct(ids)
  PROVE  /\ Append(ids, id) \in Seq(S \cup {id}) /\ Append(ids, id) # << >>
         /\ Elements(Append(ids, id)) = Elements(ids) \cup {id}
         /\ Distinct(Append(ids, id))
<1>1. Len(ids) \in Nat /\ \A i \in 1..Len(ids) : ids[i] \in S
  BY LenProperties, ElementOfSeq
<1>2. /\ Append(ids, id) \in Seq(S \cup {id}) /\ Len(Append(ids, id)) = Len(ids) + 1
      /\ \A i \in 1..Len(ids) : Append(ids, id)[i] = ids[i]
      /\ Append(ids, id)[Len(ids) + 1] = id
  <2>1. ids \in Seq(S \cup {id})
    BY SeqMonotonic
  <2> QED BY <2>1, AppendProperties
<1>3. Append(ids, id) # << >>
  <2>1. Len(Append(ids, id)) # 0
    BY <1>1, <1>2
  <2> QED BY <2>1, EmptySeq
<1>4. Elements(Append(ids, id)) = Elements(ids) \cup {id}
  <2>1. 1..Len(Append(ids, id)) = 1..Len(ids) \cup {Len(ids) + 1}
    BY <1>1, <1>2
  <2>2. Elements(Append(ids, id)) = {Append(ids, id)[i] : i \in 1..Len(ids) \cup {Len(ids) + 1}}
    BY <2>1 DEF Elements
  <2>3. Elements(ids) = {Append(ids, id)[i] : i \in 1..Len(ids)}
    BY <1>2 DEF Elements
  <2> QED BY <1>2, <2>2, <2>3
<1>5. Distinct(Append(ids, id))
  BY <1>1, <1>2 DEF Distinct
<1> QED BY <1>2, <1>3, <1>4, <1>5

LEMMA PseudoEntryOf ==
  ASSUME NEW S, NEW ids \in Seq(S)
  PROVE  /\ PseudoEntry(ids) \in [pseudo : BOOLEAN, ids : Seq(S)]
         /\ PseudoEntry(ids).pseudo /\ PseudoEntry(ids).ids = ids
         /\ Kept(PseudoEntry(ids)) = Elements(ids)
BY DEF PseudoEntry, Kept, Elements

LEMMA ResolveFunctionEffect ==
  ASSUME TableInv, NEW key, NEW new, key \in DOMAIN symTable,
         ~symTable[key].pseudo, NEW old, old = symTable[key].ids[1],
         symbols[old].kind = new.kind,
         ResolveFunction(key, old, new, FALSE)
  PROVE  Effect(key, new)
<1>1. old \in Kept(symTable[key])
  BY Held
<1>2. CASE FatalError
  BY <1>2, FatalEffect
<1>3. CASE /\ ~RedefinesBuiltin(symbols[old], new) \/ symbols[old].isDefinition
           /\ StoreAsBrother(old, new)
           /\ RaiseError \/ NoError
           /\ symbols[old].isDefinition /\ new.isDefinition => RaiseError
           /\ \/ Flush(NewId) /\ UNCHANGED symTable /\ ~new.isDefinition
              \/ /\ Flush(old) /\ Put(key, Entry(NewId))
                 /\ ~symbols[old].isDefinition /\ new.isDefinition
              \/ /\ UNCHANGED <<symTable, flushed_list>>
                 /\ symbols[old].isDefinition /\ new.isDefinition
  <2>1. errors' \in Nat /\ aborted' \in BOOLEAN /\ (errors' = 0 => errors = 0)
    BY <1>3, ErrorTypes
  <2>2. CASE StaysAside(old, new)
    BY <1>1, <1>3, <2>1, <2>2 DEF Joins, Effect
  <2>3. CASE /\ Flush(old) /\ Put(key, Entry(NewId))
             /\ ~symbols[old].isDefinition /\ new.isDefinition
    BY <1>3, <2>1, <2>3, ReplacedEffect DEF RedefinesBuiltin
  <2> QED BY <1>3, <2>2, <2>3, ErrorTypes DEF Flush, StaysAside
<1> QED BY <1>2, <1>3 DEF ResolveFunction, DefinesPrototype

LEMMA AddOverloadEffect ==
  ASSUME TableInv, NEW key, NEW new, key \in DOMAIN symTable,
         symTable[key].pseudo, new.kind = "function",
         \A id \in Kept(symTable[key]) : ~EquivalentFunctions(symbols[id], new),
         AddOverload(key, symTable[key].ids, new)
  PROVE  Effect(key, new)
<1> DEFINE entry == PseudoEntry(Append(symTable[key].ids, NewId))
<1>1. /\ symTable[key].ids \in Seq(Ids) /\ NewId \notin Ids
      /\ Distinct(symTable[key].ids)
  BY Held DEF TableInv, TableTypeOK, KeptOK, Ids, NewId, Distinct
<1>2. /\ entry \in [pseudo : BOOLEAN, ids : Seq(Ids \cup {NewId})] /\ entry.ids # << >>
      /\ entry.pseudo /\ Kept(entry) = Kept(symTable[key]) \cup {NewId}
      /\ Distinct(entry.ids)
  <2>1. Kept(symTable[key]) = Elements(symTable[key].ids)
    BY DEF Kept, Elements
  <2> DEFINE list == Append(symTable[key].ids, NewId)
  <2>2. /\ list \in Seq(Ids \cup {NewId}) /\ list # << >> /\ Distinct(list)
        /\ Elements(list) = Elements(symTable[key].ids) \cup {NewId}
    BY <1>1, AppendedList
  <2>3. /\ entry \in [pseudo : BOOLEAN, ids : Seq(Ids \cup {NewId})] /\ entry.pseudo
        /\ entry.ids = list /\ Kept(entry) = Elements(list)
    <3> HIDE DEF list
    <3> QED BY <2>2, PseudoEntryOf DEF list
  <2> QED BY <2>1, <2>2, <2>3
<1>3. /\ Alone(new) /\ Put(key, entry) /\ UNCHANGED flushed_list
      /\ errors' = 0 => errors = 0
  BY ErrorTypes DEF AddOverload, MixingError, Alone
<1> HIDE DEF entry
<1> QED BY <1>2, <1>3 DEF WellFormed, Enters, Effect

\* The overload at hand leaves its list, the others stay.
LEMMA OthersOf ==
  ASSUME NEW S, NEW ids \in Seq(S), NEW i \in 1..Len(ids),
         Distinct(ids),
         NEW others, others = [j \in 1..(Len(ids) - 1) |-> IF j < i THEN ids[j] ELSE ids[j + 1]]
  PROVE  /\ others \in Seq(S)
         /\ Distinct(others)
         /\ Elements(others) = Elements(ids) \ {ids[i]}
<1>1. Len(ids) \in Nat /\ i \in 1..Len(ids) /\ \A j \in 1..Len(ids) : ids[j] \in S
  BY LenProperties, ElementOfSeq
<1>2. others \in [1..(Len(ids) - 1) -> S]
  BY <1>1
<1>3. others \in Seq(S) /\ Len(others) = Len(ids) - 1
  BY <1>1, <1>2
<1>4. /\ \A j \in 1..Len(others) : others[j] = ids[IF j < i THEN j ELSE j + 1]
      /\ \A j \in 1..Len(others) : (IF j < i THEN j ELSE j + 1) \in (1..Len(ids)) \ {i}
  BY <1>1, <1>3
<1>5. Distinct(others)
  BY <1>1, <1>3, <1>4 DEF Distinct
<1>6. ASSUME NEW j \in 1..Len(ids), j # i
      PROVE  \E k \in 1..Len(others) : others[k] = ids[j]
  <2>1. CASE j < i
    <3>1. j \in 1..Len(others)
      BY <1>1, <1>3, <2>1
    <3>2. others[j] = ids[j]
      BY <1>4, <2>1, <3>1
    <3> QED BY <3>1, <3>2
  <2>2. CASE j > i
    <3>1. j - 1 \in 1..Len(others) /\ ~(j - 1 < i) /\ (j - 1) + 1 = j
      BY <1>1, <1>3, <2>2
    <3>2. others[j - 1] = ids[j]
      BY <1>4, <3>1
    <3> QED BY <3>1, <3>2
  <2>3. j < i \/ j > i
    BY <1>1, <1>6
  <2> QED BY <2>1, <2>2, <2>3
<1>7. Elements(others) = Elements(ids) \ {ids[i]}
  <2>1. \A j \in 1..Len(others) : \E k \in (1..Len(ids)) \ {i} : others[j] = ids[k]
    BY <1>4
  <2>2. \A k \in (1..Len(ids)) \ {i} : ids[k] # ids[i]
    BY <1>1 DEF Distinct
  <2>3. ASSUME NEW x \in Elements(others)
        PROVE  x \in Elements(ids) \ {ids[i]}
    BY <2>1, <2>2, <2>3 DEF Elements
  <2>4. ASSUME NEW x \in Elements(ids) \ {ids[i]}
        PROVE  x \in Elements(others)
    <3>1. PICK k \in 1..Len(ids) : x = ids[k] /\ k # i
      BY <2>4 DEF Elements
    <3> QED BY <1>6, <3>1 DEF Elements
  <2> QED BY <2>3, <2>4
<1> QED BY <1>3, <1>5, <1>7

LEMMA ResolveOverloadEffect ==
  ASSUME TableInv, NEW key, NEW new, key \in DOMAIN symTable,
         symTable[key].pseudo, new.kind = "function",
         NEW i \in 1..Len(symTable[key].ids),
         EquivalentFunctions(symbols[symTable[key].ids[i]], new),
         ResolveOverload(key, symTable[key].ids, i, new, FALSE)
  PROVE  Effect(key, new)
<1> DEFINE ids == symTable[key].ids
           old == ids[i]
           others == [j \in 1..(Len(ids) - 1) |-> IF j < i THEN ids[j] ELSE ids[j + 1]]
           entry == PseudoEntry(Append(others, NewId))
<1>1. old \in Kept(symTable[key]) /\ symbols[old].kind = new.kind
  BY Held DEF TableInv, KeptOK
<1>2. CASE FatalError
  BY <1>2, FatalEffect
<1>3. CASE /\ ~RedefinesBuiltin(symbols[old], new)
           /\ StoreAsBrother(old, new)
           /\ errors' \in Nat /\ aborted' \in BOOLEAN /\ (errors' = 0 => errors = 0)
           /\ \/ Flush(NewId) /\ UNCHANGED symTable /\ ~new.isDefinition
              \/ /\ Flush(old) /\ Put(key, entry)
                 /\ ~symbols[old].isDefinition /\ new.isDefinition
              \/ /\ UNCHANGED <<symTable, flushed_list>>
                 /\ symbols[old].isDefinition /\ errors' # 0
  <2>1. CASE StaysAside(old, new)
    BY <1>1, <1>3, <2>1 DEF Joins, Effect
  <2>2. CASE Flush(old) /\ Put(key, entry) /\ new.isDefinition
    <3>1. /\ ids \in Seq(Ids) /\ NewId \notin Ids
          /\ Distinct(ids)
      <4>1. ids \in Seq(Ids)
        BY Held
      <4>2. NewId \notin Ids
        <5>1. Len(symbols) \in Nat
          BY LenProperties DEF TableInv, TableTypeOK
        <5> QED BY <5>1 DEF Ids, NewId
      <4>3. Distinct(ids)
        BY DEF TableInv, KeptOK, Distinct
      <4> QED BY <4>1, <4>2, <4>3
    <3>2. /\ others \in Seq(Ids)
          /\ Distinct(others)
          /\ Elements(others) = Kept(symTable[key]) \ {old}
      <4>1. Kept(symTable[key]) = Elements(ids)
        BY DEF Kept, Elements
      <4>2. others = [j \in 1..(Len(ids) - 1) |-> IF j < i THEN ids[j] ELSE ids[j + 1]]
        OBVIOUS
      <4>3. i \in 1..Len(ids) /\ ids \in Seq(Ids) /\ Distinct(ids)
        BY <3>1
      <4>4. old = ids[i]
        OBVIOUS
      <4> HIDE DEF others, ids, old
      <4>5. /\ others \in Seq(Ids) /\ Distinct(others)
            /\ Elements(others) = Elements(ids) \ {ids[i]}
        BY <4>2, <4>3, OthersOf
      <4> QED BY <4>1, <4>4, <4>5
    <3>3. /\ entry \in [pseudo : BOOLEAN, ids : Seq(Ids \cup {NewId})] /\ entry.ids # << >>
          /\ entry.pseudo /\ Kept(entry) = (Kept(symTable[key]) \ {old}) \cup {NewId}
          /\ Distinct(entry.ids)
      <4> HIDE DEF others, old
      <4> DEFINE list == Append(others, NewId)
      <4>1. /\ list \in Seq(Ids \cup {NewId}) /\ list # << >> /\ Distinct(list)
            /\ Elements(list) = Elements(others) \cup {NewId}
        BY <3>1, <3>2, AppendedList
      <4>2. /\ entry \in [pseudo : BOOLEAN, ids : Seq(Ids \cup {NewId})] /\ entry.pseudo
            /\ entry.ids = list /\ Kept(entry) = Elements(list)
        BY <4>1, PseudoEntryOf
      <4> QED BY <3>2, <4>1, <4>2
    <3>4. TakesPlace(key, old, new)
      <4>1. flushed_list' = flushed_list \cup {old} /\ Put(key, entry)
        BY <2>2 DEF Flush
      <4>2. new.isDefinition /\ (symbols[old].builtin => new.builtin)
        BY <1>3, <2>2 DEF RedefinesBuiltin
      <4>3. EquivalentFunctions(symbols[old], new)
        OBVIOUS
      <4> HIDE DEF entry, others, ids, old
      <4> QED BY <3>3, <4>1, <4>2, <4>3 DEF TakesPlace, WellFormed
    <3> HIDE DEF entry, others, ids, old
    <3> QED BY <1>1, <1>3, <3>4 DEF Joins, Effect
  <2> HIDE DEF entry, old
  <2> QED BY <1>3, <2>1, <2>2 DEF Flush, StaysAside
<1>4. ASSUME NEW k \in Nat, errors' = errors + k, aborted' = (errors' >= MaxErrors)
      PROVE  /\ errors' \in Nat /\ aborted' \in BOOLEAN
             /\ errors' = 0 => errors = 0 /\ k = 0
  <2>1. errors' \in Nat /\ (errors' = 0 => errors = 0 /\ k = 0)
    BY <1>4 DEF TableInv, TableTypeOK
  <2>2. (errors' >= MaxErrors) \in BOOLEAN
    BY <2>1, SymbolTableAssumption
  <2> QED BY <1>4, <2>1, <2>2
<1> DEFINE redefined == symbols[old].isDefinition /\ new.isDefinition
           k == (IF new.mangled THEN 0 ELSE 1) + (IF redefined THEN 1 ELSE 0)
<1>5. CASE RedefinesBuiltin(symbols[old], new)
  BY <1>2, <1>5 DEF ResolveOverload
<1>6. CASE ~RedefinesBuiltin(symbols[old], new)
  <2>1. /\ k \in Nat /\ (redefined => k # 0)
    OBVIOUS
  <2>2. errors' = errors + k /\ aborted' = (errors' >= MaxErrors) /\ StoreAsBrother(old, new)
    BY <1>6 DEF ResolveOverload
  <2>3. \/ Flush(NewId) /\ UNCHANGED symTable /\ ~new.isDefinition
        \/ /\ Flush(old) /\ Put(key, entry)
           /\ ~symbols[old].isDefinition /\ new.isDefinition
        \/ UNCHANGED <<symTable, flushed_list>> /\ redefined
    <3> HIDE DEF others
    <3> QED BY <1>6 DEF ResolveOverload, DefinesPrototype, others
  <2> HIDE DEF k
  <2>4. errors' \in Nat /\ aborted' \in BOOLEAN /\ (errors' = 0 => errors = 0 /\ k = 0)
    BY <1>4, <2>1, <2>2
  <2> HIDE DEF entry, old
  <2> QED BY <1>3, <1>6, <2>1, <2>2, <2>3, <2>4
<1> QED BY <1>5, <1>6

LEMMA FunctionEffect ==
  ASSUME TableInv, NEW key, NEW new, new.kind = "function",
         addFunction(key, new, FALSE)
  PROVE  Effect(key, new)
<1> DEFINE entry == symTable[key]
           i == EquivalentOverload(entry.ids, new)
<1>1. CASE key \notin DOMAIN symTable
  <2>1. CASE new.mangled
    BY <1>1, <2>1, AddFirstEffect DEF addFunction
  <2>2. CASE ~new.mangled
    BY <1>1, <2>2, AddFirstEffect DEF addFunction
  <2> QED BY <2>1, <2>2
<1>2. CASE key \in DOMAIN symTable
  <2>1. /\ i \in 0..Len(entry.ids) /\ Len(entry.ids) \in Nat
        /\ i # 0 => EquivalentFunctions(symbols[entry.ids[i]], new)
        /\ i = 0 => \A id \in Kept(entry) : ~EquivalentFunctions(symbols[id], new)
    BY <1>2, OverloadIndex, Held
  <2>2. \/ Refuse(new)
        \/ /\ symbols[entry.ids[1]].kind = new.kind /\ ~entry.pseudo
           /\ ResolveFunction(key, entry.ids[1], new, FALSE)
        \/ entry.pseudo /\ i = 0 /\ AddOverload(key, entry.ids, new)
        \/ /\ entry.pseudo /\ i # 0
           /\ ResolveOverload(key, entry.ids, i, new, FALSE)
    <3> HIDE DEF i
    <3>1. symbols[entry.ids[1]].kind # "function" \/ ~entry.pseudo \/ i = 0 \/ i # 0
      OBVIOUS
    <3> QED BY <1>2 DEF addFunction, i
  <2>3. CASE Refuse(new)
    BY <2>3, RefuseEffect
  <2>4. CASE /\ symbols[entry.ids[1]].kind = new.kind /\ ~entry.pseudo
             /\ ResolveFunction(key, entry.ids[1], new, FALSE)
    BY <1>2, <2>4, ResolveFunctionEffect
  <2>5. CASE entry.pseudo /\ i = 0 /\ AddOverload(key, entry.ids, new)
    BY <1>2, <2>1, <2>5, AddOverloadEffect
  <2>6. CASE entry.pseudo /\ i # 0 /\ ResolveOverload(key, entry.ids, i, new, FALSE)
    <3>1. i \in 1..Len(entry.ids)
      BY <2>1, <2>6
    <3> HIDE DEF i
    <3> QED BY <1>2, <2>1, <2>6, <3>1, ResolveOverloadEffect
  <2> QED BY <2>2, <2>3, <2>4, <2>5, <2>6
<1> QED BY <1>1, <1>2

-----------------------------------------------------------------------------
(* The scopes.                                                              *)

OfFunction(scope) == \E n \in 0..MaxPushes, name \in Names : scope = FunctionDefScope(n, name)
Contexts == {"block", "paramlist", "params", "oldstyle", "body"}

CountersOK == /\ unnamedScopeCounter \in 0..MaxPushes
              /\ paramlist_number \in 0..MaxPushes
              /\ functiondef_number \in 0..MaxPushes

LEMMA FrontProperties ==
  ASSUME NEW S, NEW s \in Seq(S), s # << >>
  PROVE  /\ Front(s) \in Seq(S) /\ Len(Front(s)) = Len(s) - 1 /\ Len(s) \in Nat \ {0}
         /\ \A i \in 1..Len(Front(s)) : Front(s)[i] = s[i]
<1>1. Len(s) \in Nat \ {0} /\ \A i \in 1..(Len(s) - 1) : s[i] \in S
  BY EmptySeq, ElementOfSeq, LenProperties
<1> DEFINE n == Len(s) - 1
<1>2. n \in Nat /\ \A i \in 1..n : s[i] \in S
  BY <1>1
<1> HIDE DEF n
<1>3. /\ SubSeq(s, 1, n) \in Seq(S) /\ Len(SubSeq(s, 1, n)) = IF 1 <= n THEN n - 1 + 1 ELSE 0
      /\ \A i \in 1..(n - 1 + 1) : SubSeq(s, 1, n)[i] = s[1 + i - 1]
  BY <1>2, SubSeqProperties
<1>4. Len(SubSeq(s, 1, n)) = n /\ \A i \in 1..n : SubSeq(s, 1, n)[i] = s[i]
  BY <1>2, <1>3
<1> QED BY <1>1, <1>3, <1>4 DEF Front, n

\* The innermost scope: its name is well formed, like its context.
LEMMA PushedScopes ==
  ASSUME NEW stack \in Seq(ScopeNames), NEW ctx \in Seq(Contexts), Len(ctx) = Len(stack),
         \A i \in 1..Len(ctx) : ctx[i] \in {"params", "oldstyle", "body"} => OfFunction(stack[i]),
         NEW scope \in ScopeNames, NEW what \in Contexts,
         what \in {"params", "oldstyle", "body"} => OfFunction(scope),
         scopeStack' = Append(stack, scope), context' = Append(ctx, what), CountersOK'
  PROVE  ScopesTypeOK'
<1>1. /\ scopeStack' \in Seq(ScopeNames) /\ Len(scopeStack') = Len(stack) + 1
      /\ context' \in Seq(Contexts) /\ Len(context') = Len(stack) + 1
      /\ Len(stack) \in Nat
      /\ \A i \in 1..Len(stack) : scopeStack'[i] = stack[i] /\ context'[i] = ctx[i]
      /\ scopeStack'[Len(stack) + 1] = scope /\ context'[Len(stack) + 1] = what
  BY AppendProperties, LenProperties
<1>2. ASSUME NEW i \in 1..Len(context'), context'[i] \in {"params", "oldstyle", "body"}
      PROVE  OfFunction(scopeStack'[i])
  <2>1. CASE i \in 1..Len(stack)
    BY <1>1, <1>2, <2>1
  <2>2. CASE i = Len(stack) + 1
    BY <1>1, <1>2, <2>2
  <2> QED BY <1>1, <2>1, <2>2
<1> QED BY <1>1, <1>2 DEF ScopesTypeOK, Contexts, OfFunction, CountersOK

\* What is left below the innermost scope.
LEMMA PoppedScopes ==
  ASSUME ScopesTypeOK, context # << >>
  PROVE  /\ Front(scopeStack) \in Seq(ScopeNames) /\ Front(context) \in Seq(Contexts)
         /\ Len(Front(context)) = Len(Front(scopeStack))
         /\ \A i \in 1..Len(Front(context)) :
              Front(context)[i] \in {"params", "oldstyle", "body"} => OfFunction(Front(scopeStack)[i])
         /\ scopeStack # << >> /\ Len(scopeStack) \in 1..Len(context)
<1>1. /\ scopeStack \in Seq(ScopeNames) /\ context \in Seq(Contexts)
      /\ Len(context) = Len(scopeStack)
      /\ \A i \in 1..Len(context) :
           context[i] \in {"params", "oldstyle", "body"} => OfFunction(scopeStack[i])
  BY DEF ScopesTypeOK, Contexts, OfFunction
<1>2. scopeStack # << >>
  BY <1>1, EmptySeq
<1>3. /\ Front(context) \in Seq(Contexts) /\ Len(Front(context)) = Len(context) - 1
      /\ Len(context) \in Nat \ {0} /\ \A i \in 1..Len(Front(context)) : Front(context)[i] = context[i]
  BY <1>1, FrontProperties
<1>4. /\ Front(scopeStack) \in Seq(ScopeNames) /\ Len(Front(scopeStack)) = Len(scopeStack) - 1
      /\ \A i \in 1..Len(Front(scopeStack)) : Front(scopeStack)[i] = scopeStack[i]
  BY <1>1, <1>2, FrontProperties
<1> QED BY <1>1, <1>2, <1>3, <1>4

\* The name of the function is there when its definition is being read.
LEMMA InFunction ==
  ASSUME ScopesTypeOK, In("params") \/ In("oldstyle")
  PROVE  CurrentFunction \in Names
<1>1. context # << >> /\ context[Len(context)] \in {"params", "oldstyle", "body"}
  BY DEF In
<1>2. Len(context) \in Nat \ {0} /\ Len(context) = Len(scopeStack)
  BY <1>1, EmptySeq DEF ScopesTypeOK
<1>3. PICK n \in 0..MaxPushes, name \in Names :
        scopeStack[Len(scopeStack)] = FunctionDefScope(n, name)
  BY <1>1, <1>2 DEF ScopesTypeOK
<1> QED BY <1>3 DEF CurrentFunction, FunctionDefScope

\* What a symbol is declared with.
SymbolKinds == {"object", "enum", "typedef", "function"}
SymbolTypes == Types \cup Params \cup {"int"}
SymbolStorages == Storages \cup {"none"}
SymbolDims == Dims \cup {NoArray}

\* A symbol of the current scope, declared or defined there.
Declared(kind, name, storage, type, dim) == Symbol(kind, name, storage, type, dim, FALSE)
Defined(kind, name, storage, type, dim)  == Symbol(kind, name, storage, type, dim, TRUE)

LEMMA NewSymbol ==
  ASSUME ScopesTypeOK, NEW name \in Names, NEW kind \in SymbolKinds,
         NEW storage \in SymbolStorages, NEW type \in SymbolTypes, NEW dim \in SymbolDims,
         NEW new,
         \/ new = Declared(kind, name, storage, type, dim)
         \/ new = Defined(kind, name, storage, type, dim)
  PROVE  /\ new \in SymbolType(0) /\ new.kind = kind /\ new.name = name
         /\ new.path = scopeStack
         /\ new.builtin => kind = "function"
<1> DEFINE m == kind = "function" /\ "mangling" \in modes
           b == kind = "function" /\ "builtin" \in modes
           With(d) == [kind |-> kind, name |-> name, path |-> scopeStack,
                       storage |-> storage, type |-> type, dim |-> dim, isDefinition |-> d,
                       mangled |-> m, builtin |-> b, brothers |-> 0]
<1>1. m \in BOOLEAN /\ b \in BOOLEAN /\ scopeStack \in Seq(ScopeNames)
  BY DEF ScopesTypeOK
<1>2. new = With(FALSE) \/ new = With(TRUE)
  BY DEF Symbol, Declared, Defined
<1>b. b => kind = "function"
  OBVIOUS
<1> HIDE DEF m, b
<1>3. CASE new = With(FALSE)
  BY <1>1, <1>b, <1>3 DEF SymbolType, SymbolKinds, SymbolTypes, SymbolStorages, SymbolDims
<1>4. CASE new = With(TRUE)
  BY <1>1, <1>b, <1>4 DEF SymbolType, SymbolKinds, SymbolTypes, SymbolStorages, SymbolDims
<1> QED BY <1>2, <1>3, <1>4

-----------------------------------------------------------------------------
(* The steps.                                                               *)

\* A symbol is declared in the current scope, or, at the end of the parameters
\* of a function definition, in the one around it.
Placed(key, new) ==
  /\ new.kind \in Kinds \cup {"function"}
  /\ \/ key[1] = scopeStack
     \/ In("params") /\ key[1] = Front(scopeStack)

\* A step that declares a symbol.
Declares == \E key, new : Fresh(key, new) /\ Placed(key, new) /\ Effect(key, new)

\* A symbol declared in the current scope is fresh.
LEMMA NewIsFresh ==
  ASSUME ScopesTypeOK, NEW name \in Names, NEW kind \in SymbolKinds,
         NEW storage \in SymbolStorages, NEW type \in SymbolTypes, NEW dim \in SymbolDims,
         NEW new, new = Declared(kind, name, storage, type, dim)
  PROVE  /\ Fresh(Scoped(name), new) /\ new.name = name /\ new.kind = kind
         /\ kind \in Kinds \cup {"function"} => Placed(Scoped(name), new)
<1>1. ~new.isDefinition
  BY DEF Declared, Symbol
<1> QED BY <1>1, NewSymbol DEF Fresh, Scoped, Placed

LEMMA DeclareEffect ==
  ASSUME ScopesTypeOK, TableInv, NEW name \in Names, Declare(name)
  PROVE  Declares /\ UNCHANGED <<scopes, modes>>
<1>1. AnyParams \in Params
  BY SymbolTableAssumption
<1>s. /\ "none" \in SymbolStorages /\ Storages \subseteq SymbolStorages
      /\ NoArray \in SymbolDims /\ Dims \subseteq SymbolDims
      /\ "int" \in SymbolTypes /\ Types \subseteq SymbolTypes /\ Params \subseteq SymbolTypes
      /\ "object" \in SymbolKinds /\ "function" \in SymbolKinds
      /\ "enum" \in SymbolKinds /\ "typedef" \in SymbolKinds
  BY DEF SymbolKinds, SymbolTypes, SymbolStorages, SymbolDims
<1>2. ASSUME "object" \in Kinds,
             NEW storage \in Storages, NEW type \in Types, NEW dim \in Dims,
             DeclareObject(name, storage, type, dim)
      PROVE  Declares /\ UNCHANGED <<scopes, modes>>
  <2> DEFINE new == Symbol("object", name, storage, type, dim, FALSE)
  <2>1. /\ Fresh(Scoped(name), new) /\ new.name = name /\ new.kind = "object"
        /\ Placed(Scoped(name), new)
    <3>1. new = Declared("object", name, storage, type, dim)
      BY DEF Declared
    <3> HIDE DEF new
    <3> QED BY <1>s, <1>2, <3>1, NewIsFresh
  <2>2. addObjectLabel(new) /\ UNCHANGED <<scopes, modes>>
    BY <1>2 DEF DeclareObject
  <2> HIDE DEF new
  <2> QED BY <2>1, <2>2, ObjectEffect DEF Declares
<1>3. ASSUME "object" \in Kinds, NEW type \in Types, DeclareParameter(name, type)
      PROVE  Declares /\ UNCHANGED <<scopes, modes>>
  <2> DEFINE new == Symbol("object", name, "none", type, NoArray, FALSE)
  <2>1. /\ Fresh(Scoped(name), new) /\ new.name = name /\ new.kind = "object"
        /\ Placed(Scoped(name), new)
    <3>1. new = Declared("object", name, "none", type, NoArray)
      BY DEF Declared
    <3> HIDE DEF new
    <3> QED BY <1>s, <1>3, <3>1, NewIsFresh
  <2>2. (Refuse(new) \/ addObjectLabel(new)) /\ UNCHANGED <<scopes, modes>>
    BY <1>3 DEF DeclareParameter
  <2> HIDE DEF new
  <2> QED BY <2>1, <2>2, ObjectEffect, RefuseEffect DEF Declares
<1>4. ASSUME NEW kind \in {"enum", "typedef"} \cap Kinds,
             addUnique(Symbol(kind, name, "none", "int", NoArray, FALSE))
      PROVE  Declares
  <2> DEFINE new == Symbol(kind, name, "none", "int", NoArray, FALSE)
  <2>1. Fresh(Scoped(name), new) /\ Placed(Scoped(name), new) /\ new.name = name
    <3>1. new = Declared(kind, name, "none", "int", NoArray)
      BY DEF Declared
    <3> HIDE DEF new
    <3> QED BY <1>s, <3>1, NewIsFresh
  <2>2. addUnique(new)
    BY <1>4
  <2> HIDE DEF new
  <2> QED BY <2>1, <2>2, UniqueEffect DEF Declares
<1>5. ASSUME NEW params \in Params,
             addFunction(Scoped(name),
                         Symbol("function", name, "none", params, NoArray, FALSE), FALSE)
      PROVE  Declares
  <2> DEFINE new == Symbol("function", name, "none", params, NoArray, FALSE)
  <2>1. Fresh(Scoped(name), new) /\ Placed(Scoped(name), new) /\ new.kind = "function"
    <3>1. new = Declared("function", name, "none", params, NoArray)
      BY DEF Declared
    <3> HIDE DEF new
    <3> QED BY <1>s, <3>1, NewIsFresh
  <2>2. addFunction(Scoped(name), new, FALSE)
    BY <1>5
  <2> HIDE DEF new
  <2> QED BY <2>1, <2>2, FunctionEffect DEF Declares
<1>6. CASE "enum" \in Kinds /\ DeclareEnumConstant(name)
  BY <1>4, <1>6 DEF DeclareEnumConstant
<1>7. CASE "typedef" \in Kinds /\ DeclareTypedef(name)
  BY <1>4, <1>7 DEF DeclareTypedef
<1>8. CASE \E p \in Params : DeclarePrototype(name, p)
  BY <1>5, <1>8 DEF DeclarePrototype
<1>9. CASE CallUndeclared(name)
  BY <1>1, <1>5, <1>9 DEF CallUndeclared
<1> QED BY <1>2, <1>3, <1>6, <1>7, <1>8, <1>9 DEF Declare

LEMMA DefineFunctionEffect ==
  ASSUME ScopesTypeOK, TableInv, NEW params \in Params \ {AnyParams}, DefineFunction(params)
  PROVE  Declares /\ ScopesTypeOK' /\ UNCHANGED modes
<1> DEFINE outer == Front(scopeStack)
           sym == Symbol("function", CurrentFunction, "none", params, NoArray, TRUE)
           new == [sym EXCEPT !.path = outer]
<1>1. /\ ScopesTypeOK /\ TableInv /\ In("params") /\ context # << >>
      /\ addFunction(<<outer, CurrentFunction>>, new, FALSE)
      /\ context' = Append(Front(context), "oldstyle")
      /\ UNCHANGED <<modes, scopeStack, unnamedScopeCounter, paramlist_number, functiondef_number>>
  BY DEF DefineFunction, Enclosing, In
<1>2. CurrentFunction \in Names
  BY <1>1, InFunction
<1>3. /\ outer \in Seq(ScopeNames) /\ Front(context) \in Seq(Contexts)
      /\ Len(Front(context)) = Len(outer)
      /\ \A i \in 1..Len(Front(context)) :
           Front(context)[i] \in {"params", "oldstyle", "body"} => OfFunction(outer[i])
      /\ scopeStack # << >>
  BY <1>1, PoppedScopes
<1>4. Declares
  <2>1. /\ sym \in SymbolType(0) /\ sym.kind = "function" /\ sym.name = CurrentFunction
        /\ sym.type = params
    <3>1. /\ "none" \in SymbolStorages /\ NoArray \in SymbolDims /\ params \in SymbolTypes
          /\ "function" \in SymbolKinds /\ scopeStack \in Seq(ScopeNames)
      BY <1>1 DEF SymbolKinds, SymbolTypes, SymbolStorages, SymbolDims, ScopesTypeOK
    <3>2. sym = Defined("function", CurrentFunction, "none", params, NoArray)
      BY DEF Defined
    <3>3. sym.type = params
      BY DEF Symbol
    <3> HIDE DEF sym
    <3> QED BY <1>1, <1>2, <3>1, <3>2, <3>3, NewSymbol
  <2> HIDE DEF sym, outer
  <2>2. /\ new \in SymbolType(0) /\ new.kind = "function" /\ new.name = CurrentFunction
        /\ new.path = outer /\ new.type = params
    BY <1>3, <2>1 DEF SymbolType
  <2> HIDE DEF new
  <2>3. Fresh(<<outer, CurrentFunction>>, new)
    BY <2>2 DEF Fresh
  <2>4. Placed(<<outer, CurrentFunction>>, new)
    BY <1>1, <2>2 DEF Placed, outer
  <2> QED BY <1>1, <2>2, <2>3, <2>4, FunctionEffect DEF Declares
<1>5. ScopesTypeOK'
  <2> DEFINE top == scopeStack[Len(scopeStack)]
  <2>1. scopeStack = Append(outer, top) /\ top \in ScopeNames
    <3>1. scopeStack \in Seq(ScopeNames)
      BY <1>1 DEF ScopesTypeOK
    <3>2. /\ outer \in Seq(ScopeNames) /\ Len(outer) = Len(scopeStack) - 1
          /\ Len(scopeStack) \in Nat \ {0}
          /\ \A i \in 1..Len(outer) : outer[i] = scopeStack[i]
      BY <1>3, <3>1, FrontProperties
    <3>3. top \in ScopeNames
      BY <3>1, <3>2, ElementOfSeq
    <3> HIDE DEF outer, top
    <3>4. /\ Append(outer, top) \in Seq(ScopeNames)
          /\ Len(Append(outer, top)) = Len(scopeStack)
          /\ \A i \in 1..Len(outer) : Append(outer, top)[i] = outer[i]
          /\ Append(outer, top)[Len(scopeStack)] = top
      BY <3>2, <3>3, AppendProperties
    <3>5. \A i \in 1..Len(scopeStack) : Append(outer, top)[i] = scopeStack[i]
      BY <3>2, <3>4 DEF top
    <3> QED BY <3>1, <3>3, <3>4, <3>5, SeqEqual
  <2>2. OfFunction(top)
    <3>1. Len(context) = Len(scopeStack) /\ Len(context) \in Nat \ {0}
      BY <1>1, EmptySeq DEF ScopesTypeOK
    <3>2. context[Len(context)] = "params" /\ Len(context) \in 1..Len(context)
      BY <1>1, <3>1 DEF In
    <3>3. \E n \in 0..MaxPushes, name \in Names :
            scopeStack[Len(context)] = FunctionDefScope(n, name)
      BY <3>2 DEF ScopesTypeOK
    <3> QED BY <3>1, <3>3 DEF OfFunction
  <2>3. CountersOK'
    BY <1>1 DEF ScopesTypeOK, CountersOK
  <2>4. scopeStack' = Append(outer, top) /\ "oldstyle" \in Contexts
    BY <1>1, <2>1 DEF Contexts
  <2> HIDE DEF outer, top
  <2> QED BY <1>1, <1>3, <2>1, <2>2, <2>3, <2>4, PushedScopes
<1> QED BY <1>1, <1>4, <1>5

\* Every step keeps the scopes well formed, and declares a symbol or leaves
\* the table alone.
Walks == ScopesTypeOK' /\ modes' \subseteq Modes /\ (Declares \/ UNCHANGED table)

LEMMA StepEffect ==
  ASSUME ScopesTypeOK, TableInv, modes \subseteq Modes, [Next]_vars
  PROVE  Walks
<1>1. /\ ScopesTypeOK /\ TableInv /\ modes \subseteq Modes
      /\ scopeStack \in Seq(ScopeNames) /\ context \in Seq(Contexts)
      /\ Len(context) = Len(scopeStack)
      /\ \A i \in 1..Len(context) :
           context[i] \in {"params", "oldstyle", "body"} => OfFunction(scopeStack[i])
      /\ CountersOK /\ errors \in Nat /\ aborted \in BOOLEAN
  BY DEF ScopesTypeOK, Contexts, OfFunction, CountersOK, TableInv, TableTypeOK
<1>3. UNCHANGED scopes => ScopesTypeOK'
  BY <1>1 DEF scopes, ScopesTypeOK
<1>4. CASE PushBlock
  <2>1. /\ BlockScope(unnamedScopeCounter) \in ScopeNames /\ "block" \in Contexts
        /\ "block" \notin {"params", "oldstyle", "body"}
    BY <1>1 DEF ScopeNames, Contexts, CountersOK
  <2>2. CountersOK'
    BY <1>1, <1>4, SymbolTableAssumption DEF PushBlock, CountersOK
  <2>3. /\ scopeStack' = Append(scopeStack, BlockScope(unnamedScopeCounter))
        /\ context' = Append(context, "block") /\ UNCHANGED <<table, modes>>
    BY <1>4 DEF PushBlock, Push
  <2> QED BY <1>1, <2>1, <2>2, <2>3, PushedScopes DEF Walks
<1>5. CASE PushParamList
  <2>1. /\ ParamListScope(paramlist_number) \in ScopeNames /\ "paramlist" \in Contexts
        /\ "paramlist" \notin {"params", "oldstyle", "body"}
    BY <1>1 DEF ScopeNames, Contexts, CountersOK
  <2>2. CountersOK'
    BY <1>1, <1>5, SymbolTableAssumption DEF PushParamList, CountersOK
  <2>3. /\ scopeStack' = Append(scopeStack, ParamListScope(paramlist_number))
        /\ context' = Append(context, "paramlist") /\ UNCHANGED <<table, modes>>
    BY <1>5 DEF PushParamList, Push
  <2> QED BY <1>1, <2>1, <2>2, <2>3, PushedScopes DEF Walks
<1>6. ASSUME NEW name \in Names, PushParams(name)
      PROVE  Walks
  <2> DEFINE scope == FunctionDefScope(functiondef_number, name)
  <2>1. OfFunction(scope) /\ scope \in ScopeNames /\ "params" \in Contexts
    BY <1>1 DEF OfFunction, ScopeNames, Contexts, CountersOK
  <2>2. CountersOK'
    BY <1>1, <1>6 DEF PushParams, CountersOK
  <2>3. /\ scopeStack' = Append(scopeStack, scope)
        /\ context' = Append(context, "params") /\ UNCHANGED <<table, modes>>
    BY <1>6 DEF PushParams, Push
  <2> HIDE DEF scope
  <2> QED BY <1>1, <2>1, <2>2, <2>3, PushedScopes DEF Walks
<1>7. CASE EnterBody
  <2> DEFINE scope == FunctionDefScope(functiondef_number, CurrentFunction)
  <2>1. CurrentFunction \in Names /\ context # << >>
    BY <1>1, <1>7, InFunction DEF EnterBody, In
  <2>2. OfFunction(scope) /\ scope \in ScopeNames /\ "body" \in Contexts
    BY <1>1, <2>1 DEF OfFunction, ScopeNames, Contexts, CountersOK
  <2>3. CountersOK'
    BY <1>1, <1>7, SymbolTableAssumption DEF EnterBody, CountersOK
  <2>4. /\ scopeStack' = Append(Front(scopeStack), scope)
        /\ context' = Append(Front(context), "body") /\ UNCHANGED <<table, modes>>
    BY <1>7 DEF EnterBody
  <2>5. /\ Front(scopeStack) \in Seq(ScopeNames) /\ Front(context) \in Seq(Contexts)
        /\ Len(Front(context)) = Len(Front(scopeStack))
        /\ \A i \in 1..Len(Front(context)) :
             Front(context)[i] \in {"params", "oldstyle", "body"} => OfFunction(Front(scopeStack)[i])
    BY <1>1, <2>1, PoppedScopes
  <2> HIDE DEF scope
  <2>6. ScopesTypeOK'
    BY <2>2, <2>3, <2>4, <2>5, PushedScopes
  <2> QED BY <1>1, <2>4, <2>6 DEF Walks
<1>8. CASE PopScope
  <2>1. context # << >>
    BY <1>8 DEF PopScope, In
  <2>2. /\ Front(scopeStack) \in Seq(ScopeNames) /\ Front(context) \in Seq(Contexts)
        /\ Len(Front(context)) = Len(Front(scopeStack))
        /\ \A i \in 1..Len(Front(context)) :
             Front(context)[i] \in {"params", "oldstyle", "body"} => OfFunction(Front(scopeStack)[i])
    BY <1>1, <2>1, PoppedScopes
  <2>3. /\ scopeStack' = Front(scopeStack) /\ context' = Front(context)
        /\ CountersOK' /\ UNCHANGED <<table, modes>>
    BY <1>1, <1>8 DEF PopScope, Pop, CountersOK
  <2>4. ScopesTypeOK'
    BY <2>2, <2>3 DEF ScopesTypeOK, Contexts, OfFunction, CountersOK
  <2> QED BY <1>1, <2>3, <2>4 DEF Walks
<1>9. ASSUME NEW name \in Names, Declare(name)
      PROVE  Walks
  BY <1>1, <1>3, <1>9, DeclareEffect DEF Walks
<1>10. ASSUME NEW params \in Params \ {AnyParams}, DefineFunction(params)
       PROVE  Walks
  BY <1>1, <1>10, DefineFunctionEffect DEF Walks
<1>11. ASSUME NEW mode \in Modes, Pragma(mode)
       PROVE  Walks
  BY <1>1, <1>3, <1>11 DEF Pragma, Walks
<1>12. CASE UNCHANGED vars
  BY <1>1, <1>3, <1>12 DEF vars, Walks
<1> QED BY <1>4, <1>5, <1>6, <1>7, <1>8, <1>9, <1>10, <1>11, <1>12 DEF Next

-----------------------------------------------------------------------------
(* What the effects preserve.                                               *)

\* Only functions are builtins.
BuiltinFunctions == \A id \in Ids : symbols[id].builtin => symbols[id].kind = "function"

IInv == /\ ScopesTypeOK /\ TableInv /\ modes \subseteq Modes
        /\ BuiltinFunctions /\ NothingLost /\ FunctionDefinitionKept /\ OverloadsDiffer

\* Being brothers is an equivalence on the symbols, within a name and scope.
LEMMA BrothersRelation ==
  ASSUME TableInv
  PROVE  /\ BrothersAreOneEntity
         /\ \A id \in Ids : id \in Brothers(id) /\ Brothers(id) \subseteq Ids
         /\ \A id \in Ids : \A b \in Brothers(id) : Brothers(b) = Brothers(id)
<1>1. ASSUME NEW id \in Ids
      PROVE  /\ id \in Brothers(id) /\ Brothers(id) \subseteq Ids
             /\ \A b \in Brothers(id) :
                  /\ KeyOf(b) = KeyOf(id) /\ symbols[b].kind = symbols[id].kind
                  /\ Brothers(b) = Brothers(id)
  <2>1. CASE symbols[id].brothers = 0
    BY <2>1 DEF Brothers
  <2>2. CASE symbols[id].brothers # 0
    <3> DEFINE v == symbols[id].brothers
    <3>1. symbols[id] \in SymbolType(Len(vectors)) /\ Len(vectors) \in Nat
      BY ElementOfSeq, LenProperties DEF TableInv, TableTypeOK, Ids
    <3>2. v \in 1..Len(vectors) /\ Brothers(id) = vectors[v]
      BY <2>2, <3>1 DEF SymbolType, Brothers
    <3>3. id \in vectors[v] /\ vectors[v] \subseteq Ids
      BY <2>2, <3>2 DEF TableInv, TableTypeOK, VectorsOK
    <3>4. \A b \in vectors[v] : symbols[b].brothers = v
      BY <3>2 DEF TableInv, VectorsOK
    <3>5. \A b \in vectors[v] : KeyOf(b) = KeyOf(id) /\ symbols[b].kind = symbols[id].kind
      BY <3>2, <3>3 DEF TableInv, VectorsOK
    <3> HIDE DEF v
    <3>6. \A b \in vectors[v] : Brothers(b) = vectors[v]
      BY <3>2, <3>4 DEF Brothers
    <3> QED BY <3>2, <3>3, <3>5, <3>6
  <2> QED BY <2>1, <2>2
<1> QED BY <1>1 DEF BrothersAreOneEntity

\* A new symbol without brothers leaves the brothers of others alone.
LEMMA AloneBrothers ==
  ASSUME TableInv, NEW key, NEW new, Fresh(key, new), Alone(new)
  PROVE  /\ NewId \notin Ids /\ Ids' = Ids \cup {NewId}
         /\ \A id \in Ids : /\ symbols'[id] = symbols[id]
                            /\ KeyOf(id)' = KeyOf(id) /\ Brothers(id)' = Brothers(id)
         /\ symbols'[NewId] = new
         /\ \A id \in {NewId} : KeyOf(id)' = key /\ Brothers(id)' = {NewId}
<1>1. /\ vectors' = vectors /\ NewId \notin Ids /\ Ids' = Ids \cup {NewId}
      /\ \A id \in Ids : symbols'[id] = symbols[id]
      /\ symbols'[NewId] = new
  BY StoreAloneEffect DEF Fresh, Alone, TableInv
<1>2. new.brothers = 0 /\ <<new.path, new.name>> = key
  BY DEF Fresh, SymbolType
<1> QED BY <1>1, <1>2 DEF KeyOf, Brothers

\* A new symbol joins the brothers of the old one, which the table holds.
LEMMA JoinedBrothers ==
  ASSUME TableInv, NEW key \in DOMAIN symTable, NEW new, Fresh(key, new),
         NEW old \in Kept(symTable[key]), StoreAsBrother(old, new)
  PROVE  /\ NewId \notin Ids /\ Ids' = Ids \cup {NewId} /\ old \in Ids
         /\ \A id \in Ids : SameDeclaration(symbols'[id], symbols[id]) /\ KeyOf(id)' = KeyOf(id)
         /\ SameDeclaration(symbols'[NewId], new)
         /\ \A id \in {NewId} : KeyOf(id)' = key
         /\ \A id \in Brothers(old) \cup {NewId} : Brothers(id)' = Brothers(old) \cup {NewId}
         /\ \A id \in Ids \ Brothers(old) : Brothers(id)' = Brothers(id)
         /\ Kept(symTable[key]) \cap Brothers(old) = {old}
<1> DEFINE v == Vector(old)
<1>0. TableTypeOK /\ new \in SymbolType(0) /\ <<new.path, new.name>> = key
  BY DEF Fresh, TableInv
<1>1. old \in Ids /\ KeyOf(old) = key
  BY DEF TableInv, TableTypeOK, Kept, KeptOK
<1>2. v = Vector(old)
  OBVIOUS
<1>3. /\ Len(vectors) \in Nat /\ \A id \in Ids : symbols[id].brothers \in 0..Len(vectors)
  <2>1. \A id \in Ids : symbols[id] \in SymbolType(Len(vectors))
    BY ElementOfSeq DEF TableInv, TableTypeOK, Ids
  <2> QED BY <2>1 DEF TableInv, TableTypeOK, SymbolType
<1> HIDE DEF v
<1>4. /\ NewId \notin Ids /\ Ids' = Ids \cup {NewId}
      /\ \A id \in Ids : SameDeclaration(symbols'[id], symbols[id]) /\ KeyOf(id)' = KeyOf(id)
      /\ SameDeclaration(symbols'[NewId], new)
  BY <1>0, <1>1, <1>2, StoreAsBrotherEffect
<1>5. \A id \in {NewId} : KeyOf(id)' = key
  BY <1>0, <1>1, <1>2, StoreAsBrotherEffect
<1>6. /\ v \in 1..Len(vectors') /\ vectors'[v] = Brothers(old) \cup {NewId}
      /\ \A w \in 1..Len(vectors') : w # v =>
           w \in 1..Len(vectors) /\ vectors'[w] = vectors[w]
      /\ 1..Len(vectors) \subseteq 1..Len(vectors')
  BY <1>0, <1>1, <1>2, StoreAsBrotherEffect
<1>7. /\ symbols'[NewId].brothers = v
      /\ \A id \in Ids : symbols'[id].brothers = IF id = old THEN v ELSE symbols[id].brothers
  BY <1>0, <1>1, <1>2, StoreAsBrotherEffect
<1>8. v # 0
  BY <1>1, <1>3, <1>2 DEF Vector
<1>9. \A id \in Brothers(old) : id \in Ids /\ KeyOf(id) = key /\ symbols'[id].brothers = v
  <2>1. CASE symbols[old].brothers = 0
    BY <1>1, <1>7, <2>1 DEF Brothers
  <2>2. CASE symbols[old].brothers # 0
    <3>1. v \in 1..Len(vectors) /\ Brothers(old) = vectors[v]
      BY <1>1, <1>2, <1>3, <2>2 DEF Vector, Brothers
    <3>2. \A id \in vectors[v] : symbols[id].brothers = v
      BY <3>1 DEF TableInv, VectorsOK
    <3>3. \A id \in Brothers(old) : id \in Ids /\ KeyOf(id) = key
      BY <1>1, BrothersRelation DEF BrothersAreOneEntity
    <3> QED BY <1>7, <3>1, <3>2, <3>3
  <2> QED BY <2>1, <2>2
<1>10. \A id \in Brothers(old) \cup {NewId} : Brothers(id)' = Brothers(old) \cup {NewId}
  BY <1>6, <1>7, <1>8, <1>9 DEF Brothers
<1>11. ASSUME NEW id \in Ids \ Brothers(old)
       PROVE  Brothers(id)' = Brothers(id)
  <2>1. id # old /\ symbols'[id].brothers = symbols[id].brothers
    BY <1>1, <1>7, BrothersRelation
  <2>2. CASE symbols[id].brothers = 0
    BY <2>1, <2>2 DEF Brothers
  <2>3. CASE symbols[id].brothers # 0
    <3> DEFINE w == symbols[id].brothers
    <3>1. w \in 1..Len(vectors) /\ Brothers(id) = vectors[w] /\ id \in vectors[w]
      BY <1>3, <2>3, BrothersRelation DEF Brothers
    <3>2. w # v
      <4>1. SUFFICES ASSUME w = v PROVE FALSE
        OBVIOUS
      <4>2. symbols[old].brothers = v
        BY <1>1, <1>2, <1>3, <3>1, <4>1 DEF Vector
      <4>3. Brothers(old) = vectors[v]
        BY <1>8, <4>2 DEF Brothers
      <4> QED BY <3>1, <4>1, <4>3
    <3> HIDE DEF w
    <3>3. vectors'[w] = vectors[w]
      BY <1>6, <3>1, <3>2
    <3> QED BY <2>1, <2>3, <3>1, <3>3 DEF Brothers, w
  <2> QED BY <2>2, <2>3
<1>12. Kept(symTable[key]) \cap Brothers(old) = {old}
  <2>1. CASE symbols[old].brothers = 0
    BY <2>1 DEF Brothers
  <2>2. CASE symbols[old].brothers # 0
    <3>1. v \in 1..Len(vectors) /\ Brothers(old) = vectors[v]
      BY <1>1, <1>2, <1>3, <2>2 DEF Vector, Brothers
    <3>2. PICK k \in vectors[v] : Kept(symTable[KeyOf(k)]) \cap vectors[v] = {k}
      BY <3>1 DEF TableInv, OneKept
    <3>3. KeyOf(k) = key /\ old \in Brothers(old)
      BY <1>1, <1>9, <3>1, BrothersRelation
    <3> QED BY <3>1, <3>2, <3>3
  <2> QED BY <2>1, <2>2
<1> QED BY <1>1, <1>4, <1>5, <1>10, <1>11, <1>12

\* What the table holds after an effect.
LEMMA PutKept ==
  ASSUME NEW key, NEW entry, Put(key, entry)
  PROVE  /\ DOMAIN symTable' = DOMAIN symTable \cup {key} /\ symTable'[key] = entry
         /\ \A k \in DOMAIN symTable : k # key => symTable'[k] = symTable[k]
BY DEF Put

LEMMA EnteredKept ==
  ASSUME TableInv, NEW key, NEW new, Enters(key, new)
  PROVE  /\ DOMAIN symTable' = DOMAIN symTable \cup {key}
         /\ \A k \in DOMAIN symTable' : \A id \in Kept(symTable'[k]) :
              \/ k = key /\ id = NewId
              \/ k \in DOMAIN symTable /\ id \in Kept(symTable[k]) /\ id \in Ids
         /\ NewId \in Kept(symTable'[key])
         /\ \A k \in DOMAIN symTable : Kept(symTable[k]) \subseteq Kept(symTable'[k])
         /\ key \in DOMAIN symTable =>
              \A id \in Kept(symTable[key]) : ~EquivalentFunctions(symbols[id], new)
<1>1. PICK entry :
        /\ Put(key, entry)
        /\ \/ key \notin DOMAIN symTable /\ Kept(entry) = {NewId}
           \/ /\ key \in DOMAIN symTable
              /\ Kept(entry) = Kept(symTable[key]) \cup {NewId}
              /\ \A id \in Kept(symTable[key]) : ~EquivalentFunctions(symbols[id], new)
  BY DEF Enters
<1>2. \A k \in DOMAIN symTable : Kept(symTable[k]) \subseteq Ids
  BY DEF TableInv, TableTypeOK, Kept
<1>3. /\ DOMAIN symTable' = DOMAIN symTable \cup {key} /\ symTable'[key] = entry
      /\ \A k \in DOMAIN symTable : k # key => symTable'[k] = symTable[k]
  BY <1>1, PutKept
<1>4. ASSUME NEW k \in DOMAIN symTable', NEW id \in Kept(symTable'[k])
      PROVE  \/ k = key /\ id = NewId
             \/ k \in DOMAIN symTable /\ id \in Kept(symTable[k]) /\ id \in Ids
  BY <1>1, <1>2, <1>3
<1>5. \A k \in DOMAIN symTable : Kept(symTable[k]) \subseteq Kept(symTable'[k])
  BY <1>1, <1>3
<1> QED BY <1>1, <1>3, <1>4, <1>5

LEMMA JoinedKept ==
  ASSUME TableInv, NEW key \in DOMAIN symTable, NEW new, Fresh(key, new),
         NEW old \in Kept(symTable[key]), StoreAsBrother(old, new),
         StaysAside(old, new) \/ TakesPlace(key, old, new)
  PROVE  /\ DOMAIN symTable' = DOMAIN symTable
         /\ \A k \in DOMAIN symTable : \A id \in Kept(symTable'[k]) :
              \/ k = key /\ id = old /\ StaysAside(old, new)
              \/ k = key /\ id = NewId /\ TakesPlace(key, old, new)
              \/ id \in Kept(symTable[k]) /\ id \in Ids \ Brothers(old)
         /\ \A k \in DOMAIN symTable : \A id \in Kept(symTable[k]) :
              id # old => id \in Kept(symTable'[k])
         /\ StaysAside(old, new) => symTable' = symTable
         /\ TakesPlace(key, old, new) =>
              /\ NewId \in Kept(symTable'[key])
              /\ \A id \in Kept(symTable'[key]) : id # NewId =>
                   new.kind = "function" /\ EquivalentFunctions(symbols[old], new)
<1>1. /\ old \in Ids /\ NewId \notin Ids /\ Kept(symTable[key]) \cap Brothers(old) = {old}
  BY JoinedBrothers
<1>2. \A k \in DOMAIN symTable : \A id \in Kept(symTable[k]) : id \in Ids /\ KeyOf(id) = k
  BY DEF TableInv, TableTypeOK, KeptOK, Kept
<1>3. \A id \in Brothers(old) : KeyOf(id) = key
  BY <1>1, <1>2, BrothersRelation DEF BrothersAreOneEntity
<1>4. \A k \in DOMAIN symTable : \A id \in Kept(symTable[k]) :
        id # old => id \in Ids \ Brothers(old)
  BY <1>1, <1>2, <1>3
<1>5. CASE StaysAside(old, new)
  <2>1. symTable' = symTable
    BY <1>5 DEF StaysAside
  <2>2. \A k \in DOMAIN symTable : old \in Kept(symTable[k]) => k = key
    BY <1>2
  <2>3. TakesPlace(key, old, new) => FALSE
    <3>1. TakesPlace(key, old, new) => NewId \in Kept(symTable'[key])
      BY PutKept DEF TakesPlace
    <3> QED BY <1>1, <1>2, <2>1, <3>1
  <2> QED BY <1>4, <1>5, <2>1, <2>2, <2>3
<1>6. CASE TakesPlace(key, old, new)
  <2>1. PICK entry :
          /\ WellFormed(entry, new) /\ Put(key, entry)
          /\ Kept(entry) = (Kept(symTable[key]) \ {old}) \cup {NewId}
          /\ entry.pseudo => EquivalentFunctions(symbols[old], new)
    BY <1>6 DEF TakesPlace
  <2>2. /\ DOMAIN symTable' = DOMAIN symTable /\ symTable'[key] = entry
        /\ \A k \in DOMAIN symTable : k # key => symTable'[k] = symTable[k]
    <3>1. /\ DOMAIN symTable' = DOMAIN symTable \cup {key} /\ symTable'[key] = entry
          /\ \A k \in DOMAIN symTable : k # key => symTable'[k] = symTable[k]
      BY <2>1, PutKept
    <3>2. DOMAIN symTable \cup {key} = DOMAIN symTable
      OBVIOUS
    <3> QED BY <3>1, <3>2
  <2>3. StaysAside(old, new) => FALSE
    BY <1>1, <1>2, <2>1, <2>2 DEF StaysAside
  <2>4. ASSUME NEW id \in Kept(entry), id # NewId
        PROVE  new.kind = "function" /\ EquivalentFunctions(symbols[old], new)
    <3>1. ~entry.pseudo => Kept(entry) = {entry.ids[1]}
      BY <2>1 DEF WellFormed, Kept
    <3>2. NewId \in Kept(entry)
      BY <2>1
    <3>3. entry.pseudo
      BY <2>4, <3>1, <3>2
    <3>4. new.kind = "function"
      BY <2>1, <3>3 DEF WellFormed
    <3> QED BY <2>1, <3>3, <3>4
  <2>5. ASSUME NEW k \in DOMAIN symTable, NEW id \in Kept(symTable'[k])
        PROVE  \/ k = key /\ id = NewId
               \/ id \in Kept(symTable[k]) /\ id \in Ids \ Brothers(old)
    <3>1. CASE k = key
      BY <1>4, <2>1, <2>2, <3>1
    <3>2. CASE k # key
      BY <1>2, <1>4, <2>2, <3>2
    <3> QED BY <3>1, <3>2
  <2>6. \A k \in DOMAIN symTable : \A id \in Kept(symTable[k]) :
          id # old => id \in Kept(symTable'[k])
    BY <2>1, <2>2
  <2> QED BY <1>6, <2>1, <2>2, <2>3, <2>4, <2>5, <2>6
<1> QED BY <1>5, <1>6

LEMMA BuiltinFunctionsKept ==
  ASSUME TableInv, BuiltinFunctions, NEW key, NEW new, Fresh(key, new), Effect(key, new)
  PROVE  BuiltinFunctions'
<1>1. CASE Stops
  BY <1>1 DEF Stops, BuiltinFunctions, Ids
<1>2. CASE Alone(new)
  BY <1>2, AloneBrothers DEF BuiltinFunctions, Fresh
<1>3. CASE Joins(key, new)
  BY <1>3, JoinedBrothers DEF Joins, BuiltinFunctions, SameDeclaration, Fresh
<1> QED BY <1>1, <1>2, <1>3 DEF Effect, Refuses, Enters

\* No declaration is lost: a refused one raises an error.
LEMMA NothingLostKept ==
  ASSUME TableInv, NothingLost, NEW key, NEW new, Fresh(key, new), Effect(key, new)
  PROVE  NothingLost'
<1> SUFFICES ASSUME errors' = 0, NEW id \in Ids'
             PROVE  /\ KeyOf(id)' \in DOMAIN symTable'
                    /\ Kept(symTable'[KeyOf(id)']) \cap Brothers(id)' # {}
                    /\ id \in flushed_list' \/ id \in Kept(symTable'[KeyOf(id)'])
  BY DEF NothingLost, Kept
<1>1. /\ errors = 0
      /\ \A i \in Ids : /\ KeyOf(i) \in DOMAIN symTable
                        /\ Kept(symTable[KeyOf(i)]) \cap Brothers(i) # {}
                        /\ i \in flushed_list \/ i \in Kept(symTable[KeyOf(i)])
  BY DEF Effect, NothingLost
<1>2. Enters(key, new) \/ Joins(key, new)
  BY DEF Effect, Stops, Refuses
<1>3. CASE Enters(key, new)
  <2>1. Alone(new) /\ UNCHANGED flushed_list
    BY <1>3 DEF Enters
  <2>2. /\ DOMAIN symTable' = DOMAIN symTable \cup {key}
        /\ NewId \in Kept(symTable'[key])
        /\ \A k \in DOMAIN symTable : Kept(symTable[k]) \subseteq Kept(symTable'[k])
    BY <1>3, EnteredKept
  <2>3. CASE id \in Ids
    BY <1>1, <2>1, <2>2, <2>3, AloneBrothers
  <2>4. CASE id = NewId
    <3>1. KeyOf(id)' = key /\ Brothers(id)' = {NewId}
      BY <2>1, <2>4, AloneBrothers
    <3> QED BY <2>2, <2>4, <3>1
  <2>5. Ids' = Ids \cup {NewId}
    BY <2>1, AloneBrothers
  <2> QED BY <2>3, <2>4, <2>5
<1>4. CASE Joins(key, new)
  <2>1. PICK old \in Kept(symTable[key]) :
          StoreAsBrother(old, new) /\ (StaysAside(old, new) \/ TakesPlace(key, old, new))
    BY <1>4 DEF Joins
  <2>2. key \in DOMAIN symTable
    BY <1>4 DEF Joins
  <2>3. /\ Ids' = Ids \cup {NewId} /\ old \in Ids /\ \A i \in Ids : KeyOf(i)' = KeyOf(i)
        /\ \A i \in {NewId} : KeyOf(i)' = key
        /\ \A i \in Brothers(old) \cup {NewId} : Brothers(i)' = Brothers(old) \cup {NewId}
        /\ \A i \in Ids \ Brothers(old) : Brothers(i)' = Brothers(i)
    BY <2>1, <2>2, JoinedBrothers
  <2>4. /\ DOMAIN symTable' = DOMAIN symTable
        /\ \A k \in DOMAIN symTable : \A i \in Kept(symTable[k]) :
             i # old => i \in Kept(symTable'[k])
        /\ StaysAside(old, new) => symTable' = symTable
        /\ TakesPlace(key, old, new) => NewId \in Kept(symTable'[key])
    BY <2>1, <2>2, JoinedKept
  <2>5. /\ flushed_list \subseteq flushed_list'
        /\ NewId \in flushed_list' \/ NewId \in Kept(symTable'[key])
        /\ old \in flushed_list' \/ old \in Kept(symTable'[key])
        /\ old \in Kept(symTable'[key]) \/ NewId \in Kept(symTable'[key])
    BY <2>1, <2>4 DEF StaysAside, TakesPlace
  <2>6. /\ KeyOf(old) = key /\ old \in Brothers(old)
        /\ \A i \in Brothers(old) : KeyOf(i) = key /\ i \in Ids
        /\ \A i \in Ids : old \in Brothers(i) => i \in Brothers(old)
    <3>1. KeyOf(old) = key
      BY <2>1, <2>2 DEF TableInv, KeptOK
    <3> QED BY <2>3, <3>1, BrothersRelation DEF BrothersAreOneEntity
  <2>7. CASE id \in Brothers(old) \cup {NewId}
    <3>1. KeyOf(id)' = key /\ Brothers(id)' = Brothers(old) \cup {NewId}
      BY <2>3, <2>6, <2>7
    <3>2. id \in flushed_list' \/ id \in Kept(symTable'[key])
      <4>1. CASE id \in {old, NewId}
        BY <2>5, <4>1
      <4>2. CASE id \in Brothers(old) /\ id # old
        BY <1>1, <2>2, <2>4, <2>5, <2>6, <4>2
      <4> QED BY <2>7, <4>1, <4>2
    <3> QED BY <2>2, <2>4, <2>5, <2>6, <3>1, <3>2
  <2>8. CASE id \in Ids \ Brothers(old)
    <3>1. /\ KeyOf(id)' = KeyOf(id) /\ Brothers(id)' = Brothers(id)
          /\ old \notin Brothers(id) /\ id # old /\ KeyOf(id) \in DOMAIN symTable
      BY <1>1, <2>3, <2>6, <2>8
    <3> QED BY <1>1, <2>4, <2>5, <2>8, <3>1
  <2> QED BY <2>3, <2>7, <2>8
<1> QED BY <1>2, <1>3, <1>4

\* A definition is not hidden: only a definition takes the place of a symbol,
\* and one that does not has a definition before it.
LEMMA DefinitionKept ==
  ASSUME TableInv, FunctionDefinitionKept, NEW key, NEW new, Fresh(key, new), Effect(key, new)
  PROVE  FunctionDefinitionKept'
<1> SUFFICES ASSUME NEW k \in DOMAIN symTable', NEW id \in Kept(symTable'[k]),
                    symbols'[id].kind = "function",
                    NEW b \in Brothers(id)', symbols'[b].isDefinition
             PROVE  symbols'[id].isDefinition
  BY DEF FunctionDefinitionKept, Kept
<1>0. \A m \in DOMAIN symTable : \A i \in Kept(symTable[m]) :
        /\ i \in Ids /\ Brothers(i) \subseteq Ids
        /\ symbols[i].kind = "function" /\ (\E c \in Brothers(i) : symbols[c].isDefinition)
             => symbols[i].isDefinition
  <2>1. \A m \in DOMAIN symTable : Kept(symTable[m]) \subseteq Ids
    BY DEF TableInv, TableTypeOK, Kept
  <2> QED BY <2>1, BrothersRelation DEF FunctionDefinitionKept
<1>1. CASE Stops
  BY <1>0, <1>1 DEF Stops, Brothers
<1>2. CASE Refuses(new)
  BY <1>0, <1>2, AloneBrothers DEF Refuses
<1>3. CASE Enters(key, new)
  <2>1. Alone(new)
    BY <1>3 DEF Enters
  <2>2. \/ k = key /\ id = NewId
        \/ k \in DOMAIN symTable /\ id \in Kept(symTable[k]) /\ id \in Ids
    BY <1>3, EnteredKept
  <2>3. CASE id = NewId
    BY <2>1, <2>3, AloneBrothers
  <2>4. CASE k \in DOMAIN symTable /\ id \in Kept(symTable[k]) /\ id \in Ids
    BY <1>0, <2>1, <2>4, AloneBrothers
  <2> QED BY <2>2, <2>3, <2>4
<1>4. CASE Joins(key, new)
  <2>1. PICK old \in Kept(symTable[key]) :
          StoreAsBrother(old, new) /\ (StaysAside(old, new) \/ TakesPlace(key, old, new))
    BY <1>4 DEF Joins
  <2>2. key \in DOMAIN symTable
    BY <1>4 DEF Joins
  <2>3. /\ old \in Ids
        /\ \A i \in Ids : SameDeclaration(symbols'[i], symbols[i])
        /\ SameDeclaration(symbols'[NewId], new)
        /\ \A i \in Brothers(old) \cup {NewId} : Brothers(i)' = Brothers(old) \cup {NewId}
        /\ \A i \in Ids \ Brothers(old) : Brothers(i)' = Brothers(i)
    BY <2>1, <2>2, JoinedBrothers
  <2>4. /\ k \in DOMAIN symTable
        /\ \/ k = key /\ id = old /\ StaysAside(old, new)
           \/ k = key /\ id = NewId /\ TakesPlace(key, old, new)
           \/ id \in Kept(symTable[k]) /\ id \in Ids \ Brothers(old)
    BY <2>1, <2>2, JoinedKept
  <2>5. CASE id = old /\ StaysAside(old, new)
    <3>1. old \in Brothers(old) /\ b \in Brothers(old) \cup {NewId} /\ Brothers(old) \subseteq Ids
      BY <2>3, <2>5, BrothersRelation
    <3>2. symbols[old].isDefinition
      <4>1. CASE b = NewId
        BY <2>3, <2>5, <4>1 DEF StaysAside, SameDeclaration
      <4>2. CASE b \in Brothers(old)
        BY <1>0, <2>2, <2>3, <2>5, <3>1, <4>2 DEF SameDeclaration
      <4> QED BY <3>1, <4>1, <4>2
    <3> QED BY <2>3, <2>5, <3>2 DEF SameDeclaration
  <2>6. CASE id = NewId /\ TakesPlace(key, old, new)
    BY <2>3, <2>6 DEF TakesPlace, SameDeclaration
  <2>7. CASE id \in Kept(symTable[k]) /\ id \in Ids \ Brothers(old)
    <3>1. b \in Brothers(id) /\ b \in Ids
      BY <1>0, <2>3, <2>4, <2>7
    <3> QED BY <1>0, <2>3, <2>4, <2>7, <3>1 DEF SameDeclaration
  <2> QED BY <2>4, <2>5, <2>6, <2>7
<1> QED BY <1>1, <1>2, <1>3, <1>4 DEF Effect

\* Overloads stay apart, though being equivalent is not transitive: the
\* parameters of a definition that takes a place are known.
LEMMA OverloadsKept ==
  ASSUME TableInv, OverloadsDiffer, NEW key, NEW new, Fresh(key, new), Effect(key, new)
  PROVE  OverloadsDiffer'
<1> SUFFICES ASSUME NEW k \in DOMAIN symTable', NEW a \in Kept(symTable'[k]),
                    NEW b \in Kept(symTable'[k]), a # b
             PROVE  ~EquivalentFunctions(symbols'[a], symbols'[b])
  BY DEF OverloadsDiffer, Kept, EquivalentFunctions
<1>0. \A m \in DOMAIN symTable : \A c, d \in Kept(symTable[m]) :
        c \in Ids /\ (c # d => ~EquivalentFunctions(symbols[c], symbols[d]))
  <2>1. \A m \in DOMAIN symTable : Kept(symTable[m]) \subseteq Ids
    BY DEF TableInv, TableTypeOK, Kept
  <2> QED BY <2>1 DEF OverloadsDiffer
<1>1. CASE Stops
  BY <1>0, <1>1 DEF Stops
<1>2. CASE Refuses(new)
  BY <1>0, <1>2, AloneBrothers DEF Refuses
<1>3. CASE Enters(key, new)
  <2>1. Alone(new)
    BY <1>3 DEF Enters
  <2>2. \A c \in Kept(symTable'[k]) :
          \/ k = key /\ c = NewId
          \/ k \in DOMAIN symTable /\ c \in Kept(symTable[k]) /\ c \in Ids
    BY <1>3, EnteredKept
  <2>3. k = key /\ k \in DOMAIN symTable =>
          \A c \in Kept(symTable[k]) : ~EquivalentFunctions(symbols[c], new)
    BY <1>3, EnteredKept
  <2>4. symbols'[NewId] = new /\ \A c \in Ids : symbols'[c] = symbols[c]
    BY <2>1, AloneBrothers
  <2> QED BY <1>0, <2>2, <2>3, <2>4 DEF EquivalentFunctions
<1>4. CASE Joins(key, new)
  <2>1. PICK old \in Kept(symTable[key]) :
          StoreAsBrother(old, new) /\ (StaysAside(old, new) \/ TakesPlace(key, old, new))
    BY <1>4 DEF Joins
  <2>2. key \in DOMAIN symTable
    BY <1>4 DEF Joins
  <2>3. /\ old \in Ids /\ old \in Brothers(old)
        /\ \A i \in Ids : symbols'[i].type = symbols[i].type
        /\ symbols'[NewId].type = new.type
    BY <2>1, <2>2, JoinedBrothers, BrothersRelation DEF SameDeclaration
  <2>4. /\ k \in DOMAIN symTable
        /\ \A c \in {a, b} :
             \/ c \in Kept(symTable[k]) /\ c \in Ids
             \/ k = key /\ c = NewId /\ TakesPlace(key, old, new)
    BY <2>1, <2>2, <2>3, JoinedKept
  <2>5. ASSUME TakesPlace(key, old, new), k = key,
               NEW c \in {a, b}, c \in Kept(symTable[key]), c # NewId
        PROVE  symbols[c].type # new.type /\ AnyParams \notin {symbols[c].type, new.type}
    <3>1. EquivalentFunctions(symbols[old], new) /\ new.isDefinition
      BY <2>1, <2>2, <2>5, JoinedKept DEF TakesPlace
    <3>2. new.type # AnyParams
      BY <3>1 DEF Fresh
    <3>3. c # old
      <4>1. c \in Kept(symTable'[key]) /\ ~StaysAside(old, new)
        <5>1. StaysAside(old, new) => symTable' = symTable
          BY DEF StaysAside
        <5>2. NewId \in Kept(symTable'[key]) /\ NewId \notin Kept(symTable[key])
          BY <1>0, <2>1, <2>2, <2>5, JoinedKept, JoinedBrothers
        <5> QED BY <2>5, <5>1, <5>2
      <4>2. c \in Ids \ Brothers(old)
        BY <2>1, <2>2, <2>5, <4>1, JoinedKept
      <4> QED BY <2>3, <4>2
    <3>4. ~EquivalentFunctions(symbols[c], symbols[old])
      BY <1>0, <2>1, <2>2, <2>5, <3>3
    <3> QED BY <3>1, <3>2, <3>4 DEF EquivalentFunctions
  <2>6. CASE a \in Kept(symTable[k]) /\ b \in Kept(symTable[k])
    BY <1>0, <2>3, <2>4, <2>6 DEF EquivalentFunctions
  <2>7. CASE /\ k = key /\ TakesPlace(key, old, new)
             /\ \/ a = NewId /\ b \in Kept(symTable[k])
                \/ b = NewId /\ a \in Kept(symTable[k])
    BY <1>0, <2>3, <2>4, <2>5, <2>7 DEF EquivalentFunctions
  <2> QED BY <2>4, <2>6, <2>7
<1> QED BY <1>1, <1>2, <1>3, <1>4 DEF Effect

LEMMA InitInv == Init => IInv
<1> SUFFICES ASSUME Init PROVE IInv
  OBVIOUS
<1>1. symbols = << >> /\ vectors = << >> /\ DOMAIN symTable = {} /\ flushed_list = {}
  BY DEF Init
<1>2. Ids = {} /\ 1..Len(vectors) = {}
  BY <1>1 DEF Ids
<1>3. TableTypeOK
  BY <1>1, <1>2, EmptySeq DEF Init, TableTypeOK
<1>4. KeptOK /\ VectorsOK /\ OneKept /\ FlushedOK
  BY <1>1, <1>2 DEF KeptOK, VectorsOK, OneKept, FlushedOK
<1>5. ScopesTypeOK
  <2>1. scopeStack = << >> /\ context = << >> /\ Len(<< >>) = 0 /\ 1..0 = {}
    BY DEF Init
  <2>2. << >> \in Seq(ScopeNames) /\ << >> \in Seq(Contexts)
    BY EmptySeq
  <2>3. 0 \in 0..MaxPushes
    BY SymbolTableAssumption
  <2> QED BY <2>1, <2>2, <2>3 DEF Init, ScopesTypeOK, Contexts
<1>6. /\ BuiltinFunctions /\ NothingLost /\ FunctionDefinitionKept /\ OverloadsDiffer
  BY <1>1, <1>2 DEF BuiltinFunctions, NothingLost, FunctionDefinitionKept, OverloadsDiffer
<1> QED BY <1>3, <1>4, <1>5, <1>6 DEF IInv, TableInv, Init

LEMMA StepInv == IInv /\ [Next]_vars => IInv'
<1> SUFFICES ASSUME IInv, [Next]_vars PROVE IInv'
  OBVIOUS
<1>1. Walks
  BY StepEffect DEF IInv
<1>2. CASE Declares
  BY <1>1, <1>2, EffectInv, BuiltinFunctionsKept, NothingLostKept, DefinitionKept, OverloadsKept
     DEF Declares, Walks, IInv
<1>3. CASE UNCHANGED table
  <2>1. TableInv'
    <3>1. errors' \in Nat /\ aborted' \in BOOLEAN
      BY <1>3 DEF table, IInv, TableInv, TableTypeOK
    <3> QED BY <1>3, <3>1, UntouchedInv DEF table, IInv
  <2>2. BuiltinFunctions' /\ OverloadsDiffer'
    BY <1>3 DEF table, IInv, BuiltinFunctions, Ids, OverloadsDiffer, Kept
  <2>3. NothingLost'
    <3>1. /\ UNCHANGED <<symTable, flushed_list, errors>> /\ Ids' = Ids
          /\ \A id : KeyOf(id)' = KeyOf(id) /\ Brothers(id)' = Brothers(id)
      BY <1>3 DEF table, Ids, KeyOf, Brothers
    <3> QED BY <3>1 DEF IInv, NothingLost, Kept
  <2>4. FunctionDefinitionKept'
    BY <1>3 DEF table, IInv, FunctionDefinitionKept, Kept, Brothers
  <2> QED BY <1>1, <2>1, <2>2, <2>3, <2>4 DEF Walks, IInv
<1> QED BY <1>1, <1>2, <1>3 DEF Walks

LEMMA AlwaysIInv == Spec => []IInv
<1>1. Init => IInv
  BY InitInv
<1>2. IInv /\ [Next]_vars => IInv'
  BY StepInv
<1> QED BY <1>1, <1>2, PTL DEF Spec

-----------------------------------------------------------------------------
(* The stack of frames that the table stands for.                           *)

LEMMA Prefix ==
  ASSUME NEW S, NEW s \in Seq(S), NEW k \in 0..Len(s)
  PROVE  /\ SubSeq(s, 1, k) \in Seq(S) /\ Len(SubSeq(s, 1, k)) = k
         /\ \A i \in 1..k : SubSeq(s, 1, k)[i] = s[i]
         /\ k = Len(s) => SubSeq(s, 1, k) = s
<1>1. k \in Int /\ Len(s) \in Nat /\ \A i \in 1..k : s[i] \in S
  BY LenProperties, ElementOfSeq
<1>2. /\ SubSeq(s, 1, k) \in Seq(S)
      /\ Len(SubSeq(s, 1, k)) = IF 1 <= k THEN k - 1 + 1 ELSE 0
      /\ \A i \in 1..(k - 1 + 1) : SubSeq(s, 1, k)[i] = s[1 + i - 1]
  BY <1>1, SubSeqProperties
<1>3. Len(SubSeq(s, 1, k)) = k /\ \A i \in 1..k : SubSeq(s, 1, k)[i] = s[i]
  BY <1>1, <1>2
<1> QED BY <1>2, <1>3, SeqEqual

LEMMA PrefixOfLonger ==
  ASSUME NEW S, NEW s \in Seq(S), NEW r \in Seq(S), NEW k \in 0..Len(s), Len(s) <= Len(r),
         \A i \in 1..Len(s) : r[i] = s[i]
  PROVE  SubSeq(r, 1, k) = SubSeq(s, 1, k)
<1>1. Len(s) \in Nat /\ Len(r) \in Nat /\ k \in 0..Len(r)
  BY LenProperties
<1>2. /\ SubSeq(s, 1, k) \in Seq(S) /\ Len(SubSeq(s, 1, k)) = k
      /\ \A i \in 1..k : SubSeq(s, 1, k)[i] = s[i]
  BY Prefix
<1>3. /\ SubSeq(r, 1, k) \in Seq(S) /\ Len(SubSeq(r, 1, k)) = k
      /\ \A i \in 1..k : SubSeq(r, 1, k)[i] = r[i]
  BY <1>1, Prefix
<1>4. \A i \in 1..k : SubSeq(r, 1, k)[i] = SubSeq(s, 1, k)[i]
  BY <1>1, <1>2, <1>3
<1> QED BY <1>2, <1>3, <1>4, SeqEqual

\* Functions on an initial segment are sequences.
LEMMA Segments ==
  ASSUME NEW S, NEW m \in Nat, NEW f \in [1..m -> S]
  PROVE  f \in Seq(S) /\ Len(f) = m
OBVIOUS

LEMMA LongerByOne ==
  ASSUME NEW S, NEW m \in Nat, NEW f \in [1..m -> S], NEW g \in [1..(m + 1) -> S],
         NEW e \in S, \A i \in 1..m : g[i] = f[i], g[m + 1] = e
  PROVE  g = Append(f, e)
<1>1. /\ f \in Seq(S) /\ Len(f) = m
      /\ g \in Seq(S) /\ Len(g) = m + 1
  BY Segments
<1>2. /\ Append(f, e) \in Seq(S) /\ Len(Append(f, e)) = m + 1
      /\ \A i \in 1..m : Append(f, e)[i] = f[i]
      /\ Append(f, e)[m + 1] = e
  BY <1>1, AppendProperties
<1>3. \A i \in 1..(m + 1) : g[i] = Append(f, e)[i]
  BY <1>2
<1> QED BY <1>1, <1>2, <1>3, SeqEqual

LEMMA ShorterByOne ==
  ASSUME NEW S, NEW m \in Nat, NEW f \in [1..(m + 1) -> S], NEW g \in [1..m -> S],
         \A i \in 1..m : g[i] = f[i]
  PROVE  Len(f) = m + 1 /\ g = SubSeq(f, 1, m)
<1>1. /\ f \in Seq(S) /\ Len(f) = m + 1
      /\ g \in Seq(S) /\ Len(g) = m
  BY Segments
<1>2. /\ SubSeq(f, 1, m) \in Seq(S) /\ Len(SubSeq(f, 1, m)) = m
      /\ \A i \in 1..m : SubSeq(f, 1, m)[i] = f[i]
  BY <1>1, Prefix
<1> QED BY <1>1, <1>2, SeqEqual

\* The scopes that have been opened: their numbers are taken.  The scope of a
\* function definition has its number before the body consumes it.
Defining == \E i \in 1..Len(context) : context[i] \in {"params", "oldstyle"}
Used(scope) ==
  \/ \E n \in Nat : n < unnamedScopeCounter /\ scope = BlockScope(n)
  \/ \E n \in Nat : n < paramlist_number /\ scope = ParamListScope(n)
  \/ \E n \in Nat, name \in Names :
       /\ n < functiondef_number \/ (n = functiondef_number /\ Defining)
       /\ scope = FunctionDefScope(n, name)
UsedScopes == {scope \in ScopeNames : Used(scope)}

\* Whatever holds a declaration has been opened.
PathsUsed ==
  /\ \A i \in 1..Len(scopeStack) : scopeStack[i] \in UsedScopes
  /\ \A key \in DOMAIN symTable : \A i \in 1..Len(key[1]) : key[1][i] \in UsedScopes

\* In a function definition, before its body, only parameter lists are opened,
\* and its number is the next one.
DefinitionInnermost ==
  \A i \in 1..Len(context) : context[i] \in {"params", "oldstyle"} =>
    /\ \A j \in 1..Len(context) : j > i => context[j] = "paramlist"
    /\ \E name \in Names : scopeStack[i] = FunctionDefScope(functiondef_number, name)

ScopesInv == PathsUsed /\ DefinitionInnermost

LEMMA NotDefining ==
  ASSUME ScopesTypeOK, DefinitionInnermost, isTopLevel \/ AtStatement
  PROVE  ~Defining
<1>1. /\ Len(context) \in Nat /\ Len(context) = Len(scopeStack)
      /\ context # << >> => Len(context) \in Nat \ {0}
  BY EmptySeq, LenProperties DEF ScopesTypeOK
<1>2. CASE isTopLevel
  BY <1>1, <1>2 DEF isTopLevel, Defining
<1>3. CASE AtStatement
  <2>1. Len(context) \in 1..Len(context) /\ context[Len(context)] \in {"block", "body"}
    BY <1>1, <1>3 DEF AtStatement, In
  <2>2. SUFFICES ASSUME NEW i \in 1..Len(context), context[i] \in {"params", "oldstyle"}
                 PROVE  FALSE
    BY DEF Defining
  <2>3. i < Len(context)
    BY <1>1, <2>1, <2>2
  <2> QED BY <1>1, <2>1, <2>2, <2>3 DEF DefinitionInnermost
<1> QED BY <1>2, <1>3

\* The scopes are told apart by their sort and number.
LEMMA ScopesDiffer ==
  ASSUME NEW m, NEW n, NEW x, NEW y
  PROVE  /\ BlockScope(m) # ParamListScope(n) /\ BlockScope(m) # FunctionDefScope(n, y)
         /\ ParamListScope(m) # FunctionDefScope(n, y)
         /\ BlockScope(m) = BlockScope(n) => m = n
         /\ ParamListScope(m) = ParamListScope(n) => m = n
         /\ FunctionDefScope(m, x) = FunctionDefScope(n, y) => m = n /\ x = y
BY DEF BlockScope, ParamListScope, FunctionDefScope

\* The name of a scope about to be opened is that of no scope before.
LEMMA NextScopeUnused ==
  ASSUME ScopesTypeOK
  PROVE  /\ BlockScope(unnamedScopeCounter) \notin UsedScopes
         /\ ParamListScope(paramlist_number) \notin UsedScopes
         /\ ~Defining => \A name : FunctionDefScope(functiondef_number, name) \notin UsedScopes
<1>1. /\ unnamedScopeCounter \in Nat /\ paramlist_number \in Nat /\ functiondef_number \in Nat
  BY SymbolTableAssumption DEF ScopesTypeOK
<1>2. ~Used(BlockScope(unnamedScopeCounter))
  BY <1>1, ScopesDiffer DEF Used
<1>3. ~Used(ParamListScope(paramlist_number))
  BY <1>1, ScopesDiffer DEF Used
<1>4. ASSUME ~Defining, NEW name PROVE ~Used(FunctionDefScope(functiondef_number, name))
  BY <1>1, <1>4, ScopesDiffer DEF Used
<1> QED BY <1>2, <1>3, <1>4 DEF UsedScopes

\* What the table says a name is in a scope.
KindUnder(key) == symbols[symTable[key].ids[1]].kind

LEMMA KindsUnder ==
  ASSUME TableInv, NEW key \in DOMAIN symTable
  PROVE  /\ symTable[key].ids[1] \in Kept(symTable[key]) /\ symTable[key].ids[1] \in Ids
         /\ \A id \in Kept(symTable[key]) : id \in Ids /\ symbols[id].kind = KindUnder(key)
         /\ KindUnder(key) \in SymbolKinds
<1> DEFINE ids == symTable[key].ids
<1>1. /\ ids \in Seq(Ids) /\ ids # << >> /\ symTable[key].pseudo \in BOOLEAN
  BY DEF TableInv, TableTypeOK
<1>2. Len(ids) \in Nat \ {0} /\ \A i \in 1..Len(ids) : ids[i] \in Ids
  BY <1>1, EmptySeq, ElementOfSeq
<1>3. /\ symTable[key].pseudo => \A id \in Kept(symTable[key]) : symbols[id].kind = "function"
      /\ ~symTable[key].pseudo => Len(ids) = 1
  BY DEF TableInv, KeptOK
<1>4. Kept(symTable[key]) = {ids[i] : i \in 1..Len(ids)}
  BY DEF Kept
<1> HIDE DEF ids
<1>5. ids[1] \in Kept(symTable[key]) /\ Kept(symTable[key]) \subseteq Ids
  BY <1>2, <1>4
<1>6. KindUnder(key) = symbols[ids[1]].kind
  BY DEF KindUnder, ids
<1>7. \A id \in Kept(symTable[key]) : symbols[id].kind = KindUnder(key)
  <2>1. CASE symTable[key].pseudo
    BY <1>3, <1>5, <1>6, <2>1
  <2>2. CASE ~symTable[key].pseudo
    BY <1>3, <1>4, <1>6, <2>2
  <2> QED BY <2>1, <2>2
<1>8. symbols[ids[1]].kind \in SymbolKinds
  <2>1. symbols[ids[1]] \in SymbolType(Len(vectors))
    <3>1. symbols \in Seq(SymbolType(Len(vectors)))
      BY DEF TableInv, TableTypeOK
    <3> QED BY <1>5, <3>1, ElementOfSeq DEF Ids
  <2> QED BY <2>1 DEF SymbolType, SymbolKinds
<1> QED BY <1>5, <1>6, <1>7, <1>8 DEF ids

\* A declaration enters its key at most, and what a name is never changes.
LEMMA EffectKinds ==
  ASSUME TableInv, NEW key, NEW new, Fresh(key, new), Effect(key, new)
  PROVE  /\ DOMAIN symTable \subseteq DOMAIN symTable'
         /\ DOMAIN symTable' \subseteq DOMAIN symTable \cup {key}
         /\ \A k \in DOMAIN symTable : KindUnder(k)' = KindUnder(k)
         /\ key \in DOMAIN symTable' \ DOMAIN symTable => KindUnder(key)' = new.kind
<1> DEFINE Kinds2 == \A id \in Ids : symbols'[id].kind = symbols[id].kind
<1>0. TableTypeOK /\ new \in SymbolType(0)
  BY DEF TableInv, Fresh
<1>1. ASSUME UNCHANGED symTable, Kinds2
      PROVE  /\ DOMAIN symTable' = DOMAIN symTable
             /\ \A k \in DOMAIN symTable : KindUnder(k)' = KindUnder(k)
  BY <1>1, KindsUnder DEF KindUnder
<1>2. ASSUME NEW entry, Put(key, entry), WellFormed(entry, new), Kinds2,
             \A id \in Kept(entry) : symbols'[id].kind = new.kind,
             key \in DOMAIN symTable => new.kind = KindUnder(key)
      PROVE  /\ DOMAIN symTable' = DOMAIN symTable \cup {key}
             /\ \A k \in DOMAIN symTable : KindUnder(k)' = KindUnder(k)
             /\ KindUnder(key)' = new.kind
  <2>1. /\ DOMAIN symTable' = DOMAIN symTable \cup {key} /\ symTable'[key] = entry
        /\ \A k \in DOMAIN symTable : k # key => symTable'[k] = symTable[k]
    BY <1>2 DEF Put
  <2>2. entry.ids[1] \in Kept(entry)
    <3>1. entry.ids \in Seq(Ids \cup {NewId}) /\ entry.ids # << >>
      BY <1>2 DEF WellFormed
    <3>2. Len(entry.ids) \in Nat \ {0}
      BY <3>1, EmptySeq
    <3> QED BY <3>2 DEF Kept
  <2>3. KindUnder(key)' = new.kind
    BY <1>2, <2>1, <2>2 DEF KindUnder
  <2>4. \A k \in DOMAIN symTable : k # key => KindUnder(k)' = KindUnder(k)
    BY <1>2, <2>1, KindsUnder DEF KindUnder
  <2> QED BY <1>2, <2>1, <2>3, <2>4
<1>3. CASE Stops
  <2>1. Kinds2
    BY <1>3 DEF Stops
  <2> QED BY <1>1, <1>3, <2>1 DEF Stops
<1>4. CASE Refuses(new)
  <2>1. Kinds2
    BY <1>0, <1>4, StoreAloneEffect DEF Refuses, Alone
  <2> QED BY <1>1, <1>4, <2>1 DEF Refuses
<1>5. CASE Enters(key, new)
  <2>1. Kinds2 /\ symbols'[NewId] = new
    BY <1>0, <1>5, StoreAloneEffect DEF Enters, Alone
  <2>2. PICK entry :
          /\ WellFormed(entry, new) /\ Put(key, entry)
          /\ \/ key \notin DOMAIN symTable /\ Kept(entry) = {NewId}
             \/ /\ key \in DOMAIN symTable /\ entry.pseudo /\ symTable[key].pseudo
                /\ Kept(entry) = Kept(symTable[key]) \cup {NewId}
    BY <1>5 DEF Enters
  <2>3. CASE key \notin DOMAIN symTable
    BY <1>2, <2>1, <2>2, <2>3
  <2>4. CASE key \in DOMAIN symTable
    <3>1. new.kind = "function" /\ KindUnder(key) = "function"
      BY <2>2, <2>4, KindsUnder DEF WellFormed, TableInv, KeptOK
    <3>2. \A id \in Kept(entry) : symbols'[id].kind = new.kind
      BY <2>1, <2>2, <2>4, <3>1, KindsUnder
    <3> QED BY <1>2, <2>1, <2>2, <3>1, <3>2
  <2> QED BY <2>3, <2>4
<1>6. CASE Joins(key, new)
  <2>1. PICK old \in Kept(symTable[key]) :
          /\ symbols[old].kind = new.kind /\ StoreAsBrother(old, new)
          /\ StaysAside(old, new) \/ TakesPlace(key, old, new)
    BY <1>6 DEF Joins
  <2>2. key \in DOMAIN symTable /\ old \in Ids /\ KindUnder(key) = new.kind
    BY <1>6, <2>1, KindsUnder DEF Joins
  <2>3. Kinds2 /\ symbols'[NewId].kind = new.kind
    BY <1>0, <2>1, <2>2, StoreAsBrotherEffect
  <2>4. CASE StaysAside(old, new)
    BY <1>1, <2>2, <2>3, <2>4 DEF StaysAside
  <2>5. CASE TakesPlace(key, old, new)
    <3>1. PICK entry :
            /\ WellFormed(entry, new) /\ Put(key, entry)
            /\ Kept(entry) = (Kept(symTable[key]) \ {old}) \cup {NewId}
      BY <2>5 DEF TakesPlace
    <3>2. \A id \in Kept(entry) : symbols'[id].kind = new.kind
      BY <2>2, <2>3, <3>1, KindsUnder
    <3> QED BY <1>2, <2>2, <2>3, <3>1, <3>2
  <2> QED BY <2>1, <2>4, <2>5
<1> QED BY <1>3, <1>4, <1>5, <1>6 DEF Effect

-----------------------------------------------------------------------------
(* The numbers of the scopes.                                               *)

LEMMA UsedKept ==
  ASSUME ScopesTypeOK, ScopesTypeOK',
         unnamedScopeCounter <= unnamedScopeCounter', paramlist_number <= paramlist_number',
         functiondef_number <= functiondef_number',
         Defining => Defining' \/ functiondef_number < functiondef_number'
  PROVE  UsedScopes \subseteq UsedScopes'
<1> SUFFICES ASSUME NEW scope \in ScopeNames, Used(scope) PROVE Used(scope)'
  BY DEF UsedScopes
<1>1. /\ unnamedScopeCounter \in Nat /\ paramlist_number \in Nat /\ functiondef_number \in Nat
      /\ unnamedScopeCounter' \in Nat /\ paramlist_number' \in Nat /\ functiondef_number' \in Nat
  BY SymbolTableAssumption DEF ScopesTypeOK
<1>2. CASE \E n \in Nat : n < unnamedScopeCounter /\ scope = BlockScope(n)
  BY <1>1, <1>2 DEF Used
<1>3. CASE \E n \in Nat : n < paramlist_number /\ scope = ParamListScope(n)
  BY <1>1, <1>3 DEF Used
<1>4. ASSUME NEW n \in Nat, NEW name \in Names,
             n < functiondef_number \/ (n = functiondef_number /\ Defining),
             scope = FunctionDefScope(n, name)
      PROVE  Used(scope)'
  <2>1. n < functiondef_number' \/ (n = functiondef_number' /\ Defining')
    BY <1>1, <1>4
  <2> QED BY <1>4, <2>1 DEF Used
<1> QED BY <1>2, <1>3, <1>4 DEF Used

LEMMA PushedUsed ==
  ASSUME ScopesTypeOK, PathsUsed, NEW scope \in UsedScopes',
         UsedScopes \subseteq UsedScopes',
         UNCHANGED symTable, scopeStack' = Append(scopeStack, scope)
  PROVE  PathsUsed'
<1>1. /\ scopeStack \in Seq(ScopeNames) /\ Len(scopeStack) \in Nat /\ scope \in ScopeNames
  BY LenProperties DEF ScopesTypeOK, UsedScopes
<1>2. /\ Len(scopeStack') = Len(scopeStack) + 1
      /\ \A i \in 1..Len(scopeStack) : scopeStack'[i] = scopeStack[i]
      /\ scopeStack'[Len(scopeStack) + 1] = scope
  BY <1>1, AppendProperties
<1> HIDE DEF UsedScopes
<1>3. \A i \in 1..Len(scopeStack') : scopeStack'[i] \in UsedScopes'
  <2> SUFFICES ASSUME NEW i \in 1..Len(scopeStack') PROVE scopeStack'[i] \in UsedScopes'
    OBVIOUS
  <2>1. CASE i \in 1..Len(scopeStack)
    BY <1>2, <2>1 DEF PathsUsed
  <2>2. CASE i = Len(scopeStack) + 1
    BY <1>2, <2>2
  <2> QED BY <1>1, <1>2, <2>1, <2>2
<1>4. \A key \in DOMAIN symTable' : \A i \in 1..Len(key[1]) : key[1][i] \in UsedScopes'
  BY DEF PathsUsed
<1> QED BY <1>3, <1>4 DEF PathsUsed

LEMMA DeclaredUsed ==
  ASSUME ScopesTypeOK, TableInv, PathsUsed, Declares, UNCHANGED scopeStack,
         UsedScopes \subseteq UsedScopes'
  PROVE  PathsUsed'
<1>1. PICK key, new : Fresh(key, new) /\ Placed(key, new) /\ Effect(key, new)
  BY DEF Declares
<1>2. DOMAIN symTable' \subseteq DOMAIN symTable \cup {key}
  BY <1>1, EffectKinds
<1>3. \A i \in 1..Len(key[1]) : key[1][i] \in UsedScopes
  <2>1. CASE key[1] = scopeStack
    BY <2>1 DEF PathsUsed
  <2>2. CASE In("params") /\ key[1] = Front(scopeStack)
    <3>1. scopeStack \in Seq(ScopeNames) /\ context # << >>
      BY <2>2 DEF ScopesTypeOK, In
    <3>2. scopeStack # << >>
      BY <3>1, PoppedScopes
    <3>3. /\ Len(Front(scopeStack)) = Len(scopeStack) - 1 /\ Len(scopeStack) \in Nat \ {0}
          /\ \A i \in 1..Len(Front(scopeStack)) : Front(scopeStack)[i] = scopeStack[i]
      BY <3>1, <3>2, FrontProperties
    <3> QED BY <2>2, <3>3 DEF PathsUsed
  <2> QED BY <1>1, <2>1, <2>2 DEF Placed
<1> HIDE DEF UsedScopes
<1>4. \A k \in DOMAIN symTable' : \A i \in 1..Len(k[1]) : k[1][i] \in UsedScopes'
  BY <1>2, <1>3 DEF PathsUsed
<1>5. \A i \in 1..Len(scopeStack') : scopeStack'[i] \in UsedScopes'
  BY DEF PathsUsed
<1> QED BY <1>4, <1>5 DEF PathsUsed

\* What a push leaves in the contexts.
LEMMA PushedContext ==
  ASSUME ScopesTypeOK, NEW scope \in ScopeNames, NEW what \in Contexts,
         scopeStack' = Append(scopeStack, scope), context' = Append(context, what)
  PROVE  /\ Len(context) \in Nat /\ Len(context') = Len(context) + 1
         /\ Len(scopeStack') = Len(context) + 1
         /\ \A i \in 1..Len(context) : context'[i] = context[i] /\ scopeStack'[i] = scopeStack[i]
         /\ context'[Len(context) + 1] = what
         /\ scopeStack'[Len(context) + 1] = scope
         /\ Defining => Defining'
<1>1. /\ scopeStack \in Seq(ScopeNames) /\ context \in Seq(Contexts)
      /\ Len(context) = Len(scopeStack) /\ Len(context) \in Nat
  BY LenProperties DEF ScopesTypeOK, Contexts
<1>2. /\ Len(context') = Len(context) + 1 /\ Len(scopeStack') = Len(scopeStack) + 1
      /\ \A i \in 1..Len(context) : context'[i] = context[i]
      /\ \A i \in 1..Len(scopeStack) : scopeStack'[i] = scopeStack[i]
      /\ context'[Len(context) + 1] = what /\ scopeStack'[Len(scopeStack) + 1] = scope
  BY <1>1, AppendProperties
<1>3. Defining => Defining'
  BY <1>1, <1>2 DEF Defining
<1> QED BY <1>1, <1>2, <1>3

\* A scope is opened where no definition waits for its body.
LEMMA OpenedElsewhere ==
  ASSUME ScopesTypeOK, ~Defining, NEW scope \in ScopeNames, NEW what \in Contexts,
         scopeStack' = Append(scopeStack, scope), context' = Append(context, what),
         what \in {"params", "oldstyle"} =>
           \E name \in Names : scope = FunctionDefScope(functiondef_number', name)
  PROVE  DefinitionInnermost'
<1>1. /\ Len(context) \in Nat /\ Len(context') = Len(context) + 1
      /\ \A i \in 1..Len(context) : context'[i] = context[i]
      /\ context'[Len(context) + 1] = what /\ scopeStack'[Len(context) + 1] = scope
  BY PushedContext
<1>2. ASSUME NEW i \in 1..Len(context'), context'[i] \in {"params", "oldstyle"}
      PROVE  i = Len(context) + 1
  BY <1>1, <1>2 DEF Defining
<1>3. ASSUME NEW i \in 1..Len(context'), context'[i] \in {"params", "oldstyle"}
      PROVE  /\ \A j \in 1..Len(context') : j > i => context'[j] = "paramlist"
             /\ \E name \in Names : scopeStack'[i] = FunctionDefScope(functiondef_number', name)
  <2>1. i = Len(context) + 1
    BY <1>2, <1>3
  <2>2. what \in {"params", "oldstyle"} /\ scopeStack'[i] = scope
    BY <1>1, <1>3, <2>1
  <2>3. \E name \in Names : scopeStack'[i] = FunctionDefScope(functiondef_number', name)
    BY <2>2
  <2>4. \A j \in 1..Len(context') : ~(j > i)
    BY <1>1, <2>1
  <2> QED BY <2>3, <2>4
<1> QED BY <1>3 DEF DefinitionInnermost, FunctionDefScope

\* What a pop leaves in the contexts.
LEMMA PoppedContext ==
  ASSUME ScopesTypeOK, context # << >>, scopeStack' = Front(scopeStack), context' = Front(context),
         ~In("params"), ~In("oldstyle")
  PROVE  /\ Len(context) \in Nat \ {0} /\ Len(context') = Len(context) - 1
         /\ Len(scopeStack') = Len(context) - 1 /\ Len(scopeStack) = Len(context)
         /\ \A i \in 1..Len(context') : context'[i] = context[i] /\ scopeStack'[i] = scopeStack[i]
         /\ Defining => Defining'
<1>1. /\ scopeStack \in Seq(ScopeNames) /\ context \in Seq(Contexts)
      /\ Len(context) = Len(scopeStack)
  BY DEF ScopesTypeOK, Contexts
<1>2. scopeStack # << >>
  BY PoppedScopes
<1>3. /\ Len(context') = Len(context) - 1 /\ Len(scopeStack') = Len(scopeStack) - 1
      /\ Len(context) \in Nat \ {0}
      /\ \A i \in 1..Len(context') : context'[i] = context[i]
      /\ \A i \in 1..Len(scopeStack') : scopeStack'[i] = scopeStack[i]
  BY <1>1, <1>2, FrontProperties
<1>4. Defining => Defining'
  <2>1. context[Len(context)] \notin {"params", "oldstyle"}
    BY DEF In
  <2> QED BY <1>3, <2>1 DEF Defining
<1> QED BY <1>1, <1>3, <1>4

\* The scope of the body is the one of the parameters, opened again.
LEMMA BodyReopens ==
  ASSUME ScopesTypeOK, DefinitionInnermost, EnterBody
  PROVE  /\ scopeStack' = scopeStack /\ context # << >> /\ Len(context) \in Nat \ {0}
         /\ Len(context') = Len(context)
         /\ \A i \in 1..(Len(context) - 1) : context'[i] \notin {"params", "oldstyle"}
         /\ context'[Len(context)] = "body"
<1>1. /\ scopeStack \in Seq(ScopeNames) /\ context \in Seq(Contexts) /\ context # << >>
      /\ Len(context) = Len(scopeStack) /\ context[Len(context)] = "oldstyle"
  BY DEF ScopesTypeOK, Contexts, EnterBody, In
<1> DEFINE n == Len(context)
           top == scopeStack[n]
<1>2. /\ scopeStack # << >> /\ n \in Nat \ {0} /\ n \in 1..n /\ top \in ScopeNames
  BY <1>1, PoppedScopes, EmptySeq, ElementOfSeq
<1>3. PICK name \in Names : top = FunctionDefScope(functiondef_number, name)
  BY <1>1, <1>2 DEF DefinitionInnermost
<1>4. FunctionDefScope(functiondef_number, CurrentFunction) = top
  BY <1>1, <1>3 DEF CurrentFunction, FunctionDefScope
<1>5. /\ scopeStack' = Append(Front(scopeStack), top)
      /\ context' = Append(Front(context), "body")
  BY <1>4 DEF EnterBody
<1>6. /\ Front(scopeStack) \in Seq(ScopeNames) /\ Len(Front(scopeStack)) = n - 1
      /\ \A i \in 1..(n - 1) : Front(scopeStack)[i] = scopeStack[i]
      /\ Front(context) \in Seq(Contexts) /\ Len(Front(context)) = n - 1
      /\ \A i \in 1..(n - 1) : Front(context)[i] = context[i]
  BY <1>1, <1>2, FrontProperties
<1> HIDE DEF n, top
<1>7. /\ scopeStack' \in Seq(ScopeNames) /\ Len(scopeStack') = n
      /\ \A i \in 1..(n - 1) : scopeStack'[i] = scopeStack[i]
      /\ scopeStack'[n] = top
  <2>1. /\ Append(Front(scopeStack), top) \in Seq(ScopeNames)
        /\ Len(Append(Front(scopeStack), top)) = Len(Front(scopeStack)) + 1
        /\ \A i \in 1..Len(Front(scopeStack)) :
             Append(Front(scopeStack), top)[i] = Front(scopeStack)[i]
        /\ Append(Front(scopeStack), top)[Len(Front(scopeStack)) + 1] = top
    BY <1>2, <1>6, AppendProperties
  <2> QED BY <1>2, <1>5, <1>6, <2>1
<1>8. /\ Len(context') = n /\ context'[n] = "body"
      /\ \A i \in 1..(n - 1) : context'[i] = context[i]
  <2>0. "body" \in Contexts
    BY DEF Contexts
  <2>1. /\ Len(Append(Front(context), "body")) = Len(Front(context)) + 1
        /\ \A i \in 1..Len(Front(context)) :
             Append(Front(context), "body")[i] = Front(context)[i]
        /\ Append(Front(context), "body")[Len(Front(context)) + 1] = "body"
    BY <1>6, <2>0, AppendProperties
  <2> QED BY <1>2, <1>5, <1>6, <2>1
<1>9. scopeStack' = scopeStack
  <2>1. Len(scopeStack) = n /\ \A i \in 1..n : scopeStack'[i] = scopeStack[i]
    BY <1>1, <1>2, <1>7 DEF n, top
  <2> QED BY <1>1, <1>7, <2>1, SeqEqual
<1>10. \A i \in 1..(n - 1) : context[i] \notin {"params", "oldstyle"}
  <2> SUFFICES ASSUME NEW i \in 1..(n - 1), context[i] \in {"params", "oldstyle"} PROVE FALSE
    OBVIOUS
  <2>1. i \in 1..Len(context) /\ n \in 1..Len(context) /\ n > i
    BY <1>2 DEF n
  <2>2. context[n] = "paramlist"
    BY <2>1 DEF DefinitionInnermost
  <2> QED BY <1>1, <2>2 DEF n
<1> QED BY <1>1, <1>2, <1>8, <1>9, <1>10 DEF n

\* The scopes of a definition whose parameters have been read.
LEMMA ParamsRead ==
  ASSUME ScopesTypeOK, DefinitionInnermost, In("params"),
         UNCHANGED <<scopeStack, functiondef_number>>,
         context' = Append(Front(context), "oldstyle")
  PROVE  DefinitionInnermost' /\ Defining'
<1>1. /\ context \in Seq(Contexts) /\ context # << >> /\ "oldstyle" \in Contexts
      /\ context[Len(context)] = "params"
  BY DEF ScopesTypeOK, Contexts, In
<1> DEFINE n == Len(context)
<1>2. /\ Front(context) \in Seq(Contexts) /\ Len(Front(context)) = n - 1 /\ n \in Nat \ {0}
      /\ \A i \in 1..(n - 1) : Front(context)[i] = context[i]
  BY <1>1, FrontProperties
<1> HIDE DEF n
<1>3. /\ Len(context') = n /\ context'[n] = "oldstyle"
      /\ \A i \in 1..(n - 1) : context'[i] = context[i]
  <2>1. /\ Len(Append(Front(context), "oldstyle")) = Len(Front(context)) + 1
        /\ \A i \in 1..Len(Front(context)) :
             Append(Front(context), "oldstyle")[i] = Front(context)[i]
        /\ Append(Front(context), "oldstyle")[Len(Front(context)) + 1] = "oldstyle"
    BY <1>1, <1>2, AppendProperties
  <2> QED BY <1>2, <2>1
<1>4. n \in 1..n /\ n \in 1..Len(context) /\ \A i \in 1..(n - 1) : i \in 1..Len(context) /\ n > i
  BY <1>2 DEF n
<1>5. \A i \in 1..(n - 1) : context[i] \notin {"params", "oldstyle"}
  <2> SUFFICES ASSUME NEW i \in 1..(n - 1), context[i] \in {"params", "oldstyle"} PROVE FALSE
    OBVIOUS
  <2>1. context[n] = "paramlist"
    BY <1>4 DEF DefinitionInnermost
  <2> QED BY <1>1, <2>1 DEF n
<1>6. \E name \in Names : scopeStack[n] = FunctionDefScope(functiondef_number, name)
  BY <1>1, <1>4 DEF DefinitionInnermost, n
<1>7. ASSUME NEW i \in 1..Len(context'), context'[i] \in {"params", "oldstyle"}
      PROVE  i = n
  BY <1>2, <1>3, <1>5, <1>7
<1>8. DefinitionInnermost'
  BY <1>2, <1>3, <1>6, <1>7 DEF DefinitionInnermost, FunctionDefScope
<1> QED BY <1>3, <1>4, <1>8 DEF Defining

LEMMA ScopesStep == IInv /\ ScopesInv /\ [Next]_vars => ScopesInv'
<1> SUFFICES ASSUME IInv, ScopesInv, [Next]_vars PROVE ScopesInv'
  OBVIOUS
<1>1. IInv' /\ ScopesTypeOK /\ ScopesTypeOK' /\ TableInv /\ PathsUsed /\ DefinitionInnermost
  BY StepInv DEF IInv, ScopesInv
<1>2. /\ unnamedScopeCounter \in Nat /\ paramlist_number \in Nat /\ functiondef_number \in Nat
      /\ unnamedScopeCounter' \in 0..MaxPushes /\ paramlist_number' \in 0..MaxPushes
      /\ functiondef_number' \in 0..MaxPushes /\ functiondef_number \in 0..MaxPushes
      /\ unnamedScopeCounter \in 0..MaxPushes /\ paramlist_number \in 0..MaxPushes
      /\ MaxPushes \in Nat
  BY <1>1, SymbolTableAssumption DEF ScopesTypeOK
<1>3. CASE PushBlock
  <2> DEFINE scope == BlockScope(unnamedScopeCounter)
  <2>1. /\ scope \in ScopeNames /\ "block" \in Contexts /\ ~Defining
        /\ "block" \notin {"params", "oldstyle"}
    BY <1>1, <1>2, <1>3, NotDefining DEF ScopeNames, Contexts, PushBlock
  <2>2. /\ scopeStack' = Append(scopeStack, scope) /\ context' = Append(context, "block")
        /\ unnamedScopeCounter' = unnamedScopeCounter + 1
        /\ UNCHANGED <<symTable, paramlist_number, functiondef_number>>
    BY <1>3 DEF PushBlock, Push, table
  <2>3. UsedScopes \subseteq UsedScopes'
    BY <1>1, <1>2, <2>1, <2>2, UsedKept
  <2>4. scope \in UsedScopes'
    BY <1>2, <2>1, <2>2 DEF UsedScopes, Used
  <2> HIDE DEF scope
  <2>5. PathsUsed'
    BY <1>1, <2>2, <2>3, <2>4, PushedUsed
  <2>6. DefinitionInnermost'
    BY <1>1, <2>1, <2>2, OpenedElsewhere
  <2> QED BY <2>5, <2>6 DEF ScopesInv
<1>4. CASE PushParamList
  <2> DEFINE scope == ParamListScope(paramlist_number)
  <2>1. scope \in ScopeNames /\ "paramlist" \in Contexts
    BY <1>2 DEF ScopeNames, Contexts
  <2>2. /\ scopeStack' = Append(scopeStack, scope) /\ context' = Append(context, "paramlist")
        /\ paramlist_number' = paramlist_number + 1
        /\ UNCHANGED <<symTable, unnamedScopeCounter, functiondef_number>>
    BY <1>4 DEF PushParamList, Push, table
  <2>4. scope \in UsedScopes'
    BY <1>2, <2>1, <2>2 DEF UsedScopes, Used
  <2> HIDE DEF scope
  <2>a. /\ Len(context) \in Nat /\ Len(context') = Len(context) + 1
        /\ \A i \in 1..Len(context) : context'[i] = context[i] /\ scopeStack'[i] = scopeStack[i]
        /\ context'[Len(context) + 1] = "paramlist"
        /\ Defining => Defining'
    BY <1>1, <2>1, <2>2, PushedContext
  <2>3. UsedScopes \subseteq UsedScopes'
    BY <1>1, <1>2, <2>2, <2>a, UsedKept
  <2>5. PathsUsed'
    BY <1>1, <2>2, <2>3, <2>4, PushedUsed
  <2>6. DefinitionInnermost'
    <3>1. ASSUME NEW i \in 1..Len(context'), context'[i] \in {"params", "oldstyle"}
          PROVE  /\ \A j \in 1..Len(context') : j > i => context'[j] = "paramlist"
                 /\ \E name \in Names : scopeStack'[i] = FunctionDefScope(functiondef_number', name)
      <4>1. i \in 1..Len(context) /\ context[i] \in {"params", "oldstyle"}
        BY <2>a, <3>1
      <4>2. /\ \A j \in 1..Len(context) : j > i => context[j] = "paramlist"
            /\ \E name \in Names : scopeStack[i] = FunctionDefScope(functiondef_number, name)
        BY <1>1, <4>1 DEF DefinitionInnermost
      <4>3. \A j \in 1..Len(context') : j > i => context'[j] = "paramlist"
        BY <2>a, <4>2
      <4> QED BY <2>2, <2>a, <4>1, <4>2, <4>3
    <3> QED BY <3>1 DEF DefinitionInnermost, FunctionDefScope
  <2> QED BY <2>5, <2>6 DEF ScopesInv
<1>5. ASSUME NEW name \in Names, PushParams(name)
      PROVE  ScopesInv'
  <2> DEFINE scope == FunctionDefScope(functiondef_number, name)
  <2>1. /\ scope \in ScopeNames /\ "params" \in Contexts /\ ~Defining
    BY <1>1, <1>2, <1>5, NotDefining DEF ScopeNames, Contexts, PushParams
  <2>2. /\ scopeStack' = Append(scopeStack, scope) /\ context' = Append(context, "params")
        /\ UNCHANGED <<symTable, unnamedScopeCounter, paramlist_number, functiondef_number>>
    BY <1>5 DEF PushParams, Push, table
  <2>0. Defining' /\ \E x \in Names : scope = FunctionDefScope(functiondef_number', x)
    <3>1. /\ Len(context) \in Nat /\ Len(context') = Len(context) + 1
          /\ context'[Len(context) + 1] = "params"
      <4> HIDE DEF scope
      <4> QED BY <1>1, <2>1, <2>2, PushedContext
    <3>2. Defining'
      BY <3>1 DEF Defining
    <3> QED BY <2>2, <3>2
  <2>4. scope \in UsedScopes'
    <3>1. \E n \in Nat, x \in Names :
            /\ n < functiondef_number' \/ (n = functiondef_number' /\ Defining')
            /\ scope = FunctionDefScope(n, x)
      <4> HIDE DEF scope
      <4>1. PICK x \in Names : scope = FunctionDefScope(functiondef_number', x)
        BY <2>0
      <4>2. functiondef_number' \in Nat
        BY <1>2, <2>2
      <4> QED BY <2>0, <4>1, <4>2
    <3>2. PICK s : s = scope
      OBVIOUS
    <3> HIDE DEF scope
    <3>3. Used(s)'
      BY <3>1, <3>2 DEF Used
    <3> QED BY <2>1, <3>2, <3>3 DEF UsedScopes
  <2> HIDE DEF scope
  <2>3. UsedScopes \subseteq UsedScopes'
    BY <1>1, <1>2, <2>1, <2>2, UsedKept
  <2>5. PathsUsed'
    BY <1>1, <2>2, <2>3, <2>4, PushedUsed
  <2>6. DefinitionInnermost'
    BY <1>1, <2>0, <2>1, <2>2, OpenedElsewhere
  <2> QED BY <2>5, <2>6 DEF ScopesInv
<1>6. CASE EnterBody
  <2>1. /\ scopeStack' = scopeStack /\ Len(context) \in Nat \ {0} /\ Len(context') = Len(context)
        /\ \A i \in 1..(Len(context) - 1) : context'[i] \notin {"params", "oldstyle"}
        /\ context'[Len(context)] = "body"
    BY <1>1, <1>6, BodyReopens
  <2>2. /\ functiondef_number' = functiondef_number + 1
        /\ UNCHANGED <<symTable, unnamedScopeCounter, paramlist_number>>
    BY <1>6 DEF EnterBody, table
  <2>3. UsedScopes \subseteq UsedScopes'
    BY <1>1, <1>2, <2>2, UsedKept
  <2>4. PathsUsed'
    <3> HIDE DEF UsedScopes
    <3>1. \A i \in 1..Len(scopeStack') : scopeStack'[i] \in UsedScopes'
      BY <1>1, <2>1, <2>3 DEF PathsUsed
    <3>2. \A key \in DOMAIN symTable' : \A i \in 1..Len(key[1]) : key[1][i] \in UsedScopes'
      BY <1>1, <2>2, <2>3 DEF PathsUsed
    <3> QED BY <3>1, <3>2 DEF PathsUsed
  <2>5. \A i \in 1..Len(context') : context'[i] \notin {"params", "oldstyle"}
    BY <2>1
  <2>6. DefinitionInnermost'
    BY <2>5 DEF DefinitionInnermost
  <2> QED BY <2>4, <2>6 DEF ScopesInv
<1>7. CASE PopScope
  <2>1. /\ context # << >> /\ ~In("params") /\ ~In("oldstyle")
    BY <1>7 DEF PopScope, In
  <2>2. /\ scopeStack' = Front(scopeStack) /\ context' = Front(context)
        /\ UNCHANGED <<symTable, unnamedScopeCounter, paramlist_number, functiondef_number>>
    BY <1>7 DEF PopScope, Pop, table
  <2>3. /\ Len(context) \in Nat \ {0} /\ Len(context') = Len(context) - 1
        /\ Len(scopeStack') = Len(context) - 1 /\ Len(scopeStack) = Len(context)
        /\ \A i \in 1..Len(context') : context'[i] = context[i] /\ scopeStack'[i] = scopeStack[i]
        /\ Defining => Defining'
    BY <1>1, <2>1, <2>2, PoppedContext
  <2>4. UsedScopes \subseteq UsedScopes'
    BY <1>1, <1>2, <2>2, <2>3, UsedKept
  <2>5. PathsUsed'
    <3>1. \A i \in 1..Len(scopeStack') : scopeStack'[i] \in UsedScopes'
      BY <1>1, <2>3, <2>4 DEF PathsUsed
    <3>2. \A key \in DOMAIN symTable' : \A i \in 1..Len(key[1]) : key[1][i] \in UsedScopes'
      BY <1>1, <2>2, <2>4 DEF PathsUsed
    <3> QED BY <3>1, <3>2 DEF PathsUsed
  <2>6. DefinitionInnermost'
    <3>1. ASSUME NEW i \in 1..Len(context'), context'[i] \in {"params", "oldstyle"}
          PROVE  /\ \A j \in 1..Len(context') : j > i => context'[j] = "paramlist"
                 /\ \E name \in Names : scopeStack'[i] = FunctionDefScope(functiondef_number', name)
      <4>1. i \in 1..Len(context) /\ context[i] \in {"params", "oldstyle"}
        BY <2>3, <3>1
      <4>2. /\ \A j \in 1..Len(context) : j > i => context[j] = "paramlist"
            /\ \E name \in Names : scopeStack[i] = FunctionDefScope(functiondef_number, name)
        BY <1>1, <4>1 DEF DefinitionInnermost
      <4>3. \A j \in 1..Len(context') : j > i => context'[j] = "paramlist"
        BY <2>3, <4>2
      <4> QED BY <2>2, <2>3, <3>1, <4>2, <4>3
    <3> QED BY <3>1 DEF DefinitionInnermost, FunctionDefScope
  <2> QED BY <2>5, <2>6 DEF ScopesInv
<1>8. ASSUME NEW name \in Names, Declare(name)
      PROVE  ScopesInv'
  <2>1. Declares /\ UNCHANGED scopes
    BY <1>1, <1>8, DeclareEffect
  <2>2. Defining' = Defining /\ DefinitionInnermost'
    BY <1>1, <2>1 DEF scopes, Defining, DefinitionInnermost
  <2>3. UsedScopes \subseteq UsedScopes'
    BY <1>1, <1>2, <2>1, <2>2, UsedKept DEF scopes
  <2> QED BY <1>1, <2>1, <2>2, <2>3, DeclaredUsed DEF scopes, ScopesInv
<1>9. ASSUME NEW params \in Params \ {AnyParams}, DefineFunction(params)
      PROVE  ScopesInv'
  <2>1. Declares
    BY <1>1, <1>9, DefineFunctionEffect
  <2>2. /\ UNCHANGED <<scopeStack, unnamedScopeCounter, paramlist_number, functiondef_number>>
        /\ In("params") /\ context' = Append(Front(context), "oldstyle")
    BY <1>9 DEF DefineFunction
  <2>3. DefinitionInnermost' /\ Defining'
    BY <1>1, <2>2, ParamsRead
  <2>4. UsedScopes \subseteq UsedScopes'
    BY <1>1, <1>2, <2>2, <2>3, UsedKept
  <2> QED BY <1>1, <2>1, <2>2, <2>3, <2>4, DeclaredUsed DEF ScopesInv
<1>10. ASSUME UNCHANGED <<scopes, table>>
       PROVE  ScopesInv'
  <2>1. Defining' = Defining /\ DefinitionInnermost'
    BY <1>1, <1>10 DEF scopes, Defining, DefinitionInnermost
  <2>2. UsedScopes \subseteq UsedScopes'
    BY <1>1, <1>2, <1>10, <2>1, UsedKept DEF scopes
  <2>3. PathsUsed'
    BY <1>1, <1>10, <2>2 DEF PathsUsed, scopes, table
  <2> QED BY <2>1, <2>3 DEF ScopesInv
<1>11. ASSUME NEW mode \in Modes, Pragma(mode)
       PROVE  ScopesInv'
  BY <1>10, <1>11 DEF Pragma
<1>12. CASE UNCHANGED vars
  BY <1>10, <1>12 DEF vars
<1> QED BY <1>3, <1>4, <1>5, <1>6, <1>7, <1>8, <1>9, <1>11, <1>12 DEF Next

LEMMA AlwaysScopesInv == Spec => []ScopesInv
<1>1. Init => ScopesInv
  <2> SUFFICES ASSUME Init PROVE ScopesInv
    OBVIOUS
  <2>1. scopeStack = << >> /\ context = << >> /\ DOMAIN symTable = {}
    BY DEF Init
  <2>2. 1..Len(scopeStack) = {} /\ 1..Len(context) = {}
    BY <2>1
  <2> QED BY <2>1, <2>2 DEF ScopesInv, PathsUsed, DefinitionInnermost
<1> QED BY <1>1, AlwaysIInv, ScopesStep, PTL DEF Spec

-----------------------------------------------------------------------------
(* The frames.                                                              *)

Maps == UNION {[D -> SymbolKinds] : D \in SUBSET Names}

\* Frame, of any table.
FrameIn(tab, syms, path) ==
  [name \in {n \in Names : <<path, n>> \in DOMAIN tab} |->
     syms[tab[<<path, name>>].ids[1]].kind]

\* A frame with one more name.
Binding(frame, name, kind) ==
  [n \in DOMAIN frame \cup {name} |-> IF n = name THEN kind ELSE frame[n]]

FramesOK ==
  /\ Len(scopeStack) \in Nat
  /\ frames \in [1..(Len(scopeStack) + 1) -> Maps]
  /\ \A i \in 1..(Len(scopeStack) + 1) :
       frames[i] = FrameIn(symTable, symbols, SubSeq(scopeStack, 1, i - 1))

LEMMA FramesTyped == IInv => FramesOK
<1> SUFFICES ASSUME IInv PROVE FramesOK
  OBVIOUS
<1>1. TableInv /\ scopeStack \in Seq(ScopeNames) /\ Len(scopeStack) \in Nat
  BY LenProperties DEF IInv, ScopesTypeOK
<1>2. ASSUME NEW path
      PROVE  Frame(path) = FrameIn(symTable, symbols, path) /\ Frame(path) \in Maps
  <2> DEFINE D == {n \in Names : <<path, n>> \in DOMAIN symTable}
  <2>1. Frame(path) = [name \in D |-> KindUnder(<<path, name>>)]
    BY DEF Frame, KindUnder
  <2>2. \A name \in D : KindUnder(<<path, name>>) \in SymbolKinds
    BY <1>1, KindsUnder
  <2>3. D \in SUBSET Names
    OBVIOUS
  <2>4. Frame(path) \in [D -> SymbolKinds]
    <3> HIDE DEF D
    <3> QED BY <2>1, <2>2
  <2>5. Frame(path) \in Maps
    <3> HIDE DEF D
    <3> QED BY <2>3, <2>4 DEF Maps
  <2>6. Frame(path) = FrameIn(symTable, symbols, path)
    BY DEF Frame, FrameIn
  <2> QED BY <2>5, <2>6
<1>3. frames = [i \in 1..(Len(scopeStack) + 1) |-> Frame(SubSeq(scopeStack, 1, i - 1))]
  BY DEF frames
<1> QED BY <1>1, <1>2, <1>3 DEF FramesOK

\* The frames of the scopes that stay open are those they had.
LEMMA SharedFrames ==
  ASSUME IInv, FramesOK, FramesOK', NEW k \in 0..Len(scopeStack), k <= Len(scopeStack'),
         UNCHANGED <<symTable, symbols>>, scopeStack' \in Seq(ScopeNames),
         \A i \in 1..k : scopeStack'[i] = scopeStack[i]
  PROVE  \A i \in 1..(k + 1) : frames'[i] = frames[i]
<1> SUFFICES ASSUME NEW i \in 1..(k + 1) PROVE frames'[i] = frames[i]
  OBVIOUS
<1>1. /\ scopeStack \in Seq(ScopeNames) /\ Len(scopeStack) \in Nat /\ Len(scopeStack') \in Nat
      /\ i - 1 \in 0..k /\ i - 1 \in 0..Len(scopeStack) /\ i - 1 \in 0..Len(scopeStack')
      /\ i \in 1..(Len(scopeStack) + 1) /\ i \in 1..(Len(scopeStack') + 1)
  BY LenProperties DEF IInv, ScopesTypeOK
<1> DEFINE p == SubSeq(scopeStack, 1, i - 1)
           q == SubSeq(scopeStack', 1, i - 1)
<1>2. /\ p \in Seq(ScopeNames) /\ Len(p) = i - 1 /\ \A j \in 1..(i - 1) : p[j] = scopeStack[j]
  BY <1>1, Prefix
<1>3. /\ q \in Seq(ScopeNames) /\ Len(q) = i - 1 /\ \A j \in 1..(i - 1) : q[j] = scopeStack'[j]
  BY <1>1, Prefix
<1>4. p = q
  <2> HIDE DEF p, q
  <2>1. \A j \in 1..(i - 1) : p[j] = q[j]
    BY <1>1, <1>2, <1>3
  <2> QED BY <1>2, <1>3, <2>1, SeqEqual
<1>5. frames[i] = FrameIn(symTable, symbols, p)
  BY <1>1 DEF FramesOK
<1>6. frames'[i] = FrameIn(symTable', symbols', q)
  BY <1>1 DEF FramesOK
<1> QED BY <1>4, <1>5, <1>6

\* A scope opens empty: nothing was ever declared under its name.
LEMMA ScopeOpens ==
  ASSUME IInv, ScopesInv, FramesOK, FramesOK', NEW scope \in ScopeNames,
         scope \notin UsedScopes, scopeStack' = Append(scopeStack, scope), UNCHANGED table
  PROVE  Env!Open
<1> DEFINE m == Len(scopeStack) + 1
           p == SubSeq(scopeStack', 1, m)
<1>1. /\ scopeStack \in Seq(ScopeNames) /\ Len(scopeStack) \in Nat /\ PathsUsed
      /\ UNCHANGED <<symTable, symbols>>
  BY LenProperties DEF IInv, ScopesTypeOK, ScopesInv, table
<1>2. /\ scopeStack' \in Seq(ScopeNames) /\ Len(scopeStack') = m
      /\ \A i \in 1..Len(scopeStack) : scopeStack'[i] = scopeStack[i]
      /\ scopeStack'[m] = scope
  BY <1>1, AppendProperties
<1>3. \A i \in 1..m : frames'[i] = frames[i]
  <2>1. Len(scopeStack) \in 0..Len(scopeStack) /\ Len(scopeStack) <= Len(scopeStack')
    BY <1>1, <1>2
  <2> QED BY <1>1, <1>2, <2>1, SharedFrames
<1>4. p[m] = scope /\ Len(p) = m /\ m \in 1..m /\ m \in Nat
  BY <1>1, <1>2, Prefix
<1>5. frames'[m + 1] = FrameIn(symTable', symbols', p)
  <2>1. m + 1 \in 1..(Len(scopeStack') + 1) /\ m + 1 - 1 = m
    BY <1>1, <1>2
  <2> QED BY <2>1 DEF FramesOK
<1> HIDE DEF p
<1>6. ASSUME NEW n, <<p, n>> \in DOMAIN symTable PROVE FALSE
  <2>1. <<p, n>>[1] = p
    OBVIOUS
  <2>2. \A i \in 1..Len(p) : p[i] \in UsedScopes
    BY <1>1, <1>6, <2>1 DEF PathsUsed
  <2> QED BY <1>4, <2>2
<1>7. frames'[m + 1] = Env!Empty
  <2>1. {n \in Names : <<p, n>> \in DOMAIN symTable'} = {}
    BY <1>1, <1>6
  <2>2. frames'[m + 1] = [n \in {} |-> symbols'[symTable'[<<p, n>>].ids[1]].kind]
    BY <1>5, <2>1 DEF FrameIn
  <2>3. [n \in {} |-> symbols'[symTable'[<<p, n>>].ids[1]].kind] = [n \in {} |-> "none"]
    OBVIOUS
  <2> QED BY <2>2, <2>3 DEF Env!Empty
<1>8. frames \in [1..m -> Maps] /\ frames' \in [1..(m + 1) -> Maps] /\ m + 1 \in 1..(m + 1)
  BY <1>2, <1>4 DEF FramesOK
<1> HIDE DEF m
<1>9. Env!Empty \in Maps
  BY <1>7, <1>8
<1>10. frames' = Append(frames, Env!Empty)
  BY <1>3, <1>4, <1>7, <1>8, <1>9, LongerByOne
<1> QED BY <1>10 DEF Env!Open

\* A scope that ends takes its frame with it.
LEMMA ScopeCloses ==
  ASSUME IInv, FramesOK, FramesOK', scopeStack # << >>,
         scopeStack' = Front(scopeStack), UNCHANGED table
  PROVE  Env!Close
<1> DEFINE m == Len(scopeStack)
<1>1. scopeStack \in Seq(ScopeNames) /\ UNCHANGED <<symTable, symbols>>
  BY DEF IInv, ScopesTypeOK, table
<1>2. /\ scopeStack' \in Seq(ScopeNames) /\ Len(scopeStack') = m - 1 /\ m \in Nat \ {0}
      /\ \A i \in 1..(m - 1) : scopeStack'[i] = scopeStack[i]
  BY <1>1, FrontProperties
<1>3. \A i \in 1..m : frames'[i] = frames[i]
  <2>1. /\ m - 1 \in 0..Len(scopeStack) /\ m - 1 <= Len(scopeStack') /\ m - 1 + 1 = m
    BY <1>2
  <2> QED BY <1>1, <1>2, <2>1, SharedFrames
<1>4. frames \in [1..(m + 1) -> Maps] /\ frames' \in [1..m -> Maps]
  <2>1. Len(scopeStack') + 1 = m
    BY <1>2
  <2> QED BY <2>1 DEF FramesOK
<1> HIDE DEF m
<1>5. Len(frames) = m + 1 /\ frames' = SubSeq(frames, 1, m)
  BY <1>2, <1>3, <1>4, ShorterByOne
<1>6. Len(frames) > 1 /\ Len(frames) - 1 = m
  BY <1>2, <1>5
<1> QED BY <1>5, <1>6 DEF Env!Close, Env!Depth

\* What is not a change of scope or of the table changes no frame.
LEMMA FramesSame ==
  ASSUME IInv, FramesOK, FramesOK', scopeStack' = scopeStack, UNCHANGED <<symTable, symbols>>
  PROVE  frames' = frames
<1>1. scopeStack \in Seq(ScopeNames) /\ Len(scopeStack) \in Nat
  BY LenProperties DEF IInv, ScopesTypeOK
<1>2. \A i \in 1..(Len(scopeStack) + 1) : frames'[i] = frames[i]
  <2>1. Len(scopeStack) \in 0..Len(scopeStack) /\ Len(scopeStack) <= Len(scopeStack')
    BY <1>1
  <2> QED BY <1>1, <2>1, SharedFrames
<1> QED BY <1>2 DEF FramesOK

\* One frame is changed.
LEMMA OneChanged ==
  ASSUME NEW S, NEW m, NEW f \in [1..m -> S], NEW g \in [1..m -> S], NEW l \in 1..m, NEW e,
         g[l] = e, \A i \in 1..m : i # l => g[i] = f[i]
  PROVE  g = [f EXCEPT ![l] = e]
OBVIOUS

\* A declaration binds one name, in the frame of the scope it is made in, or
\* none.
LEMMA DeclarationBinds ==
  ASSUME IInv, FramesOK, FramesOK', Declares, scopeStack' = scopeStack
  PROVE  Env!Next \/ frames' = frames
<1> DEFINE m == Len(scopeStack) + 1
<1>1. PICK key, new : Fresh(key, new) /\ Placed(key, new) /\ Effect(key, new)
  BY DEF Declares
<1>2. /\ DOMAIN symTable \subseteq DOMAIN symTable'
      /\ DOMAIN symTable' \subseteq DOMAIN symTable \cup {key}
      /\ \A k \in DOMAIN symTable : KindUnder(k)' = KindUnder(k)
      /\ key \in DOMAIN symTable' \ DOMAIN symTable => KindUnder(key)' = new.kind
  BY <1>1, EffectKinds DEF IInv
<1>3. /\ scopeStack \in Seq(ScopeNames) /\ Len(scopeStack) \in Nat
      /\ context # << >> => scopeStack # << >>
      /\ key = <<new.path, new.name>> /\ new.name \in Names
      /\ new.kind \in SymbolKinds
  BY <1>1, LenProperties, PoppedScopes DEF IInv, ScopesTypeOK, Fresh, SymbolType, SymbolKinds
<1>4. ASSUME NEW path, path # new.path \/ key \in DOMAIN symTable \/ key \notin DOMAIN symTable'
      PROVE  FrameIn(symTable', symbols', path) = FrameIn(symTable, symbols, path)
  <2>1. \A n : <<path, n>> \in DOMAIN symTable' <=> <<path, n>> \in DOMAIN symTable
    BY <1>2, <1>3, <1>4
  <2>2. \A n : <<path, n>> \in DOMAIN symTable =>
          symbols'[symTable'[<<path, n>>].ids[1]].kind = symbols[symTable[<<path, n>>].ids[1]].kind
    BY <1>2 DEF KindUnder
  <2> QED BY <2>1, <2>2 DEF FrameIn
<1>5. ASSUME key \in DOMAIN symTable' \ DOMAIN symTable, NEW F, NEW F2,
             F = FrameIn(symTable, symbols, new.path), F2 = FrameIn(symTable', symbols', new.path)
      PROVE  /\ new.name \notin DOMAIN F
             /\ F2 = Binding(F, new.name, new.kind)
  <2>1. \A n : <<new.path, n>> \in DOMAIN symTable' <=> (<<new.path, n>> \in DOMAIN symTable \/ n = new.name)
    BY <1>2, <1>3, <1>5
  <2>2. \A n : <<new.path, n>> \in DOMAIN symTable =>
          symbols'[symTable'[<<new.path, n>>].ids[1]].kind
            = symbols[symTable[<<new.path, n>>].ids[1]].kind
    BY <1>2 DEF KindUnder
  <2>3. symbols'[symTable'[<<new.path, new.name>>].ids[1]].kind = new.kind
    BY <1>2, <1>3, <1>5 DEF KindUnder
  <2>4. DOMAIN F = {n \in Names : <<new.path, n>> \in DOMAIN symTable}
    BY <1>5 DEF FrameIn
  <2>5. new.name \notin DOMAIN F
    BY <1>3, <1>5, <2>4
  <2>6. \A n \in DOMAIN F : F[n] = symbols[symTable[<<new.path, n>>].ids[1]].kind
    BY <1>5, <2>4 DEF FrameIn
  <2>7. {n \in Names : <<new.path, n>> \in DOMAIN symTable'} = DOMAIN F \cup {new.name}
    BY <1>3, <2>1, <2>4
  <2>8. F2 = [n \in DOMAIN F \cup {new.name} |-> symbols'[symTable'[<<new.path, n>>].ids[1]].kind]
    BY <1>5, <2>7 DEF FrameIn
  <2> HIDE DEF FrameIn
  <2>9. \A n \in DOMAIN F \cup {new.name} :
          symbols'[symTable'[<<new.path, n>>].ids[1]].kind = IF n = new.name THEN new.kind ELSE F[n]
    BY <2>2, <2>3, <2>4, <2>6
  <2> QED BY <2>5, <2>8, <2>9 DEF Binding
<1>6. /\ frames \in [1..m -> Maps] /\ frames' \in [1..m -> Maps] /\ Len(frames) = m
      /\ \A i \in 1..m : frames[i] = FrameIn(symTable, symbols, SubSeq(scopeStack, 1, i - 1))
      /\ \A i \in 1..m : frames'[i] = FrameIn(symTable', symbols', SubSeq(scopeStack, 1, i - 1))
  <2>1. /\ frames \in [1..m -> Maps] /\ frames' \in [1..m -> Maps]
        /\ \A i \in 1..m : frames[i] = FrameIn(symTable, symbols, SubSeq(scopeStack, 1, i - 1))
        /\ \A i \in 1..m : frames'[i] = FrameIn(symTable', symbols', SubSeq(scopeStack, 1, i - 1))
    BY DEF FramesOK
  <2>2. Len(frames) = m
    BY <1>3, <2>1, Segments
  <2> QED BY <2>1, <2>2
<1>7. ASSUME NEW l \in {m - 1, m} \cap 1..m, new.path = SubSeq(scopeStack, 1, l - 1)
      PROVE  Env!Next \/ frames' = frames
  <2>1. l \in 1..m /\ m \in Nat /\ l \in Nat
    BY <1>3
  <2>2. CASE key \in DOMAIN symTable' \ DOMAIN symTable
    <3> DEFINE F == frames[l]
               G == Binding(F, new.name, new.kind)
    <3>1. F = FrameIn(symTable, symbols, new.path)
          /\ frames'[l] = FrameIn(symTable', symbols', new.path)
      BY <1>6, <1>7, <2>1
    <3>2. new.name \notin DOMAIN F /\ frames'[l] = G
      BY <1>5, <2>2, <3>1
    <3>3. \A i \in 1..m : i # l => frames'[i] = frames[i]
      <4> SUFFICES ASSUME NEW i \in 1..m, i # l PROVE frames'[i] = frames[i]
        OBVIOUS
      <4>1. i - 1 \in 0..Len(scopeStack) /\ l - 1 \in 0..Len(scopeStack)
        BY <1>3, <2>1
      <4>2. Len(SubSeq(scopeStack, 1, i - 1)) = i - 1 /\ Len(SubSeq(scopeStack, 1, l - 1)) = l - 1
        BY <1>3, <4>1, Prefix
      <4>3. SubSeq(scopeStack, 1, i - 1) # new.path
        BY <1>7, <2>1, <4>2
      <4> QED BY <1>4, <1>6, <4>3
    <3> HIDE DEF m
    <3>4. frames' = [frames EXCEPT ![l] = G]
      <4> HIDE DEF G
      <4> QED BY <1>6, <2>1, <3>2, <3>3, OneChanged
    <3>5. l \in {Len(frames) - 1, Len(frames)} /\ l \in {Len(frames) - 1, Len(frames)} \cap 1..Len(frames)
      BY <1>6, <1>7
    <3>6. new.kind \in Kinds \cup {"function"}
      BY <1>1, <2>2 DEF Placed
    <3>7. Env!Bind(l, new.name, new.kind)
      BY <3>2, <3>4, <3>5 DEF Binding, Env!Bind, Env!Depth
    <3> QED BY <1>3, <3>5, <3>6, <3>7 DEF Env!Next, Env!Depth
  <2>3. CASE ~(key \in DOMAIN symTable' \ DOMAIN symTable)
    <3>1. \A i \in 1..m : frames'[i] = frames[i]
      BY <1>4, <1>6, <2>3
    <3> QED BY <1>6, <3>1
  <2> QED BY <2>2, <2>3
<1>8. CASE key[1] = scopeStack
  <2>1. new.path = SubSeq(scopeStack, 1, m - 1) /\ m \in {m - 1, m} \cap 1..m
    <3>1. Len(scopeStack) \in 0..Len(scopeStack) /\ m - 1 = Len(scopeStack)
      BY <1>3
    <3> QED BY <1>3, <1>8, <3>1, Prefix
  <2> QED BY <1>7, <2>1
<1>9. CASE In("params") /\ key[1] = Front(scopeStack)
  <2>1. Len(scopeStack) \in Nat \ {0}
    BY <1>3, <1>9, EmptySeq DEF In
  <2>2. /\ m - 1 \in {m - 1, m} \cap 1..m
        /\ m - 1 - 1 = Len(scopeStack) - 1
    BY <2>1
  <2>3. new.path = SubSeq(scopeStack, 1, m - 1 - 1)
    BY <1>3, <1>9, <2>2 DEF Front
  <2> QED BY <1>7, <2>2, <2>3
<1> QED BY <1>1, <1>8, <1>9 DEF Placed

LEMMA FramesStep ==
  IInv /\ ScopesInv /\ FramesOK /\ FramesOK' /\ [Next]_vars => [Env!Next]_frames
<1> SUFFICES ASSUME IInv, ScopesInv, FramesOK, FramesOK', [Next]_vars
             PROVE  Env!Next \/ frames' = frames
  BY DEF frames, Frame
<1>1. /\ ScopesTypeOK /\ TableInv /\ PathsUsed /\ DefinitionInnermost
      /\ unnamedScopeCounter \in 0..MaxPushes /\ paramlist_number \in 0..MaxPushes
      /\ functiondef_number \in 0..MaxPushes
  BY DEF IInv, ScopesInv, ScopesTypeOK
<1>2. CASE PushBlock
  <2>1. /\ scopeStack' = Append(scopeStack, BlockScope(unnamedScopeCounter)) /\ UNCHANGED table
        /\ BlockScope(unnamedScopeCounter) \in ScopeNames
    BY <1>1, <1>2 DEF PushBlock, Push, ScopeNames
  <2> QED BY <1>1, <2>1, NextScopeUnused, ScopeOpens DEF Env!Next
<1>3. CASE PushParamList
  <2>1. /\ scopeStack' = Append(scopeStack, ParamListScope(paramlist_number)) /\ UNCHANGED table
        /\ ParamListScope(paramlist_number) \in ScopeNames
    BY <1>1, <1>3 DEF PushParamList, Push, ScopeNames
  <2> QED BY <1>1, <2>1, NextScopeUnused, ScopeOpens DEF Env!Next
<1>4. ASSUME NEW name \in Names, PushParams(name)
      PROVE  Env!Next
  <2>1. /\ scopeStack' = Append(scopeStack, FunctionDefScope(functiondef_number, name))
        /\ UNCHANGED table
        /\ isTopLevel \/ AtStatement
        /\ FunctionDefScope(functiondef_number, name) \in ScopeNames
    BY <1>1, <1>4 DEF PushParams, Push, ScopeNames
  <2>2. FunctionDefScope(functiondef_number, name) \notin UsedScopes
    <3>1. ~Defining
      BY <1>1, <2>1, NotDefining
    <3> QED BY <1>1, <3>1, NextScopeUnused
  <2> QED BY <2>1, <2>2, ScopeOpens DEF Env!Next
<1>5. CASE EnterBody
  <2>1. scopeStack' = scopeStack /\ UNCHANGED table
    BY <1>1, <1>5, BodyReopens DEF EnterBody
  <2> QED BY <2>1, FramesSame DEF table
<1>6. CASE PopScope
  <2>1. scopeStack' = Front(scopeStack) /\ UNCHANGED table /\ context # << >>
    BY <1>6 DEF PopScope, Pop, In
  <2>2. scopeStack # << >>
    BY <1>1, <2>1, PoppedScopes
  <2> QED BY <2>1, <2>2, ScopeCloses DEF Env!Next
<1>7. ASSUME NEW name \in Names, Declare(name)
      PROVE  Env!Next \/ frames' = frames
  <2>1. Declares /\ scopeStack' = scopeStack
    BY <1>1, <1>7, DeclareEffect DEF scopes
  <2> QED BY <2>1, DeclarationBinds
<1>8. ASSUME NEW params \in Params \ {AnyParams}, DefineFunction(params)
      PROVE  Env!Next \/ frames' = frames
  <2>1. Declares /\ scopeStack' = scopeStack
    BY <1>1, <1>8, DefineFunctionEffect DEF DefineFunction
  <2> QED BY <2>1, DeclarationBinds
<1>9. ASSUME UNCHANGED <<scopes, table>>
      PROVE  frames' = frames
  BY <1>9, FramesSame DEF scopes, table
<1>10. ASSUME NEW mode \in Modes, Pragma(mode)
       PROVE  frames' = frames
  BY <1>9, <1>10 DEF Pragma
<1>11. CASE UNCHANGED vars
  BY <1>9, <1>11 DEF vars
<1> QED BY <1>2, <1>3, <1>4, <1>5, <1>6, <1>7, <1>8, <1>10, <1>11 DEF Next

-----------------------------------------------------------------------------
(* The theorems.                                                            *)

\* No reference between the parts of the symbol table dangles, and the scope
\* stack keeps the name of the function being defined, whatever the program.
THEOREM TypeCorrect == Spec => []TypeOK
<1>1. IInv => TypeOK
  BY DEF IInv, TableInv, TypeOK
<1> QED BY <1>1, AlwaysIInv, PTL

\* A redeclared symbol put out of the table keeps exactly one brother there
\* (SymbolTable.java, flush and storeAsBrother), for any sequence of
\* declarations, scopes and pragmas.
THEOREM FlushedAreAttached == Spec => []FlushedStayAttached
<1>1. ASSUME IInv PROVE FlushedStayAttached
  <2>1. SUFFICES ASSUME NEW id \in flushed_list
                 PROVE  /\ KeyOf(id) \in DOMAIN symTable
                        /\ id \notin Kept(symTable[KeyOf(id)])
                        /\ \E kept \in Ids :
                             Kept(symTable[KeyOf(id)]) \cap Brothers(id) = {kept}
    BY DEF FlushedStayAttached
  <2>2. /\ id \in Ids /\ symbols[id].brothers # 0 /\ vectors \in Seq(SUBSET Ids)
        /\ symbols[id] \in SymbolType(Len(vectors)) /\ Len(vectors) \in Nat
    BY <1>1, ElementOfSeq, LenProperties
       DEF IInv, TableInv, TableTypeOK, FlushedOK, Ids
  <2> DEFINE v == symbols[id].brothers
  <2>3. v \in 1..Len(vectors)
    BY <2>2 DEF SymbolType
  <2>4. id \in vectors[v] /\ vectors[v] \subseteq Ids
    BY <1>1, <2>2, <2>3 DEF IInv, TableInv, VectorsOK
  <2>5. PICK kept \in vectors[v] : /\ KeyOf(kept) \in DOMAIN symTable
                                    /\ Kept(symTable[KeyOf(kept)]) \cap vectors[v] = {kept}
    BY <1>1, <2>3 DEF IInv, TableInv, OneKept
  <2>6. KeyOf(kept) = KeyOf(id)
    BY <1>1, <2>3, <2>4 DEF IInv, TableInv, VectorsOK
  <2>7. Brothers(id) = vectors[v]
    BY <2>2 DEF Brothers
  <2> HIDE DEF v
  <2> QED BY <1>1, <2>4, <2>5, <2>6, <2>7 DEF IInv, TableInv, FlushedOK
<1> QED BY <1>1, AlwaysIInv, PTL

\* What renaming or marking reaches through the brothers of a symbol is that
\* symbol's own declarations, and is the same from each of them.
THEOREM BrothersAreTheEntity == Spec => []BrothersAreOneEntity
<1>1. IInv => BrothersAreOneEntity
  BY BrothersRelation DEF IInv
<1> QED BY <1>1, AlwaysIInv, PTL

\* A declaration that the walk meets without an error is in the table or is a
\* brother of what the table holds (addObjectLabel, addFunction).
THEOREM DeclarationsStay == Spec => []NothingLost
<1>1. IInv => NothingLost
  BY DEF IInv
<1> QED BY <1>1, AlwaysIInv, PTL

\* Once a function is defined, a lookup finds a definition, whatever
\* prototypes follow and whatever overloads there are (addFunction).
THEOREM DefinitionsAreFound == Spec => []FunctionDefinitionKept
<1>1. IInv => FunctionDefinitionKept
  BY DEF IInv
<1> QED BY <1>1, AlwaysIInv, PTL

\* The overloads of a name differ in their parameters, with 'f()' among the
\* prototypes too (MangledFunctionPseudoLabel, addFunction).
THEOREM OverloadsAreApart == Spec => []OverloadsDiffer
<1>1. IInv => OverloadsDiffer
  BY DEF IInv
<1> QED BY <1>1, AlwaysIInv, PTL

\* No declaration of the program takes the place of a builtin function
\* (addFunction), in any order of declarations and pragmas.
THEOREM BuiltinsStay == Spec => BuiltinsProtected
<1> DEFINE Protected ==
      \A key \in DOMAIN symTable : \A id \in Kept(symTable[key]) :
        symbols[id].builtin =>
          \E b \in Brothers(id)' \cap Kept(symTable'[key]) : symbols'[b].builtin
<1>1. ASSUME IInv, Declares PROVE Protected
  <2> SUFFICES ASSUME NEW k \in DOMAIN symTable, NEW id \in Kept(symTable[k]),
                      symbols[id].builtin
               PROVE  \E b \in Brothers(id)' \cap Kept(symTable'[k]) : symbols'[b].builtin
    OBVIOUS
  <2>1. /\ TableInv /\ id \in Ids /\ id \in Brothers(id) /\ symbols[id].kind = "function"
        /\ KeyOf(id) = k
    BY <1>1, BrothersRelation DEF IInv, BuiltinFunctions, TableInv, TableTypeOK, Kept, KeptOK
  <2>2. PICK key, new : Fresh(key, new) /\ Effect(key, new)
    BY <1>1 DEF Declares
  <2>3. CASE Stops
    BY <2>1, <2>3 DEF Stops, Brothers
  <2>4. CASE Refuses(new)
    BY <2>1, <2>2, <2>4, AloneBrothers DEF Refuses
  <2>5. CASE Enters(key, new)
    <3>1. Alone(new) /\ id \in Kept(symTable'[k])
      BY <2>1, <2>5, EnteredKept DEF Enters
    <3> QED BY <2>1, <2>2, <3>1, AloneBrothers
  <2>6. CASE Joins(key, new)
    <3>1. PICK old \in Kept(symTable[key]) :
            /\ symbols[old].kind = new.kind /\ StoreAsBrother(old, new)
            /\ StaysAside(old, new) \/ TakesPlace(key, old, new)
      BY <2>6 DEF Joins
    <3>2. key \in DOMAIN symTable
      BY <2>6 DEF Joins
    <3>3. /\ symbols'[id].builtin
          /\ symbols'[NewId].builtin = new.builtin
          /\ id \in Brothers(id)' /\ Brothers(old)' = Brothers(old) \cup {NewId}
      <4>1. /\ SameDeclaration(symbols'[id], symbols[id]) /\ SameDeclaration(symbols'[NewId], new)
            /\ id \in Brothers(id)' /\ old \in Brothers(old)
        BY <2>1, <2>2, <3>1, <3>2, JoinedBrothers, BrothersRelation
      <4> QED BY <2>1, <2>2, <3>1, <3>2, <4>1, JoinedBrothers DEF SameDeclaration
    <3>4. CASE id # old \/ StaysAside(old, new)
      <4>1. id \in Kept(symTable'[k])
        BY <2>1, <2>2, <3>1, <3>2, <3>4, JoinedKept
      <4> QED BY <3>3, <4>1
    <3>5. CASE id = old /\ TakesPlace(key, old, new)
      <4>1. k = key
        BY <2>1, <3>1, <3>2, <3>5 DEF TableInv, KeptOK
      <4>2. NewId \in Kept(symTable'[key]) /\ new.builtin
        BY <2>1, <2>2, <3>1, <3>2, <3>5, JoinedKept DEF TakesPlace
      <4> QED BY <3>3, <3>5, <4>1, <4>2
    <3> QED BY <3>1, <3>4, <3>5
  <2> QED BY <2>2, <2>3, <2>4, <2>5, <2>6 DEF Effect
<1>2. ASSUME IInv, UNCHANGED table PROVE Protected
  <2>1. \A key \in DOMAIN symTable : \A id \in Kept(symTable[key]) : id \in Brothers(id)
    BY <1>2, BrothersRelation DEF IInv, TableInv, TableTypeOK, Kept
  <2> QED BY <1>2, <2>1 DEF table, Brothers
<1>3. IInv /\ [Next]_vars => [Protected]_vars
  <2> HIDE DEF Protected
  <2> QED BY <1>1, <1>2, StepEffect DEF Walks, IInv
<1> QED BY <1>3, AlwaysIInv, PTL DEF Spec, BuiltinsProtected

\* A declaration never reaches into a closed scope: it changes the table
\* only under the open scope, or, at the end of the parameters of a function
\* definition, under the one around it.
THEOREM ClosedScopesStayFrozen == Spec => ClosedScopesFrozen
<1> DEFINE Writes(key) == \A k \in DOMAIN symTable : symTable'[k] # symTable[k] => k = key
           Frozen == \A key \in DOMAIN symTable :
                       symTable'[key] # symTable[key] =>
                         \/ key[1] = scopeStack
                         \/ In("params") /\ key[1] = Front(scopeStack)
<1>1. \A key, entry : Put(key, entry) => Writes(key)
  BY DEF Put
<1>2. UNCHANGED symTable => \A key : Writes(key)
  OBVIOUS
<1> HIDE DEF Writes
<1>3. ASSUME NEW new, addObjectLabel(new) PROVE Writes(Scoped(new.name))
  BY <1>1, <1>2, <1>3 DEF addObjectLabel, AddFirst, Refuse
<1>4. ASSUME NEW new, addUnique(new) PROVE Writes(Scoped(new.name))
  BY <1>1, <1>2, <1>4 DEF addUnique, AddFirst, Refuse
<1>5. ASSUME NEW key, NEW new, NEW canRedefine, addFunction(key, new, canRedefine)
      PROVE  Writes(key)
  <2>1. ASSUME NEW id, ResolveFunction(key, id, new, canRedefine) PROVE Writes(key)
    BY <1>1, <1>2, <2>1 DEF ResolveFunction, FatalError
  <2>2. ASSUME NEW ids, NEW i, ResolveOverload(key, ids, i, new, canRedefine)
        PROVE  Writes(key)
    BY <1>1, <1>2, <2>2 DEF ResolveOverload, FatalError
  <2>3. ASSUME NEW ids, AddOverload(key, ids, new) PROVE Writes(key)
    BY <1>1, <2>3 DEF AddOverload
  <2>4. Refuse(new) => Writes(key)
    BY <1>2 DEF Refuse
  <2>5. ASSUME NEW entry, AddFirst(key, new, entry) PROVE Writes(key)
    BY <1>1, <2>5 DEF AddFirst
  <2> QED BY <1>5, <2>1, <2>2, <2>3, <2>4, <2>5 DEF addFunction
<1>6. \A name : Writes(Scoped(name)) => Frozen
  BY DEF Writes, Scoped
<1>7. ASSUME NEW name, Declare(name) PROVE Frozen
  <2>1. ASSUME NEW kind, NEW st, NEW ty, NEW d
        PROVE  Symbol(kind, name, st, ty, d, FALSE).name = name
    BY DEF Symbol
  <2>2. ASSUME NEW kind, NEW st, NEW ty, NEW d,
               addObjectLabel(Symbol(kind, name, st, ty, d, FALSE))
        PROVE  Frozen
    BY <1>3, <1>6, <2>1, <2>2
  <2>3. ASSUME NEW kind, NEW st, NEW ty, NEW d,
               addUnique(Symbol(kind, name, st, ty, d, FALSE))
        PROVE  Frozen
    BY <1>4, <1>6, <2>1, <2>3
  <2>4. ASSUME NEW new, addFunction(Scoped(name), new, FALSE)
        PROVE  Frozen
    BY <1>5, <1>6, <2>4
  <2>5. ASSUME NEW new, Refuse(new) PROVE Frozen
    BY <2>5 DEF Refuse
  <2> HIDE DEF Frozen
  <2>6. ASSUME NEW st, NEW ty, NEW d, DeclareObject(name, st, ty, d) PROVE Frozen
    BY <2>2, <2>6 DEF DeclareObject
  <2>7. ASSUME NEW ty, DeclareParameter(name, ty) PROVE Frozen
    BY <2>2, <2>5, <2>7 DEF DeclareParameter
  <2>8. ASSUME DeclareEnumConstant(name) \/ DeclareTypedef(name) PROVE Frozen
    BY <2>3, <2>8 DEF DeclareEnumConstant, DeclareTypedef
  <2>9. ASSUME NEW p, DeclarePrototype(name, p) PROVE Frozen
    BY <2>4, <2>9 DEF DeclarePrototype
  <2>10. ASSUME CallUndeclared(name) PROVE Frozen
    BY <2>4, <2>10 DEF CallUndeclared
  <2> QED BY <1>7, <2>6, <2>7, <2>8, <2>9, <2>10 DEF Declare
<1>8. ASSUME NEW params, DefineFunction(params) PROVE Frozen
  <2>1. Writes(<<Front(scopeStack), CurrentFunction>>) /\ In("params")
    BY <1>5, <1>8 DEF DefineFunction, Enclosing
  <2> QED BY <2>1 DEF Writes
<1>9. UNCHANGED table => Frozen
  BY DEF table
<1>10. [Next]_vars => [Frozen]_vars
  <2> HIDE DEF Frozen
  <2>1. ASSUME NEW name, PushParams(name) PROVE Frozen
    BY <1>9, <2>1 DEF PushParams
  <2>2. ASSUME NEW mode, Pragma(mode) PROVE Frozen
    BY <1>9, <2>2 DEF Pragma
  <2>3. PushBlock \/ PushParamList \/ EnterBody \/ PopScope => Frozen
    BY <1>9 DEF PushBlock, PushParamList, EnterBody, PopScope
  <2> QED BY <1>7, <1>8, <2>1, <2>2, <2>3 DEF Next
<1> QED BY <1>10, PTL DEF Spec, ClosedScopesFrozen

\* The flat table is a stack of frames: whatever is declared, redeclared and
\* defined, a name means in each open scope what was bound there, and nothing
\* a closed scope bound is found again (SymbolTable, lookupName, pushScope and
\* the tree walk that names the scopes).
THEOREM TableIsEnvironment == Spec => ImplementsEnvironment
<1>1. Init => Env!Init
  <2> SUFFICES ASSUME Init PROVE Env!Init
    OBVIOUS
  <2>1. /\ Len(scopeStack) = 0 /\ DOMAIN symTable = {} /\ IInv
    BY InitInv DEF Init
  <2>2. FramesOK
    BY <2>1, FramesTyped
  <2> DEFINE p == SubSeq(scopeStack, 1, 1 - 1)
  <2>3. /\ frames \in [1..1 -> Maps]
        /\ frames[1] = FrameIn(symTable, symbols, p)
    BY <2>1, <2>2 DEF FramesOK
  <2>4. FrameIn(symTable, symbols, p) = Env!Empty
    <3> HIDE DEF p
    <3>1. {n \in Names : <<p, n>> \in DOMAIN symTable} = {}
      BY <2>1
    <3>2. FrameIn(symTable, symbols, p)
            = [n \in {} |-> symbols[symTable[<<p, n>>].ids[1]].kind]
      BY <3>1 DEF FrameIn
    <3>3. [n \in {} |-> symbols[symTable[<<p, n>>].ids[1]].kind] = [n \in {} |-> "none"]
      OBVIOUS
    <3> QED BY <3>2, <3>3 DEF Env!Empty
  <2>5. frames \in [1..1 -> Maps] /\ frames[1] = Env!Empty
    BY <2>3, <2>4
  <2>6. frames = <<Env!Empty>>
    <3> HIDE DEF p
    <3> QED BY <2>5
  <2> QED BY <2>6 DEF Env!Init
<1> QED BY <1>1, AlwaysIInv, AlwaysScopesInv, FramesTyped, FramesStep, PTL
        DEF Spec, ImplementsEnvironment, Env!Spec
=============================================================================
