------------------------- MODULE TagExtraction_proofs -------------------------
(***************************************************************************)
(* Proofs about tags and their extraction, for any number of tags.          *)
(*                                                                          *)
(* TagInv is the invariant of the tag table while the unit is read; the     *)
(* extraction that follows leaves the table alone.                          *)
(***************************************************************************)
EXTENDS TagExtraction, SequenceTheorems, FiniteSetTheorems, TLAPS

\* The records of a tag and of a body.
TagRecord == [family : Families, name : Names, scope : Nat, typ : Nat,
              brothers : Nat, parents : SUBSET Nat, nested : BOOLEAN]
BodyRecord == [id : Nat, error : BOOLEAN, refs : SUBSET Nat, depth : Nat]

Shapes == /\ scopes \in Seq(Nat) /\ errors \in Nat
          /\ tags \in Seq(TagRecord) /\ Len(tags) <= MaxTags
          /\ complete \in Seq(BOOLEAN)
          /\ open \in Seq(BodyRecord)

\* The table holds each tag under its own key, and has an entry for each key.
Keyed == /\ \A id \in Ids : KeyOf(id) \in DOMAIN symTableTag
         /\ \A key \in DOMAIN symTableTag : KeyOf(symTableTag[key]) = key

\* Only the outermost body is of a tag that is not nested; the tags created
\* since it began are.
BodiesNest ==
  /\ \A i \in 1..Len(open) : i = 1 <=> ~tags[open[i].id].nested
  /\ Len(open) > 0 => \A id \in Ids : id > open[1].id => tags[id].nested

\* What a tag that is not nested references is nested, or was there before it.
ParentsNest ==
  \A id \in Ids : ~tags[id].nested =>
    \A p \in tags[id].parents : p < id \/ tags[p].nested

\* A tag whose body is being read has no parents yet.
NoParentsYet ==
  /\ \A i \in 1..Len(open) : tags[open[i].id].parents = {}
  /\ \A i, j \in 1..Len(open) : open[i].id = open[j].id => i = j

TableInv == Shapes /\ TypeOK /\ Keyed /\ OneTypePerTag /\ TagsStayAttached
BodyInv == BodiesNest /\ ParentsNest /\ NoParentsYet
TagInv == TableInv /\ BodyInv

-----------------------------------------------------------------------------
(* Lookups, and what addTag does.                                           *)

\* A nonempty set of positions has a last one.
LEMMA LastPosition ==
  ASSUME NEW n \in Nat, NEW M \in SUBSET (1..n), M # {}
  PROVE  \E i \in M : \A j \in M : j <= i
<1> DEFINE R == StrictSubsetOrdering(1..n)
           T == {i..n : i \in M}
<1>1. IsFiniteSet(1..n)
  BY FS_Interval
<1>2. IsWellFoundedOn(R, SUBSET (1..n))
  BY <1>1, FS_StrictSubsetOrderingWellFounded, FS_FiniteSubsetsOfFinite
<1>3. T \subseteq SUBSET (1..n) /\ T # {}
  <2>1. \A i \in M : i..n \subseteq 1..n
    OBVIOUS
  <2> QED BY <2>1
<1>4. PICK x \in T : \A y \in T : ~ (<<y, x>> \in R)
  <2> HIDE DEF R, T
  <2> QED BY <1>2, <1>3, WFMin
<1>5. PICK i \in M : x = i..n
  OBVIOUS
<1>6. ASSUME NEW j \in M, i < j PROVE FALSE
  <2>1. j..n \subseteq i..n /\ i \in i..n /\ i \notin j..n
    BY <1>6
  <2>2. <<j..n, i..n>> \in R
    BY <2>1, <1>3, <1>5 DEF StrictSubsetOrdering
  <2> QED BY <1>4, <1>5, <2>2
<1> QED BY <1>6

\* A lookup finds a tag or nothing, and nothing only if the current scope has
\* none.
LEMMA LookupFinds ==
  ASSUME TableInv, NEW name
  PROVE  /\ Lookup(name) \in Ids \cup {0} /\ LookupHere(name) \in Ids \cup {0}
         /\ LookupHere(name) # 0 =>
              /\ <<Last(scopes), name>> \in DOMAIN symTableTag
              /\ LookupHere(name) = symTableTag[<<Last(scopes), name>>]
              /\ KeyOf(LookupHere(name)) = <<Last(scopes), name>>
         /\ LookupHere(name) = 0 => <<Last(scopes), name>> \notin DOMAIN symTableTag
         /\ Lookup(name) = 0 => LookupHere(name) = 0
<1> DEFINE at == {i \in 1..Len(scopes) : <<scopes[i], name>> \in DOMAIN symTableTag}
<1>1. /\ \A key \in DOMAIN symTableTag : symTableTag[key] \in Ids /\ KeyOf(symTableTag[key]) = key
      /\ 0 \notin Ids
  BY DEF TableInv, TypeOK, Keyed, Ids
<1>2. Len(scopes) \in Nat /\ Len(scopes) \in 1..Len(scopes)
  BY EmptySeq, LenProperties DEF TableInv, Shapes, TypeOK
<1>3. CASE at = {}
  <2>1. <<Last(scopes), name>> \notin DOMAIN symTableTag
    BY <1>2, <1>3 DEF Last
  <2> QED BY <1>3, <2>1 DEF Lookup, LookupHere
<1>4. CASE at # {}
  <2> DEFINE top == CHOOSE i \in at : \A j \in at : j <= i
  <2>1. \E i \in at : \A j \in at : j <= i
    <3>1. at \in SUBSET (1..Len(scopes))
      OBVIOUS
    <3> HIDE DEF at
    <3> QED BY <1>2, <1>4, <3>1, LastPosition
  <2>2. top \in at
    BY <2>1
  <2>3. Lookup(name) = symTableTag[<<scopes[top], name>>]
    BY <1>4 DEF Lookup
  <2>4. Lookup(name) \in Ids
    BY <1>1, <2>2, <2>3
  <2> QED BY <1>1, <2>4 DEF LookupHere
<1> QED BY <1>3, <1>4

\* Two records that differ in their brothers at most.
Alike(x, y) == /\ x.family = y.family /\ x.name = y.name /\ x.scope = y.scope
               /\ x.typ = y.typ /\ x.parents = y.parents /\ x.nested = y.nested

LEMMA BrothersSet ==
  ASSUME NEW r \in TagRecord, NEW v \in Nat
  PROVE  LET s == [r EXCEPT !.brothers = v]
         IN  s \in TagRecord /\ Alike(s, r) /\ s.brothers = v
BY DEF TagRecord, Alike

Created(new) == /\ tags' \in Seq(TagRecord) /\ Len(tags') = Len(tags) + 1
                /\ \A id \in Ids : Alike(tags'[id], tags[id])
                /\ Alike(tags'[NewTag], new)

\* The first tag of its key, or one more.
Entered(new) ==
  /\ <<new.scope, new.name>> \notin DOMAIN symTableTag
  /\ Put(<<new.scope, new.name>>, NewTag)
  /\ flushed_list' = flushed_list
  /\ tags'[NewTag].brothers = 0
  /\ \A id \in Ids : tags'[id].brothers = tags[id].brothers

Beside(old) ==
  \E v \in 1..Len(tags) :
    /\ tags[old].brothers \in {0, v}
    /\ tags'[old].brothers = v /\ tags'[NewTag].brothers = v
    /\ \A id \in Ids \ {old} : tags'[id].brothers = tags[id].brothers

Joined(new) ==
  LET key == <<new.scope, new.name>>
      old == symTableTag[key]
  IN  /\ key \in DOMAIN symTableTag /\ Beside(old)
      /\ \/ /\ UNCHANGED <<symTableTag, flushed_list>> /\ errors' > errors
         \/ /\ symTableTag' = symTableTag /\ flushed_list' = flushed_list \cup {NewTag}
            /\ isComplete(old)
         \/ /\ Put(key, NewTag) /\ flushed_list' = flushed_list \cup {old}
            /\ ~isComplete(old)

Added(new) == Created(new) /\ (Entered(new) \/ Joined(new))

LEMMA AddTagEffect ==
  ASSUME TableInv, NEW new \in TagRecord, NEW n \in Nat,
         new.scope = Last(scopes), new.brothers = 0, addTag(new, n)
  PROVE  Added(new) /\ errors' \in Nat /\ errors' >= errors + n
<1> DEFINE key == <<new.scope, new.name>>
           old == LookupHere(new.name)
           v == IF old = 0 THEN 0
                ELSE IF tags[old].brothers = 0 THEN old ELSE tags[old].brothers
<1>1. /\ tags \in Seq(TagRecord) /\ Len(tags) \in Nat /\ errors \in Nat
      /\ NewTag = Len(tags) + 1 /\ Ids = 1..Len(tags)
      /\ \A id \in Ids : tags[id] \in TagRecord /\ tags[id].brothers \in 0..Len(tags)
  BY LenProperties, ElementOfSeq DEF TableInv, Shapes, TypeOK, NewTag, Ids
<1>2. errors' \in Nat /\ errors' >= errors + n
  BY <1>1 DEF addTag
<1>3. CASE old = 0
  <2>1. tags' = Append(tags, new) /\ Put(key, NewTag) /\ flushed_list' = flushed_list
    BY <1>3 DEF addTag
  <2>2. key \notin DOMAIN symTableTag
    BY <1>3, LookupFinds
  <2>3. /\ tags' \in Seq(TagRecord) /\ Len(tags') = Len(tags) + 1
        /\ tags'[NewTag] = new /\ \A id \in Ids : tags'[id] = tags[id]
    BY <1>1, <2>1, AppendProperties
  <2> QED BY <1>2, <2>1, <2>2, <2>3 DEF Added, Created, Entered, Alike
<1>4. CASE old # 0
  <2>1. old \in Ids /\ key \in DOMAIN symTableTag /\ old = symTableTag[key]
    BY <1>4, LookupFinds
  <2>2. v \in 1..Len(tags) /\ tags[old].brothers \in {0, v}
    BY <1>1, <1>4, <2>1
  <2> DEFINE one == [tags EXCEPT ![old].brothers = v]
             two == [new EXCEPT !.brothers = v]
  <2>3. tags' = Append(one, two)
    BY <1>4 DEF addTag
  <2>4. /\ one \in Seq(TagRecord) /\ Len(one) = Len(tags)
        /\ \A id \in Ids : Alike(one[id], tags[id])
        /\ one[old].brothers = v
        /\ \A id \in Ids \ {old} : one[id].brothers = tags[id].brothers
    <3>1. /\ [tags[old] EXCEPT !.brothers = v] \in TagRecord
          /\ Alike([tags[old] EXCEPT !.brothers = v], tags[old])
          /\ [tags[old] EXCEPT !.brothers = v].brothers = v
      <4> HIDE DEF v, old
      <4>1. v \in Nat /\ tags[old] \in TagRecord
        BY <1>1, <2>1, <2>2
      <4> QED BY <4>1, BrothersSet
    <3>2. one = [tags EXCEPT ![old] = [tags[old] EXCEPT !.brothers = v]]
      OBVIOUS
    <3>3. /\ one \in Seq(TagRecord) /\ Len(one) = Len(tags)
          /\ \A id \in Ids : one[id] = IF id = old THEN [tags[old] EXCEPT !.brothers = v]
                                       ELSE tags[id]
      <4> HIDE DEF v, one
      <4> QED BY <1>1, <2>1, <3>1, <3>2, ExceptSeq
    <3>4. tags[old] \in TagRecord
      BY <1>1, <2>1
    <3> HIDE DEF v, one
    <3> QED BY <2>1, <3>1, <3>3, <3>4 DEF Alike
  <2>5. two \in TagRecord /\ Alike(two, new) /\ two.brothers = v
    <3> HIDE DEF v
    <3>1. v \in Nat
      BY <1>1, <2>2
    <3> QED BY <3>1, BrothersSet
  <2>6. /\ tags' \in Seq(TagRecord) /\ Len(tags') = Len(tags) + 1
        /\ tags'[NewTag] = two /\ \A id \in Ids : tags'[id] = one[id]
    <3> HIDE DEF one, two
    <3> QED BY <1>1, <2>3, <2>4, <2>5, AppendProperties
  <2>7. Created(new) /\ Beside(old)
    <3> HIDE DEF one, two, v, old
    <3> QED BY <2>1, <2>2, <2>4, <2>5, <2>6 DEF Created, Beside
  <2>8. \/ UNCHANGED <<symTableTag, flushed_list>> /\ errors' > errors
        \/ /\ symTableTag' = symTableTag /\ flushed_list' = flushed_list \cup {NewTag}
           /\ isComplete(old)
        \/ /\ Put(key, NewTag) /\ flushed_list' = flushed_list \cup {old}
           /\ ~isComplete(old)
    <3>1. CASE tags[old].family # new.family
      BY <1>1, <1>4, <3>1 DEF addTag
    <3>2. CASE tags[old].family = new.family /\ isComplete(old)
      BY <1>4, <3>2 DEF addTag
    <3>3. CASE tags[old].family = new.family /\ ~isComplete(old)
      BY <1>4, <3>3 DEF addTag
    <3> QED BY <3>1, <3>2, <3>3
  <2>9. Joined(new)
    <3> HIDE DEF old
    <3> QED BY <2>1, <2>7, <2>8 DEF Joined
  <2> QED BY <1>2, <2>7, <2>9 DEF Added
<1> QED BY <1>3, <1>4

-----------------------------------------------------------------------------
(* The table and the types of tags.                                         *)

\* A step that creates no tag, nor changes what a tag is.
LEMMA TableKept ==
  ASSUME TableInv, Shapes', TypeOK', Len(tags') = Len(tags), errors' >= errors,
         \A id \in Ids : /\ tags'[id].name = tags[id].name /\ tags'[id].scope = tags[id].scope
                         /\ tags'[id].typ = tags[id].typ
                         /\ tags'[id].brothers = tags[id].brothers,
         UNCHANGED <<symTableTag, flushed_list>>
  PROVE  TableInv'
<1>1. Ids' = Ids /\ \A id \in Ids : KeyOf(id)' = KeyOf(id) /\ Brothers(id)' = Brothers(id)
  BY DEF Ids, KeyOf, Brothers
<1>2. Keyed'
  <2>1. \A key \in DOMAIN symTableTag : symTableTag[key] \in Ids
    BY DEF TableInv, TypeOK
  <2>2. \A id \in Ids : KeyOf(id) \in DOMAIN symTableTag
    BY DEF TableInv, Keyed
  <2>3. \A key \in DOMAIN symTableTag : KeyOf(symTableTag[key]) = key
    BY DEF TableInv, Keyed
  <2>4. \A key \in DOMAIN symTableTag : KeyOf(symTableTag[key])' = key
    BY <1>1, <2>1, <2>3 DEF KeyOf
  <2> QED BY <1>1, <2>2, <2>4 DEF Keyed
<1>3. OneTypePerTag'
  <2>1. errors' = 0 => errors = 0
    BY DEF TableInv, Shapes
  <2> QED BY <1>1, <2>1 DEF TableInv, OneTypePerTag
<1>4. TagsStayAttached'
  BY <1>1 DEF TableInv, TagsStayAttached
<1> QED BY <1>2, <1>3, <1>4 DEF TableInv

\* A new tag: if one of its key is there, and no error was raised, they have
\* one type.
LEMMA TableGrows ==
  ASSUME TableInv, Shapes', TypeOK', errors' >= errors,
         NEW new \in TagRecord, Added(new),
         errors' = 0 /\ <<new.scope, new.name>> \in DOMAIN symTableTag =>
           tags[symTableTag[<<new.scope, new.name>>]].typ = new.typ
  PROVE  TableInv'
<1> DEFINE key == <<new.scope, new.name>>
<1>1. /\ Len(tags) \in Nat /\ NewTag = Len(tags) + 1 /\ Ids = 1..Len(tags)
      /\ Ids' = Ids \cup {NewTag} /\ NewTag \notin Ids
  BY LenProperties DEF TableInv, Shapes, NewTag, Ids, Added, Created
<1>2. /\ \A id \in Ids : KeyOf(id)' = KeyOf(id) /\ tags'[id].typ = tags[id].typ
      /\ <<tags'[NewTag].scope, tags'[NewTag].name>> = key /\ tags'[NewTag].typ = new.typ
  BY DEF KeyOf, Added, Created, Alike
<1>3. /\ \A k \in DOMAIN symTableTag : symTableTag[k] \in Ids /\ KeyOf(symTableTag[k]) = k
      /\ \A id \in Ids : KeyOf(id) \in DOMAIN symTableTag
      /\ flushed_list \subseteq Ids
  BY DEF TableInv, TypeOK, Keyed
<1>4. /\ DOMAIN symTableTag' = DOMAIN symTableTag \cup {key}
      /\ \A k \in DOMAIN symTableTag \ {key} : symTableTag'[k] = symTableTag[k]
      /\ \/ symTableTag'[key] = NewTag
         \/ key \in DOMAIN symTableTag /\ symTableTag'[key] = symTableTag[key]
  BY DEF Added, Entered, Joined, Put
<1>5. Keyed'
  <2>1. \A k \in DOMAIN symTableTag' :
          \/ k = key /\ symTableTag'[k] = NewTag
          \/ k \in DOMAIN symTableTag /\ symTableTag'[k] = symTableTag[k]
    BY <1>4
  <2>2. ASSUME NEW k \in DOMAIN symTableTag' PROVE KeyOf(symTableTag[k])' = k
    <3>1. CASE k = key /\ symTableTag'[k] = NewTag
      BY <1>2, <3>1 DEF KeyOf
    <3>2. CASE k \in DOMAIN symTableTag /\ symTableTag'[k] = symTableTag[k]
      <4>1. symTableTag[k] \in Ids /\ KeyOf(symTableTag[k]) = k
        BY <1>3, <3>2
      <4> QED BY <1>2, <3>2, <4>1 DEF KeyOf
    <3> QED BY <2>1, <2>2, <3>1, <3>2
  <2>3. \A id \in Ids' : KeyOf(id)' \in DOMAIN symTableTag'
    <3> SUFFICES ASSUME NEW id \in Ids' PROVE KeyOf(id)' \in DOMAIN symTableTag'
      OBVIOUS
    <3>1. CASE id \in Ids
      BY <1>2, <1>3, <1>4, <3>1
    <3>2. CASE id = NewTag
      <4>1. KeyOf(id)' = <<tags'[id].scope, tags'[id].name>>
        BY DEF KeyOf
      <4>2. KeyOf(id)' = key
        BY <3>2, <4>1 DEF Added, Created, Alike
      <4> QED BY <1>4, <4>2
    <3> QED BY <1>1, <3>1, <3>2
  <2> QED BY <2>2, <2>3 DEF Keyed
<1>6. OneTypePerTag'
  <2> SUFFICES ASSUME errors' = 0, NEW x \in Ids', NEW y \in Ids', KeyOf(x)' = KeyOf(y)'
               PROVE  tags'[x].typ = tags'[y].typ
    BY DEF OneTypePerTag
  <2>1. errors = 0
    BY DEF TableInv, Shapes
  <2>2. \A u, v \in Ids : KeyOf(u) = KeyOf(v) => tags[u].typ = tags[v].typ
    BY <2>1 DEF TableInv, OneTypePerTag
  <2>3. \A u \in Ids : KeyOf(u) = key => tags[u].typ = new.typ
    BY <1>3, <2>1, <2>2
  <2>4. \A u \in {NewTag} : KeyOf(u)' = key
    BY DEF KeyOf, Added, Created, Alike
  <2> QED BY <1>1, <1>2, <2>2, <2>3, <2>4
<1>7. TagsStayAttached'
  <2> SUFFICES ASSUME NEW id \in Ids'
               PROVE  /\ symTableTag'[KeyOf(id)'] \in Brothers(id)'
                      /\ id \in flushed_list' => symTableTag'[KeyOf(id)'] # id
    BY <1>5 DEF TagsStayAttached, Keyed
  <2>1. Brothers(id)' = {b \in Ids' : b = id \/ (tags'[id].brothers # 0
                                        /\ tags'[b].brothers = tags'[id].brothers)}
    BY DEF Brothers, Ids
  <2>2. ASSUME id \in Ids
        PROVE  /\ KeyOf(id) \in DOMAIN symTableTag /\ symTableTag[KeyOf(id)] \in Ids
               /\ \/ symTableTag[KeyOf(id)] = id
                  \/ /\ tags[id].brothers # 0
                     /\ tags[symTableTag[KeyOf(id)]].brothers = tags[id].brothers
               /\ id \in flushed_list => symTableTag[KeyOf(id)] # id
    BY <1>3, <2>2 DEF TableInv, TagsStayAttached, Brothers
  <2>3. KeyOf(id)' = IF id = NewTag THEN key ELSE KeyOf(id)
    <3>1. KeyOf(id)' = <<tags'[id].scope, tags'[id].name>>
      BY DEF KeyOf
    <3>2. id = NewTag => KeyOf(id)' = key
      BY <3>1 DEF Added, Created, Alike
    <3> QED BY <1>1, <1>2, <3>2
  <2>4. CASE Entered(new)
    <3>1. /\ key \notin DOMAIN symTableTag /\ symTableTag'[key] = NewTag
          /\ flushed_list' = flushed_list
          /\ \A i \in Ids : tags'[i].brothers = tags[i].brothers
      BY <2>4 DEF Entered, Put
    <3>2. CASE id = NewTag
      BY <1>1, <1>3, <2>1, <2>3, <3>1, <3>2
    <3>3. CASE id \in Ids
      <4>1. KeyOf(id) # key /\ symTableTag'[KeyOf(id)] = symTableTag[KeyOf(id)]
        BY <1>4, <2>2, <3>1, <3>3
      <4> QED BY <1>1, <2>1, <2>2, <2>3, <3>1, <3>3, <4>1
    <3> QED BY <1>1, <3>2, <3>3
  <2>5. CASE Joined(new)
    <3> DEFINE old == symTableTag[key]
    <3>1. key \in DOMAIN symTableTag /\ old \in Ids /\ KeyOf(old) = key
      BY <1>3, <2>5 DEF Joined
    <3>2. PICK v \in 1..Len(tags) :
            /\ tags[old].brothers \in {0, v}
            /\ tags'[old].brothers = v /\ tags'[NewTag].brothers = v
            /\ \A i \in Ids \ {old} : tags'[i].brothers = tags[i].brothers
      BY <2>5 DEF Joined, Beside
    <3>3. v # 0
      OBVIOUS
    <3>4. \/ symTableTag' = symTableTag /\ flushed_list' \subseteq flushed_list \cup {NewTag}
          \/ symTableTag'[key] = NewTag /\ flushed_list' = flushed_list \cup {old}
      BY <2>5, <3>1 DEF Joined, Put
    <3>5. symTableTag'[key] \in {old, NewTag}
      BY <3>4
    <3>6. CASE id = NewTag
      <4>1. symTableTag'[key] \in Brothers(id)'
        BY <1>1, <2>1, <3>1, <3>2, <3>3, <3>5, <3>6
      <4>2. id \in flushed_list' => symTableTag'[key] # id
        BY <1>1, <1>3, <3>1, <3>4, <3>6
      <4> QED BY <2>3, <3>6, <4>1, <4>2
    <3>7. CASE id \in Ids /\ KeyOf(id) = key
      <4>1. tags'[id].brothers = v
        BY <2>2, <3>2, <3>3, <3>7
      <4>2. symTableTag'[key] \in Brothers(id)'
        BY <1>1, <2>1, <3>1, <3>2, <3>3, <3>5, <3>7, <4>1
      <4>3. id \in flushed_list' => symTableTag'[key] # id
        BY <1>1, <2>2, <3>1, <3>4, <3>7
      <4> QED BY <1>1, <2>3, <3>7, <4>2, <4>3
    <3>8. CASE id \in Ids /\ KeyOf(id) # key
      <4>1. symTableTag'[KeyOf(id)] = symTableTag[KeyOf(id)] /\ id # old
        BY <1>4, <2>2, <3>1, <3>8
      <4>2. symTableTag[KeyOf(id)] # old
        BY <1>3, <2>2, <3>1, <3>8
      <4>3. id \in flushed_list' => id \in flushed_list
        BY <1>1, <3>4, <3>8, <4>1
      <4> HIDE DEF old
      <4> QED BY <1>1, <2>1, <2>2, <2>3, <3>2, <3>8, <4>1, <4>2, <4>3
    <3> QED BY <1>1, <3>6, <3>7, <3>8
  <2> QED BY <2>4, <2>5 DEF Added
<1> QED BY <1>5, <1>6, <1>7 DEF TableInv

-----------------------------------------------------------------------------
(* The steps of the walk.                                                   *)

LEMMA FrontFacts ==
  ASSUME NEW S, NEW s \in Seq(S), s # << >>
  PROVE  /\ Front(s) \in Seq(S) /\ Len(s) \in Nat \ {0} /\ Len(Front(s)) = Len(s) - 1
         /\ \A i \in 1..(Len(s) - 1) : Front(s)[i] = s[i]
         /\ Last(s) \in S
<1>1. Len(s) \in Nat \ {0} /\ \A i \in 1..(Len(s) - 1) : s[i] \in S
  BY EmptySeq, ElementOfSeq, LenProperties
<1> DEFINE n == Len(s) - 1
<1>2. n \in Nat /\ \A i \in 1..n : s[i] \in S
  BY <1>1
<1> HIDE DEF n
<1>3. /\ SubSeq(s, 1, n) \in Seq(S) /\ Len(SubSeq(s, 1, n)) = IF 1 <= n THEN n - 1 + 1 ELSE 0
      /\ \A i \in 1..(n - 1 + 1) : SubSeq(s, 1, n)[i] = s[1 + i - 1]
  BY <1>2, SubSeqProperties
<1>4. Len(SubSeq(s, 1, n)) = n /\ \A i \in 1..n : SubSeq(s, 1, n)[i] = s[i]
  BY <1>2, <1>3
<1>5. Last(s) \in S
  <2>1. Len(s) \in 1..Len(s)
    BY <1>1
  <2> QED BY <2>1, ElementOfSeq DEF Last
<1> QED BY <1>1, <1>3, <1>4, <1>5 DEF Front, n

LEMMA ReferencedFacts ==
  ASSUME NEW stack \in Seq(BodyRecord), NEW ids \in SUBSET Nat
  PROVE  /\ Referenced(stack, ids) \in Seq(BodyRecord)
         /\ Len(Referenced(stack, ids)) = Len(stack)
         /\ \A i \in 1..Len(stack) :
              /\ Referenced(stack, ids)[i].id = stack[i].id
              /\ Referenced(stack, ids)[i].refs \subseteq stack[i].refs \cup ids
<1>1. CASE stack = << >>
  BY <1>1 DEF Referenced
<1>2. CASE stack # << >>
  <2>1. Len(stack) \in 1..Len(stack) /\ \A i \in 1..Len(stack) : stack[i] \in BodyRecord
    BY <1>2, EmptySeq, ElementOfSeq
  <2> DEFINE top == stack[Len(stack)]
             new == [top EXCEPT !.refs = @ \cup ids]
  <2>2. new \in BodyRecord /\ new.id = top.id /\ new.refs = top.refs \cup ids
    <3>1. top \in BodyRecord
      BY <2>1
    <3> HIDE DEF top
    <3> QED BY <3>1 DEF BodyRecord
  <2>3. Referenced(stack, ids) = [stack EXCEPT ![Len(stack)] = new]
    BY <1>2 DEF Referenced
  <2> HIDE DEF new
  <2> QED BY <2>1, <2>2, <2>3, ExceptSeq
<1> QED BY <1>1, <1>2

\* What the types say, unfolded.
LEMMA TableFacts ==
  ASSUME TableInv
  PROVE  /\ tags \in Seq(TagRecord) /\ Len(tags) \in Nat /\ Ids = 1..Len(tags)
         /\ complete \in Seq(BOOLEAN) /\ Len(complete) \in Nat
         /\ scopes \in Seq(Nat) /\ scopes # << >> /\ Last(scopes) \in Nat
         /\ open \in Seq(BodyRecord) /\ Len(open) \in Nat
         /\ errors \in Nat /\ pushed \in 0..MaxScopes
         /\ flushed_list \subseteq Ids
         /\ \A id \in Ids : /\ tags[id] \in TagRecord /\ tags[id].typ \in 1..Len(complete)
                            /\ tags[id].parents \subseteq Ids
                            /\ tags[id].brothers \in 0..Len(tags)
         /\ \A key \in DOMAIN symTableTag : symTableTag[key] \in Ids
         /\ \A i \in 1..Len(open) : /\ open[i] \in BodyRecord /\ open[i].id \in Ids
                                    /\ open[i].refs \subseteq Ids
<1>1. Last(scopes) \in Nat
  BY FrontFacts DEF TableInv, Shapes, TypeOK
<1>2. /\ \A id \in 1..Len(tags) : tags[id] \in TagRecord
      /\ \A i \in 1..Len(open) : open[i] \in BodyRecord
  BY ElementOfSeq DEF TableInv, Shapes
<1> QED BY <1>1, <1>2, LenProperties DEF TableInv, Shapes, TypeOK, Ids

\* A step that leaves the tags alone.
LEMMA TableQuiet ==
  ASSUME TableInv, UNCHANGED <<symTableTag, tags, complete, flushed_list>>,
         scopes' \in Seq(Nat), scopes' # << >>, pushed' \in 0..MaxScopes,
         open' \in Seq(BodyRecord),
         \A i \in 1..Len(open') : open'[i].id \in Ids /\ open'[i].refs \subseteq Ids,
         errors' \in Nat, errors' >= errors
  PROVE  TableInv'
<1>1. Ids' = Ids
  BY DEF Ids
<1>2. Shapes'
  BY DEF TableInv, Shapes
<1>3. TypeOK'
  BY <1>1 DEF TableInv, TypeOK
<1> QED BY <1>2, <1>3, TableKept

LEMMA TablePush ==
  ASSUME TableInv, PushScope
  PROVE  TableInv'
<1>1. /\ pushed \in 0..MaxScopes /\ scopes \in Seq(Nat) /\ open \in Seq(BodyRecord)
      /\ errors \in Nat
      /\ \A i \in 1..Len(open) : open[i].id \in Ids /\ open[i].refs \subseteq Ids
  BY TableFacts
<1>2. pushed' \in 0..MaxScopes /\ pushed' \in Nat /\ scopes' = Append(scopes, pushed')
  BY <1>1, TagTableAssumption DEF PushScope
<1>3. scopes' \in Seq(Nat) /\ scopes' # << >>
  BY <1>1, <1>2, AppendProperties
<1>4. UNCHANGED <<symTableTag, tags, complete, flushed_list, open, errors>>
  BY DEF PushScope
<1> QED BY <1>1, <1>2, <1>3, <1>4, TableQuiet

LEMMA TablePop ==
  ASSUME TableInv, PopScope
  PROVE  TableInv'
<1>1. /\ pushed \in 0..MaxScopes /\ scopes \in Seq(Nat) /\ scopes # << >>
      /\ open \in Seq(BodyRecord) /\ errors \in Nat
      /\ \A i \in 1..Len(open) : open[i].id \in Ids /\ open[i].refs \subseteq Ids
  BY TableFacts
<1>2. Len(scopes) > 1 /\ scopes' = Front(scopes)
      /\ UNCHANGED <<pushed, symTableTag, tags, complete, flushed_list, open, errors>>
  BY DEF PopScope
<1>3. scopes' \in Seq(Nat) /\ Len(scopes') # 0
  BY <1>1, <1>2, FrontFacts
<1>4. scopes' # << >>
  BY <1>3, EmptySeq
<1> QED BY <1>1, <1>2, <1>3, <1>4, TableQuiet

LEMMA TableMentionOld ==
  ASSUME TableInv, NEW old \in Ids, errors' \in Nat, errors' >= errors,
         open' = Referenced(open, {old}),
         UNCHANGED <<symTableTag, tags, complete, flushed_list, scopes, pushed>>
  PROVE  TableInv'
<1>1. {old} \in SUBSET Nat
  BY TableFacts
<1> HIDE DEF Ids
<1>2. /\ open' \in Seq(BodyRecord) /\ Len(open') = Len(open)
      /\ \A i \in 1..Len(open) : /\ open'[i].id = open[i].id
                                 /\ open'[i].refs \subseteq open[i].refs \cup {old}
  BY <1>1, TableFacts, ReferencedFacts
<1>3. \A i \in 1..Len(open') : open'[i].id \in Ids /\ open'[i].refs \subseteq Ids
  BY <1>2, TableFacts
<1> QED BY <1>2, <1>3, TableQuiet, TableFacts

\* The end of a body.
EndedOpen == /\ open' \in Seq(BodyRecord) /\ Len(open') = Len(open) - 1
             /\ \A i \in 1..(Len(open) - 1) :
                  /\ open'[i].id = open[i].id
                  /\ open'[i].refs \subseteq open[i].refs
                       \cup (IF is_split /\ ~Last(open).error THEN {Last(open).id}
                             ELSE Last(open).refs)

LEMMA EndTagOpens ==
  ASSUME TableInv, EndTag
  PROVE  /\ EndedOpen /\ Len(open) \in Nat \ {0} /\ Last(open) = open[Len(open)]
         /\ Last(open).id \in Ids /\ Last(open).refs \subseteq Ids
<1> DEFINE b == Last(open)
           seen == IF is_split /\ ~b.error THEN {b.id} ELSE b.refs
<1>1. open # << >> /\ open' = Referenced(Front(open), seen)
  BY DEF EndTag
<1>2. /\ Front(open) \in Seq(BodyRecord) /\ Len(open) \in Nat \ {0}
      /\ Len(Front(open)) = Len(open) - 1
      /\ \A i \in 1..(Len(open) - 1) : Front(open)[i] = open[i]
  BY <1>1, TableFacts, FrontFacts
<1>3. Len(open) \in 1..Len(open) /\ b = open[Len(open)]
  BY <1>2 DEF Last
<1>4. b.id \in Ids /\ b.refs \subseteq Ids
  BY <1>3, TableFacts
<1>5. seen \in SUBSET Nat
  BY <1>4, TableFacts
<1> HIDE DEF seen
<1>6. /\ open' \in Seq(BodyRecord) /\ Len(open') = Len(open) - 1
      /\ \A i \in 1..(Len(open) - 1) :
           /\ open'[i].id = open[i].id
           /\ open'[i].refs \subseteq open[i].refs \cup seen
  BY <1>1, <1>2, <1>5, ReferencedFacts
<1> QED BY <1>2, <1>3, <1>4, <1>6 DEF EndedOpen, seen

\* Of the tags, only the parents of the one of the body change.
EndedTags ==
  /\ tags' \in Seq(TagRecord) /\ Len(tags') = Len(tags)
  /\ \A id \in Ids :
       /\ tags'[id].name = tags[id].name /\ tags'[id].scope = tags[id].scope
       /\ tags'[id].typ = tags[id].typ /\ tags'[id].brothers = tags[id].brothers
       /\ tags'[id].nested = tags[id].nested
       /\ \/ tags'[id].parents = tags[id].parents
          \/ id = Last(open).id /\ tags'[id].parents = Last(open).refs \ {id}
  /\ complete' \in Seq(BOOLEAN) /\ Len(complete') = Len(complete)
  /\ \A y \in 1..Len(complete) : complete[y] => complete'[y]

LEMMA EndTagTags ==
  ASSUME TableInv, EndTag
  PROVE  EndedTags
<1> DEFINE b == Last(open)
           y == tags[b.id].typ
<1>1. b.id \in Ids /\ b.refs \subseteq Ids
  BY EndTagOpens
<1>2. CASE b.error
  <2>1. UNCHANGED <<complete, tags>>
    BY <1>2 DEF EndTag
  <2> QED BY <2>1, TableFacts DEF EndedTags
<1>3. CASE ~b.error
  <2>1. /\ complete' = [complete EXCEPT ![y] = TRUE]
        /\ tags' = [tags EXCEPT ![b.id].parents = b.refs \ {b.id}]
    BY <1>3 DEF EndTag, ParentsOf
  <2>2. y \in 1..Len(complete)
    BY <1>1, TableFacts
  <2>3. /\ complete' \in Seq(BOOLEAN) /\ Len(complete') = Len(complete)
        /\ \A z \in 1..Len(complete) : complete[z] => complete'[z]
    <3> HIDE DEF y
    <3>1. /\ complete' \in Seq(BOOLEAN) /\ Len(complete') = Len(complete)
      BY <2>1, <2>2, TableFacts, ExceptSeq
    <3>2. DOMAIN complete = 1..Len(complete)
      BY TableFacts, LenProperties
    <3> QED BY <2>1, <3>1, <3>2
  <2> DEFINE ps == b.refs \ {b.id}
             new == [tags[b.id] EXCEPT !.parents = ps]
  <2>4. /\ new \in TagRecord /\ new.parents = ps
        /\ new.name = tags[b.id].name /\ new.scope = tags[b.id].scope
        /\ new.typ = tags[b.id].typ /\ new.brothers = tags[b.id].brothers
        /\ new.nested = tags[b.id].nested
    <3>1. tags[b.id] \in TagRecord /\ ps \in SUBSET Nat
      BY <1>1, TableFacts
    <3> HIDE DEF ps
    <3> QED BY <3>1 DEF TagRecord
  <2>5. tags' = [tags EXCEPT ![b.id] = new]
    BY <2>1
  <2>6. /\ tags' \in Seq(TagRecord) /\ Len(tags') = Len(tags)
        /\ \A id \in Ids : tags'[id] = IF id = b.id THEN new ELSE tags[id]
    <3> HIDE DEF new, b
    <3> QED BY <1>1, <2>4, <2>5, TableFacts, ExceptSeq
  <2> HIDE DEF new
  <2> QED BY <2>3, <2>4, <2>6 DEF EndedTags
<1> QED BY <1>2, <1>3

LEMMA TableEndTag ==
  ASSUME TableInv, EndTag
  PROVE  TableInv'
<1>1. EndedTags /\ EndedOpen /\ Len(open) \in Nat \ {0} /\ Last(open) = open[Len(open)]
      /\ Last(open).id \in Ids /\ Last(open).refs \subseteq Ids
  BY EndTagTags, EndTagOpens
<1>2. UNCHANGED <<scopes, pushed, symTableTag, flushed_list, errors>>
  BY DEF EndTag
<1>3. Ids' = Ids
  BY <1>1 DEF Ids, EndedTags
<1>4. Shapes'
  <2>1. scopes \in Seq(Nat) /\ errors \in Nat /\ Len(tags) <= MaxTags
    BY DEF TableInv, Shapes
  <2> QED BY <1>1, <1>2, <2>1 DEF Shapes, EndedTags, EndedOpen
<1>5. \A i \in 1..Len(open') : open'[i].id \in Ids /\ open'[i].refs \subseteq Ids
  <2> SUFFICES ASSUME NEW i \in 1..(Len(open) - 1)
               PROVE  open'[i].id \in Ids /\ open'[i].refs \subseteq Ids
    BY <1>1 DEF EndedOpen
  <2>1. open[i].id \in Ids /\ open[i].refs \subseteq Ids
    BY <1>1, TableFacts
  <2> QED BY <1>1, <2>1 DEF EndedOpen
<1>6. \A id \in Ids : /\ tags'[id].typ \in 1..Len(complete')
                      /\ tags'[id].parents \subseteq Ids
                      /\ tags'[id].brothers \in 0..Len(tags')
  BY <1>1, TableFacts DEF EndedTags
<1>7. TypeOK'
  BY <1>2, <1>3, <1>5, <1>6 DEF TableInv, TypeOK
<1> QED BY <1>1, <1>2, <1>4, <1>7, TableFacts, TableKept DEF EndedTags

\* A step that creates a tag.
LEMMA TableNewTag ==
  ASSUME TableInv, HasRoom, NEW new \in TagRecord, NEW n \in Nat,
         new.scope = Last(scopes), new.brothers = 0, new.parents = {}, addTag(new, n),
         complete' \in Seq(BOOLEAN), Len(complete') >= Len(complete),
         new.typ \in 1..Len(complete'), open' \in Seq(BodyRecord),
         \A i \in 1..Len(open') : open'[i].id \in 1..NewTag /\ open'[i].refs \subseteq 1..NewTag,
         UNCHANGED <<scopes, pushed>>,
         errors' = 0 /\ <<new.scope, new.name>> \in DOMAIN symTableTag =>
           tags[symTableTag[<<new.scope, new.name>>]].typ = new.typ
  PROVE  TableInv' /\ Added(new) /\ Ids' = Ids \cup {NewTag}
<1>1. Added(new) /\ errors' \in Nat /\ errors' >= errors
  BY AddTagEffect DEF TableInv, Shapes
<1>2. /\ Len(tags) \in Nat /\ Len(tags) < MaxTags /\ NewTag = Len(tags) + 1
      /\ Ids = 1..Len(tags) /\ Ids' = 1..NewTag
      /\ Ids' = Ids \cup {NewTag} /\ tags' \in Seq(TagRecord) /\ Len(tags') = NewTag
  <2>1. Len(tags) \in Nat /\ Ids = 1..Len(tags)
    BY TableFacts
  <2>2. tags' \in Seq(TagRecord) /\ Len(tags') = Len(tags) + 1
    BY <1>1 DEF Added, Created
  <2>3. Len(tags) < MaxTags /\ NewTag = Len(tags) + 1 /\ Ids' = 1..Len(tags')
    BY DEF HasRoom, NewTag, Ids
  <2> QED BY <2>1, <2>2, <2>3
<1>3. Shapes'
  BY <1>1, <1>2, TagTableAssumption DEF TableInv, Shapes
<1>4. ASSUME NEW id \in Ids'
      PROVE  /\ tags'[id].typ \in 1..Len(complete') /\ tags'[id].parents \subseteq Ids'
             /\ tags'[id].brothers \in 0..Len(tags')
  <2>1. CASE id \in Ids
    <3>1. /\ tags[id].typ \in 1..Len(complete) /\ tags[id].parents \subseteq Ids
          /\ tags[id].brothers \in 0..Len(tags) /\ Len(complete) \in Nat
      BY <2>1, TableFacts
    <3>2. tags'[id].typ = tags[id].typ /\ tags'[id].parents = tags[id].parents
      BY <1>1, <2>1 DEF Added, Created, Alike
    <3>3. tags'[id].brothers = tags[id].brothers \/ tags'[id].brothers \in 1..Len(tags)
      BY <1>1, <2>1 DEF Added, Entered, Joined, Beside
    <3>4. Len(complete') \in Nat
      BY LenProperties
    <3> QED BY <1>2, <3>1, <3>2, <3>3, <3>4
  <2>2. CASE id = NewTag
    <3>1. tags'[id].typ = new.typ /\ tags'[id].parents = new.parents
      BY <1>1, <2>2 DEF Added, Created, Alike
    <3>2. tags'[id].brothers = 0 \/ tags'[id].brothers \in 1..Len(tags)
      BY <1>1, <2>2 DEF Added, Entered, Joined, Beside
    <3> QED BY <1>2, <3>1, <3>2
  <2> QED BY <1>2, <2>1, <2>2
<1>5. /\ \A key \in DOMAIN symTableTag' : symTableTag'[key] \in Ids'
      /\ flushed_list' \subseteq Ids'
  <2>1. /\ \A key \in DOMAIN symTableTag : symTableTag[key] \in Ids
        /\ flushed_list \subseteq Ids
    BY TableFacts
  <2> QED BY <1>1, <1>2, <2>1 DEF Added, Entered, Joined, Put
<1>6. TypeOK'
  <2>1. \A i \in 1..Len(open') : open'[i].id \in Ids' /\ open'[i].refs \subseteq Ids'
    BY <1>2
  <2>2. scopes' # << >> /\ pushed' \in 0..MaxScopes
    BY DEF TableInv, TypeOK
  <2> QED BY <1>1, <1>4, <1>5, <2>1, <2>2 DEF TypeOK
<1>7. TableInv'
  BY <1>1, <1>3, <1>6, TableGrows
<1> QED BY <1>1, <1>2, <1>7

LEMMA TagSymbolType ==
  ASSUME TableInv, NEW family \in Families, NEW name \in Names, NEW typ \in Nat
  PROVE  LET new == TagSymbol(family, name, typ)
         IN  /\ new \in TagRecord /\ new.scope = Last(scopes) /\ new.brothers = 0
             /\ new.parents = {} /\ new.typ = typ /\ new.name = name
             /\ new.nested = (open # << >>)
<1>1. Last(scopes) \in Nat
  BY TableFacts
<1> QED BY <1>1 DEF TagSymbol, TagRecord

\* What a creation does to what the body invariant is about.
OneMore(nested) ==
  /\ Ids' = Ids \cup {NewTag}
  /\ \A id \in Ids : tags'[id].nested = tags[id].nested /\ tags'[id].parents = tags[id].parents
  /\ tags'[NewTag].nested = nested /\ tags'[NewTag].parents = {}

\* What the definitions that follow need of a step: what is complete stays so,
\* and the table keeps its tag of the same key as long as no error is raised.
Settled(id) ==
  isComplete(id) => /\ isComplete(id)'
                    /\ errors' = 0 => symTableTag'[KeyOf(id)] = symTableTag[KeyOf(id)]
KeysStay == \A id \in Ids : KeyOf(id)' = KeyOf(id) /\ id \in Ids'

LEMMA NewTagSettled ==
  ASSUME TableInv, NEW new \in TagRecord, Added(new), errors' >= errors,
         Ids' = Ids \cup {NewTag},
         \A y \in 1..Len(complete) : complete'[y] = complete[y]
  PROVE  KeysStay /\ \A id \in Ids : Settled(id)
<1>1. \A id \in Ids : tags'[id].typ = tags[id].typ /\ tags[id].typ \in 1..Len(complete)
  BY TableFacts DEF Added, Created, Alike
<1>2. KeysStay
  BY DEF KeysStay, KeyOf, Added, Created, Alike
<1> DEFINE key == <<new.scope, new.name>>
<1>3. ASSUME NEW id \in Ids, isComplete(id), errors' = 0
      PROVE  symTableTag'[KeyOf(id)] = symTableTag[KeyOf(id)]
  <2>1. errors = 0
    BY <1>3 DEF TableInv, Shapes
  <2>2. KeyOf(id) \in DOMAIN symTableTag
    BY DEF TableInv, Keyed
  <2>3. key \in DOMAIN symTableTag /\ KeyOf(id) = key => isComplete(symTableTag[key])
    <3> SUFFICES ASSUME key \in DOMAIN symTableTag, KeyOf(id) = key
                 PROVE  isComplete(symTableTag[key])
      OBVIOUS
    <3>1. symTableTag[key] \in Ids /\ KeyOf(symTableTag[key]) = key
      BY DEF TableInv, TypeOK, Keyed
    <3>2. tags[symTableTag[key]].typ = tags[id].typ
      BY <2>1, <3>1 DEF TableInv, OneTypePerTag
    <3> QED BY <1>3, <3>2 DEF isComplete
  <2>4. CASE Entered(new)
    BY <2>2, <2>4 DEF Entered, Put
  <2>5. CASE Joined(new)
    BY <1>3, <2>1, <2>2, <2>3, <2>5 DEF Joined, Put
  <2> QED BY <2>4, <2>5 DEF Added
<1>4. ASSUME NEW id \in Ids, isComplete(id) PROVE isComplete(id)'
  BY <1>1, <1>4 DEF isComplete
<1> QED BY <1>2, <1>3, <1>4 DEF Settled

\* A body begins.
LEMMA BeginTagStep ==
  ASSUME TableInv, NEW family \in Families, NEW name \in Names, BeginTag(family, name)
  PROVE  /\ TableInv' /\ KeysStay /\ (\A id \in Ids : Settled(id)) /\ errors' >= errors
         /\ OneMore(open # << >>) /\ Len(open') = Len(open) + 1
         /\ \A i \in 1..Len(open) : open'[i] = open[i]
         /\ open'[Len(open) + 1].id = NewTag /\ open'[Len(open) + 1].refs = {}
<1> DEFINE old == LookupHere(name)
           error == old # 0 /\ (isComplete(old) \/ tags[old].family # family)
           shares == SharesType(old, family)
           typ == IF shares THEN tags[old].typ ELSE NewType
           new == TagSymbol(family, name, typ)
           n == IF error THEN 1 ELSE 0
           body == [id |-> NewTag, error |-> error, refs |-> {}, depth |-> Len(scopes)]
<1>1. /\ HasRoom /\ addTag(new, n)
      /\ complete' = IF shares THEN complete ELSE Append(complete, FALSE)
      /\ open' = Append(open, body)
      /\ UNCHANGED <<is_split, scopes, pushed>>
  BY DEF BeginTag
<1>2. old \in Ids \cup {0} /\ (old # 0 => old \in Ids /\ old = symTableTag[<<Last(scopes), name>>])
      /\ (old = 0 => <<Last(scopes), name>> \notin DOMAIN symTableTag)
  BY LookupFinds
<1>3. shares => old \in Ids
  BY <1>2 DEF SharesType
<1>4. /\ complete' \in Seq(BOOLEAN) /\ Len(complete') >= Len(complete)
      /\ typ \in 1..Len(complete') /\ typ \in Nat
      /\ \A y \in 1..Len(complete) : complete'[y] = complete[y]
  <2>1. complete \in Seq(BOOLEAN) /\ Len(complete) \in Nat
    BY TableFacts
  <2>2. CASE shares
    <3>1. tags[old].typ \in 1..Len(complete)
      BY <1>3, <2>2, TableFacts
    <3> QED BY <1>1, <2>1, <2>2, <3>1
  <2>3. CASE ~shares
    <3>1. FALSE \in BOOLEAN
      OBVIOUS
    <3>2. complete' = Append(complete, FALSE)
      BY <1>1, <2>3
    <3>3. /\ complete' \in Seq(BOOLEAN) /\ Len(complete') = Len(complete) + 1
          /\ \A y \in 1..Len(complete) : complete'[y] = complete[y]
      BY <2>1, <3>1, <3>2, AppendProperties
    <3>4. typ = Len(complete) + 1
      BY <2>3 DEF NewType
    <3> QED BY <2>1, <3>3, <3>4
  <2> QED BY <2>2, <2>3
<1>5. /\ new \in TagRecord /\ new.scope = Last(scopes) /\ new.brothers = 0
      /\ new.parents = {} /\ new.typ = typ /\ new.name = name /\ new.nested = (open # << >>)
  <2> HIDE DEF typ
  <2> QED BY <1>4, TagSymbolType
<1>6. /\ open' \in Seq(BodyRecord) /\ Len(open') = Len(open) + 1
      /\ \A i \in 1..Len(open) : open'[i] = open[i]
      /\ open'[Len(open) + 1] = body
  <2>1. body \in BodyRecord
    <3>1. NewTag \in Nat /\ Len(scopes) \in Nat /\ error \in BOOLEAN
      BY TableFacts, LenProperties DEF NewTag
    <3> HIDE DEF error
    <3> QED BY <3>1 DEF BodyRecord
  <2> HIDE DEF body
  <2> QED BY <1>1, <2>1, TableFacts, AppendProperties
<1>7. \A i \in 1..Len(open') : open'[i].id \in 1..NewTag /\ open'[i].refs \subseteq 1..NewTag
  <2>1. /\ Len(open) \in Nat /\ NewTag \in Nat \ {0} /\ Ids \subseteq 1..NewTag
        /\ \A i \in 1..Len(open) : open[i].id \in Ids /\ open[i].refs \subseteq Ids
    BY TableFacts DEF NewTag
  <2>2. \A i \in 1..Len(open') : i \in 1..Len(open) \/ i = Len(open) + 1
    BY <1>6, <2>1
  <2>3. body.id \in 1..NewTag /\ body.refs = {}
    BY <2>1
  <2> HIDE DEF body
  <2> QED BY <1>6, <2>1, <2>2, <2>3
<1>8. errors' = 0 /\ <<new.scope, new.name>> \in DOMAIN symTableTag =>
        tags[symTableTag[<<new.scope, new.name>>]].typ = new.typ
  <2> SUFFICES ASSUME errors' = 0, <<new.scope, new.name>> \in DOMAIN symTableTag
               PROVE  tags[symTableTag[<<new.scope, new.name>>]].typ = new.typ
    OBVIOUS
  <2>1. old # 0 /\ old = symTableTag[<<new.scope, new.name>>]
    BY <1>2, <1>5
  <2>2. errors' >= errors + n /\ errors \in Nat
    <3>1. n \in Nat
      OBVIOUS
    <3> HIDE DEF n, new
    <3> QED BY <1>1, <1>5, <3>1, TableFacts, AddTagEffect
  <2>3. ~error
    BY <2>2
  <2>4. shares
    BY <2>1, <2>3 DEF SharesType
  <2> QED BY <1>5, <2>1, <2>4
<1>9. TableInv' /\ Added(new) /\ Ids' = Ids \cup {NewTag}
  <2>1. n \in Nat
    OBVIOUS
  <2>2. new.typ \in 1..Len(complete') /\ UNCHANGED <<scopes, pushed>>
    BY <1>1, <1>4, <1>5
  <2> HIDE DEF n, new
  <2> QED BY <1>1, <1>4, <1>5, <1>6, <1>7, <1>8, <2>1, <2>2, TableNewTag
<1>10. errors' >= errors
  <2>1. n \in Nat
    OBVIOUS
  <2> HIDE DEF n, new
  <2> QED BY <1>1, <1>5, <2>1, AddTagEffect DEF TableInv, Shapes
<1>11. KeysStay /\ \A id \in Ids : Settled(id)
  <2> HIDE DEF new
  <2> QED BY <1>4, <1>5, <1>9, <1>10, NewTagSettled
<1>12. OneMore(open # << >>)
  <2> HIDE DEF new
  <2> QED BY <1>5, <1>9 DEF OneMore, Added, Created, Alike
<1>13. body.id = NewTag /\ body.refs = {}
  OBVIOUS
<1> QED BY <1>6, <1>9, <1>10, <1>11, <1>12, <1>13

\* A tag mentioned for the first time.
LEMMA MentionNewStep ==
  ASSUME TableInv, NEW family \in Families, NEW name \in Names, NEW alone \in BOOLEAN,
         MentionTag(family, name, alone),
         (IF alone THEN LookupHere(name) ELSE Lookup(name)) = 0
  PROVE  /\ TableInv' /\ KeysStay /\ (\A id \in Ids : Settled(id)) /\ errors' >= errors
         /\ OneMore(open # << >>) /\ Len(open') = Len(open)
         /\ \A i \in 1..Len(open) : /\ open'[i].id = open[i].id
                                    /\ open'[i].refs \subseteq open[i].refs \cup {NewTag}
<1> DEFINE new == TagSymbol(family, name, NewType)
<1>1. /\ HasRoom /\ addTag(new, 0) /\ complete' = Append(complete, FALSE)
      /\ open' = IF is_split THEN Referenced(open, {NewTag}) ELSE open
      /\ UNCHANGED <<is_split, scopes, pushed>>
  BY DEF MentionTag
<1>2. LookupHere(name) = 0 /\ <<Last(scopes), name>> \notin DOMAIN symTableTag
  BY LookupFinds
<1>3. /\ complete' \in Seq(BOOLEAN) /\ Len(complete') = Len(complete) + 1
      /\ Len(complete) \in Nat /\ NewType = Len(complete) + 1
      /\ \A y \in 1..Len(complete) : complete'[y] = complete[y]
  <2>1. FALSE \in BOOLEAN /\ complete \in Seq(BOOLEAN) /\ Len(complete) \in Nat
    BY TableFacts
  <2> QED BY <1>1, <2>1, AppendProperties DEF NewType
<1>4. /\ new \in TagRecord /\ new.scope = Last(scopes) /\ new.brothers = 0
      /\ new.parents = {} /\ new.typ = NewType /\ new.name = name
      /\ new.nested = (open # << >>)
  <2>1. NewType \in Nat
    BY <1>3
  <2> QED BY <2>1, TagSymbolType
<1>5. NewTag \in Nat \ {0} /\ {NewTag} \in SUBSET Nat /\ Ids \subseteq 1..NewTag
  BY TableFacts DEF NewTag
<1>6. /\ open' \in Seq(BodyRecord) /\ Len(open') = Len(open)
      /\ \A i \in 1..Len(open) : /\ open'[i].id = open[i].id
                                 /\ open'[i].refs \subseteq open[i].refs \cup {NewTag}
  <2>1. open \in Seq(BodyRecord)
    BY TableFacts
  <2>2. CASE is_split
    <3>1. open' = Referenced(open, {NewTag})
      BY <1>1, <2>2
    <3> QED BY <1>5, <2>1, <3>1, ReferencedFacts
  <2>3. CASE ~is_split
    <3>1. open' = open
      BY <1>1, <2>3
    <3> QED BY <2>1, <3>1
  <2> QED BY <2>2, <2>3
<1>7. \A i \in 1..Len(open') : open'[i].id \in 1..NewTag /\ open'[i].refs \subseteq 1..NewTag
  <2> SUFFICES ASSUME NEW i \in 1..Len(open)
               PROVE  open'[i].id \in 1..NewTag /\ open'[i].refs \subseteq 1..NewTag
    BY <1>6
  <2>1. open[i].id \in Ids /\ open[i].refs \subseteq Ids
    BY TableFacts
  <2>2. open'[i].refs \subseteq Ids \cup {NewTag} /\ NewTag \in 1..NewTag
    BY <1>5, <1>6, <2>1
  <2> QED BY <1>5, <1>6, <2>1, <2>2
<1> HIDE DEF new
<1>8. TableInv' /\ Added(new) /\ Ids' = Ids \cup {NewTag}
  <2>1. 0 \in Nat /\ new.typ \in 1..Len(complete') /\ Len(complete') >= Len(complete)
    BY <1>3, <1>4
  <2> QED BY <1>1, <1>2, <1>3, <1>4, <1>6, <1>7, <2>1, TableNewTag
<1>9. errors' >= errors
  BY <1>1, <1>4, AddTagEffect DEF TableInv, Shapes
<1>10. KeysStay /\ \A id \in Ids : Settled(id)
  BY <1>3, <1>4, <1>8, <1>9, NewTagSettled
<1>11. OneMore(open # << >>)
  BY <1>4, <1>8 DEF OneMore, Added, Created, Alike
<1> QED BY <1>6, <1>8, <1>9, <1>10, <1>11

-----------------------------------------------------------------------------
(* The bodies being read, and the invariant of the walk.                    *)

\* A step that leaves tags and the list of bodies alone, but for references.
LEMMA BodiesKept ==
  ASSUME BodyInv, UNCHANGED tags, Len(open') = Len(open), Len(open) \in Nat,
         \A i \in 1..Len(open) : open'[i].id = open[i].id
  PROVE  BodyInv'
<1>1. BodiesNest'
  <2>1. \A i \in 1..Len(open') : i = 1 <=> ~tags'[open'[i].id].nested
    BY DEF BodyInv, BodiesNest
  <2>2. Len(open) > 0 => open'[1].id = open[1].id
    OBVIOUS
  <2> QED BY <2>1, <2>2 DEF BodyInv, BodiesNest, Ids
<1>2. ParentsNest'
  BY DEF BodyInv, ParentsNest, Ids
<1>3. NoParentsYet'
  BY DEF BodyInv, NoParentsYet
<1> QED BY <1>1, <1>2, <1>3 DEF BodyInv

\* A tag more, with a body or without.
LEMMA BodiesGrow ==
  ASSUME TagInv, OneMore(open # << >>),
         \A i \in 1..Len(open) : open'[i].id = open[i].id,
         \/ Len(open') = Len(open)
         \/ Len(open') = Len(open) + 1 /\ open'[Len(open) + 1].id = NewTag
  PROVE  BodyInv'
<1>1. /\ Len(open) \in Nat /\ Len(tags) \in Nat /\ Ids = 1..Len(tags)
      /\ NewTag = Len(tags) + 1 /\ open \in Seq(BodyRecord)
      /\ \A i \in 1..Len(open) : open[i].id \in Ids
      /\ \A id \in Ids : tags[id].parents \subseteq Ids
  BY TableFacts DEF TagInv, NewTag
<1>2. open # << >> <=> Len(open) > 0
  BY <1>1, EmptySeq
<1>3. /\ Ids' = Ids \cup {NewTag} /\ NewTag \notin Ids
      /\ \A id \in Ids : tags'[id].nested = tags[id].nested /\ tags'[id].parents = tags[id].parents
      /\ tags'[NewTag].nested = (open # << >>) /\ tags'[NewTag].parents = {}
  BY <1>1 DEF OneMore
<1>4. \A i \in 1..Len(open') : \/ i \in 1..Len(open)
                               \/ i = Len(open) + 1 /\ open'[i].id = NewTag
  BY <1>1
<1>5. BodiesNest'
  <2>1. ASSUME NEW i \in 1..Len(open') PROVE i = 1 <=> ~tags'[open'[i].id].nested
    <3>1. CASE i \in 1..Len(open)
      <4>1. open'[i].id = open[i].id /\ open[i].id \in Ids
        BY <1>1, <3>1
      <4>2. i = 1 <=> ~tags[open[i].id].nested
        BY <3>1 DEF TagInv, BodyInv, BodiesNest
      <4> QED BY <1>3, <4>1, <4>2
    <3>2. CASE i = Len(open) + 1 /\ open'[i].id = NewTag
      <4>1. i = 1 <=> Len(open) = 0
        BY <1>1, <3>2
      <4>2. Len(open) = 0 <=> ~(open # << >>)
        BY <1>1, <1>2
      <4> QED BY <1>3, <3>2, <4>1, <4>2
    <3> QED BY <1>4, <3>1, <3>2
  <2>2. ASSUME Len(open') > 0, NEW id \in Ids', id > open'[1].id PROVE tags'[id].nested
    <3>1. CASE Len(open) > 0
      <4>1. open'[1].id = open[1].id /\ open # << >>
        BY <1>1, <1>2, <3>1
      <4>2. \A x \in Ids : x > open[1].id => tags[x].nested
        BY <3>1 DEF TagInv, BodyInv, BodiesNest
      <4> QED BY <1>3, <2>2, <4>1, <4>2
    <3>2. CASE Len(open) = 0
      <4>1. open'[1].id = NewTag
        BY <1>1, <1>4, <2>2, <3>2
      <4> QED BY <1>1, <1>3, <2>2, <4>1
    <3> QED BY <1>1, <3>1, <3>2
  <2> QED BY <2>1, <2>2 DEF BodiesNest
<1>6. ParentsNest'
  <2> SUFFICES ASSUME NEW id \in Ids', ~tags'[id].nested, NEW p \in tags'[id].parents
               PROVE  p < id \/ tags'[p].nested
    BY DEF ParentsNest
  <2>1. id \in Ids
    BY <1>3
  <2>2. p \in Ids /\ p \in tags[id].parents /\ ~tags[id].nested
    BY <1>1, <1>3, <2>1
  <2>3. p < id \/ tags[p].nested
    BY <2>1, <2>2 DEF TagInv, BodyInv, ParentsNest
  <2> QED BY <1>3, <2>2, <2>3
<1>7. NoParentsYet'
  <2>1. \A i \in 1..Len(open') : tags'[open'[i].id].parents = {}
    BY <1>1, <1>3, <1>4 DEF TagInv, BodyInv, NoParentsYet
  <2>2. ASSUME NEW i \in 1..Len(open'), NEW j \in 1..Len(open'), open'[i].id = open'[j].id
        PROVE  i = j
    <3>1. CASE i \in 1..Len(open) /\ j \in 1..Len(open)
      <4>1. open[i].id = open[j].id
        BY <2>2, <3>1
      <4> QED BY <3>1, <4>1 DEF TagInv, BodyInv, NoParentsYet
    <3>2. CASE i \notin 1..Len(open) \/ j \notin 1..Len(open)
      BY <1>1, <1>3, <1>4, <2>2, <3>2
    <3> QED BY <3>1, <3>2
  <2> QED BY <2>1, <2>2 DEF NoParentsYet
<1> QED BY <1>5, <1>6, <1>7 DEF BodyInv

LEMMA BodiesEnd ==
  ASSUME TagInv, EndTag
  PROVE  BodyInv' /\ \A id \in Ids : tags[id].parents \subseteq tags'[id].parents
<1> DEFINE n == Len(open)
           b == Last(open)
<1>1. /\ EndedTags /\ EndedOpen /\ n \in Nat \ {0} /\ b = open[n]
      /\ b.id \in Ids /\ b.refs \subseteq Ids
  BY EndTagTags, EndTagOpens DEF TagInv
<1>2. /\ Len(tags) \in Nat /\ Ids = 1..Len(tags) /\ Ids' = Ids
      /\ \A i \in 1..n : open[i].id \in Ids
      /\ \A id \in Ids : tags[id].parents \subseteq Ids
  BY <1>1, TableFacts DEF TagInv, Ids, EndedTags
<1>3. /\ \A i \in 1..n : i = 1 <=> ~tags[open[i].id].nested
      /\ \A id \in Ids : id > open[1].id => tags[id].nested
      /\ \A i \in 1..n : tags[open[i].id].parents = {}
      /\ \A i, j \in 1..n : open[i].id = open[j].id => i = j
  BY <1>1 DEF TagInv, BodyInv, BodiesNest, NoParentsYet
<1>4. /\ Len(open') = n - 1 /\ \A i \in 1..(n - 1) : open'[i].id = open[i].id
      /\ \A id \in Ids : tags'[id].nested = tags[id].nested
      /\ \A id \in Ids : \/ tags'[id].parents = tags[id].parents
                         \/ id = b.id /\ tags'[id].parents = b.refs \ {id}
  BY <1>1 DEF EndedTags, EndedOpen
<1> HIDE DEF b, n
<1>5. n \in 1..n /\ tags[b.id].parents = {}
  BY <1>1, <1>3
<1>6. \A id \in Ids : tags[id].parents \subseteq tags'[id].parents
  BY <1>4, <1>5
<1>7. BodiesNest'
  <2>1. \A i \in 1..(n - 1) : i \in 1..n
    BY <1>1
  <2>2. \A i \in 1..Len(open') : i = 1 <=> ~tags'[open'[i].id].nested
    BY <1>2, <1>3, <1>4, <2>1
  <2>3. Len(open') > 0 => open'[1].id = open[1].id
    BY <1>1, <1>4
  <2> QED BY <1>2, <1>3, <1>4, <2>2, <2>3 DEF BodiesNest
<1>8. ParentsNest'
  <2> SUFFICES ASSUME NEW id \in Ids, ~tags[id].nested, NEW p \in tags'[id].parents
               PROVE  p < id \/ tags'[p].nested
    BY <1>2, <1>4 DEF ParentsNest
  <2>1. CASE tags'[id].parents = tags[id].parents
    <3>1. p \in Ids /\ (p < id \/ tags[p].nested)
      BY <1>2, <2>1 DEF TagInv, BodyInv, ParentsNest
    <3> QED BY <1>4, <3>1
  <2>2. CASE id = b.id /\ tags'[id].parents = b.refs \ {id}
    <3>1. n = 1 /\ id = open[1].id
      BY <1>1, <1>3, <1>5, <2>2
    <3>2. p \in Ids /\ p # id
      BY <1>1, <2>2
    <3> QED BY <1>2, <1>3, <1>4, <3>1, <3>2
  <2> QED BY <1>4, <2>1, <2>2
<1>9. NoParentsYet'
  <2>1. \A i \in 1..(n - 1) : i \in 1..n /\ i # n
    BY <1>1
  <2>2. \A i \in 1..(n - 1) : open[i].id # b.id
    BY <1>1, <1>3, <1>5, <2>1
  <2>3. ASSUME NEW i \in 1..(n - 1) PROVE tags'[open'[i].id].parents = {}
    <3>1. open'[i].id = open[i].id /\ open[i].id \in Ids /\ tags[open[i].id].parents = {}
      BY <1>2, <1>3, <1>4, <2>1
    <3> QED BY <1>4, <2>2, <3>1
  <2>4. \A i, j \in 1..(n - 1) : open'[i].id = open'[j].id => i = j
    BY <1>3, <1>4, <2>1
  <2> QED BY <1>4, <2>3, <2>4 DEF NoParentsYet
<1> QED BY <1>6, <1>7, <1>8, <1>9 DEF BodyInv

\* The walk only adds to what it has said of a tag.
Grows == /\ KeysStay /\ errors' >= errors
         /\ \A id \in Ids : Settled(id) /\ tags[id].parents \subseteq tags'[id].parents

LEMMA QuietGrows ==
  ASSUME TableInv, UNCHANGED <<tags, complete, symTableTag>>, errors' >= errors
  PROVE  Grows
BY DEF Grows, KeysStay, KeyOf, Ids, Settled, isComplete

LEMMA EndTagGrows ==
  ASSUME TagInv, EndTag
  PROVE  Grows
<1>1. EndedTags /\ UNCHANGED <<symTableTag, errors>>
  BY EndTagTags DEF TagInv, EndTag
<1>2. KeysStay /\ errors' >= errors
  <2>1. Ids' = Ids /\ errors \in Nat
    BY <1>1, TableFacts DEF TagInv, EndedTags, Ids
  <2>2. \A id \in Ids : KeyOf(id)' = KeyOf(id)
    BY <1>1 DEF EndedTags, KeyOf
  <2> QED BY <1>1, <2>1, <2>2 DEF KeysStay
<1>3. ASSUME NEW id \in Ids PROVE Settled(id)
  <2>1. tags[id].typ \in 1..Len(complete) /\ tags'[id].typ = tags[id].typ
    BY <1>1, TableFacts DEF TagInv, EndedTags
  <2> QED BY <1>1, <2>1 DEF Settled, isComplete, EndedTags
<1> QED BY <1>2, <1>3, BodiesEnd DEF Grows

LEMMA MentionGrows ==
  ASSUME TagInv, NEW family \in Families, NEW name \in Names, NEW alone \in BOOLEAN,
         MentionTag(family, name, alone)
  PROVE  TagInv' /\ Grows
<1> DEFINE old == IF alone THEN LookupHere(name) ELSE Lookup(name)
<1>1. old \in Ids \cup {0}
  BY LookupFinds DEF TagInv
<1>2. CASE old = 0
  <2>1. /\ TableInv' /\ KeysStay /\ (\A id \in Ids : Settled(id)) /\ errors' >= errors
        /\ OneMore(open # << >>) /\ Len(open') = Len(open)
        /\ \A i \in 1..Len(open) : open'[i].id = open[i].id
    BY <1>2, MentionNewStep DEF TagInv
  <2>2. BodyInv'
    BY <2>1, BodiesGrow
  <2> QED BY <2>1, <2>2 DEF TagInv, Grows, OneMore
<1>3. CASE old \in Ids /\ old # 0
  <2>1. /\ errors' = errors + (IF tags[old].family = family THEN 0 ELSE 1)
        /\ open' = Referenced(open, {old})
        /\ UNCHANGED <<symTableTag, tags, complete, flushed_list, scopes, pushed>>
    BY <1>3 DEF MentionTag
  <2>2. errors \in Nat /\ open \in Seq(BodyRecord) /\ Len(open) \in Nat /\ {old} \in SUBSET Nat
    BY <1>3, TableFacts DEF TagInv
  <2>3. errors' \in Nat /\ errors' >= errors
    BY <2>1, <2>2
  <2>4. Len(open') = Len(open) /\ \A i \in 1..Len(open) : open'[i].id = open[i].id
    BY <2>1, <2>2, ReferencedFacts
  <2> HIDE DEF old
  <2>5. TableInv'
    BY <1>3, <2>1, <2>3, TableMentionOld DEF TagInv
  <2>6. BodyInv'
    BY <2>1, <2>2, <2>4, BodiesKept DEF TagInv
  <2> QED BY <2>1, <2>3, <2>5, <2>6, QuietGrows DEF TagInv
<1> QED BY <1>1, <1>2, <1>3

LEMMA TagInit == Init => TagInv
<1> SUFFICES ASSUME Init PROVE TagInv OBVIOUS
<1>1. /\ scopes = <<0>> /\ pushed = 0 /\ symTableTag = [k \in {} |-> 0]
      /\ tags = << >> /\ complete = << >> /\ flushed_list = {} /\ open = << >> /\ errors = 0
  BY DEF Init
<1>2. Ids = {} /\ DOMAIN symTableTag = {}
  BY <1>1 DEF Ids
<1>3. Shapes
  BY <1>1, TagTableAssumption DEF Shapes
<1>4. TypeOK
  BY <1>1, <1>2, TagTableAssumption DEF TypeOK
<1>5. Keyed /\ OneTypePerTag /\ TagsStayAttached
  BY <1>1, <1>2 DEF Keyed, OneTypePerTag, TagsStayAttached
<1>6. BodyInv
  BY <1>1, <1>2 DEF BodyInv, BodiesNest, ParentsNest, NoParentsYet
<1> QED BY <1>3, <1>4, <1>5, <1>6 DEF TagInv, TableInv

LEMMA TagNext == TagInv /\ [Next]_vars => TagInv' /\ Grows
<1> SUFFICES ASSUME TagInv, [Next]_vars PROVE TagInv' /\ Grows OBVIOUS
<1>0. Len(open) \in Nat /\ errors \in Nat
  BY TableFacts DEF TagInv
<1>1. CASE PushScope
  <2>1. UNCHANGED <<symTableTag, tags, complete, flushed_list, open, errors>>
    BY <1>1 DEF PushScope
  <2>2. BodyInv'
    BY <1>0, <2>1, BodiesKept DEF TagInv
  <2> QED BY <1>0, <1>1, <2>1, <2>2, TablePush, QuietGrows DEF TagInv
<1>2. CASE PopScope
  <2>1. UNCHANGED <<symTableTag, tags, complete, flushed_list, open, errors>>
    BY <1>2 DEF PopScope
  <2>2. BodyInv'
    BY <1>0, <2>1, BodiesKept DEF TagInv
  <2> QED BY <1>0, <1>2, <2>1, <2>2, TablePop, QuietGrows DEF TagInv
<1>3. CASE EndTag
  BY <1>3, TableEndTag, BodiesEnd, EndTagGrows DEF TagInv
<1>4. ASSUME NEW family \in Families, NEW name \in Names, BeginTag(family, name)
      PROVE  TagInv' /\ Grows
  <2>1. /\ TableInv' /\ KeysStay /\ (\A id \in Ids : Settled(id)) /\ errors' >= errors
        /\ OneMore(open # << >>) /\ Len(open') = Len(open) + 1
        /\ \A i \in 1..Len(open) : open'[i] = open[i]
        /\ open'[Len(open) + 1].id = NewTag
    BY <1>4, BeginTagStep DEF TagInv
  <2>2. BodyInv'
    BY <2>1, BodiesGrow
  <2> QED BY <2>1, <2>2 DEF TagInv, Grows, OneMore
<1>5. ASSUME NEW family \in Families, NEW name \in Names, NEW alone \in BOOLEAN,
             MentionTag(family, name, alone)
      PROVE  TagInv' /\ Grows
  BY <1>5, MentionGrows
<1>6. CASE UNCHANGED vars
  <2>1. UNCHANGED <<scopes, pushed, symTableTag, tags, complete, flushed_list, open, errors>>
    BY <1>6 DEF vars
  <2>2. BodyInv'
    BY <1>0, <2>1, BodiesKept DEF TagInv
  <2>3. TableInv'
    BY <2>1, TableFacts, TableQuiet DEF TagInv
  <2> QED BY <1>0, <2>1, <2>2, <2>3, QuietGrows DEF TagInv
<1> QED BY <1>1, <1>2, <1>3, <1>4, <1>5, <1>6 DEF Next

LEMMA ExtractionWalks == [ExtractionNext]_allVars => [Next]_vars
<1> SUFFICES ASSUME [ExtractionNext]_allVars PROVE [Next]_vars OBVIOUS
<1>1. CASE Walk
  BY <1>1 DEF Walk
<1>2. CASE EndUnit \/ Extract
           \/ \E specified, mentioned \in SUBSET Names : DeclareInstance(specified, mentioned)
  <2>1. UNCHANGED vars
    BY <1>2 DEF EndUnit, Extract, AllCollected, ScheduleRound, AllScheduled, AllMoved,
                putInSet, moveSymbolDeclaration, DeclareInstance
  <2> QED BY <2>1
<1>3. CASE UNCHANGED allVars
  BY <1>3 DEF allVars
<1> QED BY <1>1, <1>2, <1>3 DEF ExtractionNext

LEMMA TagInvariant == ExtractionSpec => []TagInv
<1>1. ExtractionInit => TagInv
  BY TagInit DEF ExtractionInit
<1>2. TagInv /\ [ExtractionNext]_allVars => TagInv'
  BY ExtractionWalks, TagNext
<1> QED BY <1>1, <1>2, PTL DEF ExtractionSpec

\* Every reference between tags, types, bodies and the table is to something
\* that exists, whatever is declared and in whatever order.
THEOREM TagTypeCorrect == ExtractionSpec => []TypeOK
<1>1. TagInv => TypeOK BY DEF TagInv, TableInv
<1> QED BY <1>1, TagInvariant, PTL

\* However often a tag is declared before and after its body, in whatever
\* scopes, its symbols share one Type object until an error is raised.
THEOREM TagsHaveOneType == ExtractionSpec => []OneTypePerTag
<1>1. TagInv => OneTypePerTag BY DEF TagInv, TableInv
<1> QED BY <1>1, TagInvariant, PTL

\* A tag that left the table is a brother of the one there.
THEOREM FlushedTagsAreAttached == ExtractionSpec => []TagsStayAttached
<1>1. TagInv => TagsStayAttached BY DEF TagInv, TableInv
<1> QED BY <1>1, TagInvariant, PTL

\* If a tag that needs itself needed no nested one, each tag it needs would be
\* older than those that need it: the older ones among those it needs would be
\* all it needs.
LEMMA NestingOrCycleFree ==
  ASSUME TagInv
  PROVE  CyclesOnlyByNesting
<1> SUFFICES ASSUME NEW id \in Ids, id \in Ancestors(id), \A a \in Ancestors(id) : ~tags[a].nested
             PROVE  FALSE
  BY DEF CyclesOnlyByNesting
<1> DEFINE S == {a \in Ancestors(id) : a < id}
<1>1. Ids \subseteq Nat /\ Ancestors(id) \subseteq Ids
      /\ \A a \in Ids : tags[a].parents \subseteq Ids
  BY TableFacts DEF TagInv, Ancestors
<1>2. \A a \in Ancestors(id) : tags[a].parents \subseteq Ancestors(id)
  BY <1>1 DEF Ancestors
<1>3. \A a \in Ancestors(id) : \A p \in tags[a].parents : p < a
  <2> SUFFICES ASSUME NEW a \in Ancestors(id), NEW p \in tags[a].parents PROVE p < a
    OBVIOUS
  <2>1. a \in Ids /\ ~tags[a].nested /\ ~tags[p].nested
    BY <1>1, <1>2
  <2> QED BY <2>1 DEF TagInv, BodyInv, ParentsNest
<1>4. \A p \in S \cup {id} : tags[p].parents \subseteq S
  <2> SUFFICES ASSUME NEW p \in S \cup {id}, NEW q \in tags[p].parents PROVE q \in S
    OBVIOUS
  <2>1. p \in Ancestors(id) /\ (p < id \/ p = id)
    OBVIOUS
  <2>2. q \in Ancestors(id) /\ q < p
    <3> HIDE DEF S
    <3> QED BY <1>2, <1>3, <2>1
  <2>3. p \in Nat /\ q \in Nat /\ id \in Nat
    <3> HIDE DEF S
    <3> QED BY <1>1, <2>1, <2>2
  <2> QED BY <2>1, <2>2, <2>3
<1>5. S \in SUBSET Ids
  BY <1>1
<1>6. id \in S
  <2> HIDE DEF S
  <2> QED BY <1>4, <1>5 DEF Ancestors
<1> QED BY <1>1, <1>6

\* Whatever forward declarations make structures point to each other, a tag
\* needs itself only through a tag defined or first mentioned inside a body.
THEOREM CyclesNeedNesting == ExtractionSpec => []CyclesOnlyByNesting
<1> QED BY TagInvariant, NestingOrCycleFree, PTL

-----------------------------------------------------------------------------
(* New names.                                                               *)

\* Brothers have one new name, and no other tag has it.
RenameInv ==
  /\ rename \in [1..MaxTags -> Nat] /\ mangling_counter \in Nat
  /\ \A id \in 1..MaxTags : rename[id] <= mangling_counter
  /\ \A id, b \in Ids :
       /\ b \in Brothers(id) => rename[b] = rename[id]
       /\ rename[b] = rename[id] /\ rename[b] # 0 => b \in Brothers(id)
  /\ moved \subseteq Ids /\ \A id \in moved : rename[id] # 0
  /\ phase \in {"walk", "overflow"} => moved = {} /\ \A id \in 1..MaxTags : rename[id] = 0

LEMMA RenameInit == ExtractionInit => RenameInv
<1> SUFFICES ASSUME ExtractionInit PROVE RenameInv OBVIOUS
<1>1. rename = [id \in 1..MaxTags |-> 0] /\ mangling_counter = 0 /\ moved = {} /\ tags = << >>
  BY DEF ExtractionInit, Init
<1> QED BY <1>1 DEF RenameInv, Ids

\* While the unit is read, nothing is renamed.
LEMMA RenameWalk ==
  ASSUME TagInv', RenameInv, phase = "walk", phase' \in {"walk", "overflow"},
         UNCHANGED <<moved, mangling_counter, rename>>
  PROVE  RenameInv'
<1>1. moved = {} /\ \A id \in 1..MaxTags : rename[id] = 0
  BY DEF RenameInv
<1>2. \A id \in Ids' : id \in 1..MaxTags
  BY TagTableAssumption DEF TagInv, TableInv, Shapes, Ids
<1> QED BY <1>1, <1>2 DEF RenameInv

\* Steps that rename nothing and leave the tags alone.
LEMMA RenameKept ==
  ASSUME RenameInv, UNCHANGED <<tags, moved, mangling_counter, rename>>,
         phase' \in {"walk", "overflow"} => phase \in {"walk", "overflow"}
  PROVE  RenameInv'
<1>1. Ids' = Ids /\ \A id \in Ids : Brothers(id)' = Brothers(id)
  BY DEF Ids, Brothers
<1> QED BY <1>1 DEF RenameInv

\* A tag and its brothers take a number that none has.
LEMMA RenameMove ==
  ASSUME TagInv, RenameInv, NEW id \in Ids, moveSymbolDeclaration(id)
  PROVE  RenameInv'
<1> DEFINE n == mangling_counter + 1
<1>1. /\ moved' = moved \cup {id} /\ mangling_counter' = n /\ tags' = tags
      /\ rename' = [b \in DOMAIN rename |-> IF b \in Brothers(id) THEN n ELSE rename[b]]
      /\ phase = "move" /\ phase' = phase
  BY DEF moveSymbolDeclaration, reName, vars
<1>2. /\ rename \in [1..MaxTags -> Nat] /\ mangling_counter \in Nat /\ n \in Nat
      /\ \A b \in 1..MaxTags : rename[b] <= mangling_counter
  BY DEF RenameInv
<1>3. \A b \in 1..MaxTags : rename'[b] = IF b \in Brothers(id) THEN n ELSE rename[b]
  BY <1>1, <1>2
<1>4. rename' \in [1..MaxTags -> Nat] /\ \A b \in 1..MaxTags : rename'[b] <= mangling_counter'
  BY <1>1, <1>2, <1>3
<1>5. Ids \subseteq 1..MaxTags /\ Ids' = Ids /\ \A b \in Ids : Brothers(b)' = Brothers(b)
  BY <1>1, TagTableAssumption DEF TagInv, TableInv, Shapes, Ids, Brothers
<1>6. \A x, y \in Ids : x \in Brothers(id) => (y \in Brothers(x) <=> y \in Brothers(id))
  BY DEF Brothers, Ids
<1>7. \A x, y \in Ids : y \in Brothers(x) <=> x \in Brothers(y)
  BY DEF Brothers, Ids
<1>8. id \in Brothers(id)
  BY DEF Brothers, Ids
<1>9. ASSUME NEW x \in Ids, NEW b \in Ids
      PROVE  /\ b \in Brothers(x) => rename'[b] = rename'[x]
             /\ rename'[b] = rename'[x] /\ rename'[b] # 0 => b \in Brothers(x)
  <2>1. /\ b \in Brothers(x) => rename[b] = rename[x]
        /\ rename[b] = rename[x] /\ rename[b] # 0 => b \in Brothers(x)
    BY DEF RenameInv
  <2>2. rename[b] # n /\ rename[x] # n /\ x \in 1..MaxTags /\ b \in 1..MaxTags
    <3>1. x \in 1..MaxTags /\ b \in 1..MaxTags
      BY <1>5
    <3>2. rename[b] \in Nat /\ rename[x] \in Nat
      BY <1>2, <3>1
    <3> QED BY <1>2, <3>1, <3>2
  <2>3. CASE x \in Brothers(id) /\ b \in Brothers(id)
    BY <1>3, <1>6, <2>2, <2>3
  <2>4. CASE x \in Brothers(id) /\ b \notin Brothers(id)
    BY <1>3, <1>6, <2>2, <2>4
  <2>5. CASE x \notin Brothers(id) /\ b \in Brothers(id)
    BY <1>3, <1>6, <1>7, <2>2, <2>5
  <2>6. CASE x \notin Brothers(id) /\ b \notin Brothers(id)
    BY <1>3, <2>1, <2>2, <2>6
  <2> QED BY <2>3, <2>4, <2>5, <2>6
<1>10. moved' \subseteq Ids' /\ \A x \in moved' : rename'[x] # 0
  <2>1. moved \subseteq Ids /\ \A x \in moved : rename[x] # 0
    BY DEF RenameInv
  <2>2. n # 0
    BY <1>2
  <2> HIDE DEF n
  <2> SUFFICES ASSUME NEW x \in moved \cup {id} PROVE x \in Ids /\ rename'[x] # 0
    BY <1>1, <1>5
  <2>3. x \in Ids /\ x \in 1..MaxTags
    BY <1>5, <2>1
  <2>4. rename'[x] = IF x \in Brothers(id) THEN n ELSE rename[x]
    BY <1>3, <2>3
  <2>5. CASE x = id
    BY <1>8, <2>2, <2>3, <2>4, <2>5
  <2>6. CASE x \in moved
    BY <2>1, <2>2, <2>3, <2>4, <2>6
  <2> QED BY <2>5, <2>6
<1>11. mangling_counter' \in Nat /\ phase' \notin {"walk", "overflow"}
  BY <1>1, <1>2
<1>12. \A x, b \in Ids' :
        /\ b \in Brothers(x)' => rename'[b] = rename'[x]
        /\ rename'[b] = rename'[x] /\ rename'[b] # 0 => b \in Brothers(x)'
  BY <1>5, <1>9
<1> QED BY <1>4, <1>10, <1>11, <1>12 DEF RenameInv

LEMMA RenameNext == TagInv /\ TagInv' /\ RenameInv /\ [ExtractionNext]_allVars => RenameInv'
<1> SUFFICES ASSUME TagInv, TagInv', RenameInv, [ExtractionNext]_allVars PROVE RenameInv'
  OBVIOUS
<1>1. CASE Walk
  BY <1>1, RenameWalk DEF Walk, extraction
<1>2. ASSUME NEW specified \in SUBSET Names, NEW mentioned \in SUBSET Names,
             DeclareInstance(specified, mentioned)
      PROVE  RenameInv'
  BY <1>2, RenameWalk DEF DeclareInstance
<1>3. CASE EndUnit
  BY <1>3, RenameKept DEF EndUnit, vars
<1>4. ASSUME NEW id \in 1..Len(tags), putInSet(id) PROVE RenameInv'
  BY <1>4, RenameKept DEF putInSet, vars
<1>5. CASE AllCollected
  BY <1>5, RenameKept DEF AllCollected, vars
<1>6. CASE ScheduleRound
  BY <1>6, RenameKept DEF ScheduleRound, vars
<1>7. CASE AllScheduled
  BY <1>7, RenameKept DEF AllScheduled, vars
<1>8. ASSUME NEW id \in 1..Len(tags), moveSymbolDeclaration(id) PROVE RenameInv'
  BY <1>8, RenameMove DEF Ids
<1>9. CASE AllMoved
  BY <1>9, RenameKept DEF AllMoved, vars
<1>10. CASE UNCHANGED allVars
  BY <1>10, RenameKept DEF allVars, vars, extraction
<1> QED BY <1>1, <1>2, <1>3, <1>4, <1>5, <1>6, <1>7, <1>8, <1>9, <1>10
        DEF ExtractionNext, Extract

\* The declarations of a tag get one new name and keep it, and no tag that is
\* not one of them ever gets it, in whatever order the tags are moved.
THEOREM NewTagNamesAgree == ExtractionSpec => []NamesAgree
<1>1. RenameInv => NamesAgree
  <2> SUFFICES ASSUME RenameInv, NEW id \in moved
               PROVE  /\ \A b \in Brothers(id) : rename[b] = rename[id]
                      /\ \A other \in moved : rename[other] = rename[id] => other \in Brothers(id)
    BY DEF NamesAgree
  <2> QED BY DEF RenameInv, Brothers, Ids
<1> QED BY <1>1, TagInvariant, RenameInit, RenameNext, PTL DEF ExtractionSpec

-----------------------------------------------------------------------------
(* The order of the tags.                                                   *)

\* Before its loop the extraction has scheduled nothing; from then on, the
\* tags collected and those scheduled are closed under parents.
Phases   == {"walk", "collect", "schedule", "move", "done", "overflow"}
Before   == {"walk", "collect", "overflow"}
RoundsOK == ordered_list \in Seq(SUBSET Int)
Closed   == \A id \in to_schedule \cup Scheduled :
              tags[id].parents \subseteq to_schedule \cup Scheduled

OrderInv == /\ phase \in Phases
            /\ RoundsOK
            /\ to_schedule \subseteq Int
            /\ phase \in Before => ordered_list = << >>
            /\ phase \notin Before => Closed
            /\ ParentsFirst

NotScheduling == UNCHANGED <<tags, to_schedule, ordered_list>>

LEMMA OrderInit == ExtractionInit => OrderInv
BY DEF ExtractionInit, OrderInv, Phases, RoundsOK, Before, ParentsFirst

\* Nothing is scheduled while the unit is read: what the walk does to the tags
\* does not matter.
LEMMA OrderWalk ==
  ASSUME OrderInv, phase = "walk", phase' \in {"walk", "overflow"},
         UNCHANGED <<to_schedule, ordered_list>>
  PROVE  OrderInv'
<1>1. ordered_list = << >> BY DEF OrderInv, Before
<1> QED BY <1>1 DEF OrderInv, Phases, RoundsOK, Before, ParentsFirst

\* Steps that leave tags and lists alone and do not enter the loop.
LEMMA OrderKept ==
  ASSUME OrderInv, NotScheduling, phase' \in Phases,
         phase' \in Before => phase \in Before,
         phase' \notin Before => phase \notin Before
  PROVE  OrderInv'
BY DEF OrderInv, NotScheduling, RoundsOK, Closed, Scheduled, ParentsFirst

LEMMA OrderCollect ==
  ASSUME OrderInv, NEW id \in 1..Len(tags), putInSet(id)
  PROVE  OrderInv'
<1>1. phase' \in Before /\ ordered_list' = << >>
  BY DEF putInSet, OrderInv, Before, extraction, vars
<1>2. to_schedule' \subseteq Int
  <2>1. id \in Int OBVIOUS
  <2> QED BY <2>1 DEF putInSet, OrderInv
<1> QED BY <1>1, <1>2 DEF OrderInv, Phases, Before, RoundsOK, ParentsFirst

LEMMA OrderCollected ==
  ASSUME OrderInv, AllCollected
  PROVE  OrderInv'
<1>1. ordered_list = << >> /\ Scheduled = {}
  BY DEF AllCollected, OrderInv, Before, Scheduled
<1>2. UNCHANGED <<tags, to_schedule, ordered_list>> /\ phase' = "schedule"
  BY DEF AllCollected, vars
<1>3. \A id \in to_schedule : tags[id].parents \subseteq to_schedule
  BY DEF AllCollected, Missing
<1>4. Closed'
  BY <1>1, <1>2, <1>3 DEF Closed, Scheduled
<1> QED BY <1>1, <1>2, <1>4 DEF OrderInv, Phases, Before, RoundsOK, ParentsFirst

LEMMA ScheduledGrows ==
  ASSUME OrderInv, ScheduleRound
  PROVE  /\ Len(ordered_list) \in Nat /\ ordered_list' \in Seq(SUBSET Int)
         /\ Len(ordered_list') = Len(ordered_list) + 1
         /\ ordered_list'[Len(ordered_list) + 1] = Schedulable
         /\ \A i \in 1..Len(ordered_list) : ordered_list'[i] = ordered_list[i]
         /\ Scheduled' = Scheduled \cup Schedulable
<1>1. ordered_list \in Seq(SUBSET Int) /\ Schedulable \in SUBSET Int
  <2>1. ordered_list \in Seq(SUBSET Int) BY DEF OrderInv, RoundsOK
  <2>2. Schedulable \subseteq to_schedule BY DEF Schedulable
  <2>3. to_schedule \subseteq Int BY DEF OrderInv
  <2> QED BY <2>1, <2>2, <2>3
<1>2. ordered_list' = Append(ordered_list, Schedulable)
  BY DEF ScheduleRound
<1>3. /\ Len(ordered_list) \in Nat /\ ordered_list' \in Seq(SUBSET Int)
      /\ Len(ordered_list') = Len(ordered_list) + 1
      /\ ordered_list'[Len(ordered_list) + 1] = Schedulable
      /\ \A i \in 1..Len(ordered_list) : ordered_list'[i] = ordered_list[i]
  BY <1>1, <1>2, AppendProperties, LenProperties
<1>4. Scheduled' = Scheduled \cup Schedulable
  BY <1>3 DEF Scheduled
<1> QED BY <1>3, <1>4

\* A tag of the new round has no parent left to schedule, and the parents it
\* has are collected or scheduled: they are in earlier rounds.
LEMMA OrderRound ==
  ASSUME OrderInv, ScheduleRound
  PROVE  OrderInv'
<1> DEFINE n == Len(ordered_list)
<1>1. n \in Nat
  BY ScheduledGrows
<1>2. /\ phase = "schedule" /\ phase' = "schedule" /\ tags' = tags
      /\ to_schedule' = to_schedule \ Schedulable
  BY DEF ScheduleRound, vars
<1>3. /\ ordered_list' \in Seq(SUBSET Int) /\ Len(ordered_list') = n + 1
      /\ ordered_list'[n + 1] = Schedulable
      /\ \A i \in 1..n : ordered_list'[i] = ordered_list[i]
  BY ScheduledGrows
<1>4. Scheduled' = Scheduled \cup Schedulable
  BY ScheduledGrows
<1>5. Closed
  BY <1>2 DEF OrderInv, Before
<1>6. Closed'
  BY <1>2, <1>4, <1>5 DEF Closed, Schedulable
<1>7. \A id \in Schedulable : tags[id].parents \subseteq Scheduled
  BY <1>5 DEF Closed, Schedulable
<1>8. ParentsFirst'
  <2> SUFFICES ASSUME NEW i \in 1..(n + 1), NEW id \in ordered_list'[i]
               PROVE  tags[id].parents \subseteq UNION {ordered_list'[j] : j \in 1..(i - 1)}
    BY <1>2, <1>3 DEF ParentsFirst
  <2>1. CASE i = n + 1
    <3>1. UNION {ordered_list'[j] : j \in 1..(i - 1)} = Scheduled
      BY <1>1, <1>3, <2>1 DEF Scheduled
    <3> QED BY <1>3, <1>7, <2>1, <3>1
  <2>2. CASE i \in 1..n
    <3>1. \A j \in 1..(i - 1) : ordered_list'[j] = ordered_list[j]
      BY <1>1, <1>3, <2>2
    <3>2. id \in ordered_list[i]
      BY <1>3, <2>2
    <3>3. tags[id].parents \subseteq UNION {ordered_list[j] : j \in 1..(i - 1)}
      BY <2>2, <3>2 DEF OrderInv, ParentsFirst
    <3>4. UNION {ordered_list'[j] : j \in 1..(i - 1)}
            = UNION {ordered_list[j] : j \in 1..(i - 1)}
      BY <3>1
    <3> QED BY <3>3, <3>4
  <2> QED BY <1>1, <2>1, <2>2
<1>9. to_schedule' \subseteq Int
  BY <1>2 DEF OrderInv
<1> QED BY <1>2, <1>3, <1>6, <1>8, <1>9 DEF OrderInv, Phases, Before, RoundsOK

LEMMA OrderNext == OrderInv /\ [ExtractionNext]_allVars => OrderInv'
<1> SUFFICES ASSUME OrderInv, [ExtractionNext]_allVars PROVE OrderInv' OBVIOUS
<1>1. CASE Walk
  BY <1>1, OrderWalk DEF Walk, extraction
<1>2. ASSUME NEW specified \in SUBSET Names, NEW mentioned \in SUBSET Names,
             DeclareInstance(specified, mentioned)
      PROVE  OrderInv'
  BY <1>2, OrderWalk DEF DeclareInstance
<1>3. CASE EndUnit
  BY <1>3, OrderKept DEF EndUnit, NotScheduling, vars, Phases, Before, OrderInv
<1>4. ASSUME NEW id \in 1..Len(tags), putInSet(id) PROVE OrderInv'
  BY <1>4, OrderCollect
<1>5. CASE AllCollected
  BY <1>5, OrderCollected
<1>6. CASE ScheduleRound
  BY <1>6, OrderRound
<1>7. CASE AllScheduled
  BY <1>7, OrderKept DEF AllScheduled, NotScheduling, vars, Phases, Before, OrderInv
<1>8. ASSUME NEW id \in 1..Len(tags), moveSymbolDeclaration(id) PROVE OrderInv'
  BY <1>8, OrderKept DEF moveSymbolDeclaration, NotScheduling, vars, Phases, Before, OrderInv
<1>9. CASE AllMoved
  BY <1>9, OrderKept DEF AllMoved, NotScheduling, vars, Phases, Before, OrderInv
<1>10. CASE UNCHANGED allVars
  BY <1>10, OrderKept DEF allVars, NotScheduling, vars, extraction, OrderInv
<1> QED BY <1>1, <1>2, <1>3, <1>4, <1>5, <1>6, <1>7, <1>8, <1>9, <1>10
        DEF ExtractionNext, Extract

\* Whatever the tags of a unit and the instance data that need them, a tag is
\* always scheduled in a later round than the tags its body references.
THEOREM ParentsComeFirst == ExtractionSpec => []ParentsFirst
<1>1. OrderInv => ParentsFirst BY DEF OrderInv
<1> QED BY <1>1, OrderInit, OrderNext, PTL DEF ExtractionSpec

-----------------------------------------------------------------------------
(* What is extracted.                                                       *)

\* The tags that instance data need.
Wanted == instance_parents \cup UNION {Ancestors(x) : x \in instance_parents}

Extracting == {"collect", "schedule", "move", "done"}

\* The tags wanted include the table's tag of each definition; they are
\* collected before the loop, scheduled by it and then moved.
NeedsInv ==
  /\ instance_parents \subseteq Ids /\ defined_then \subseteq Ids
  /\ \A id \in defined_then :
       isComplete(id) /\ (errors = 0 => symTableTag[KeyOf(id)] \in Wanted)
  /\ phase \in Extracting => errors = 0
  /\ phase \in Extracting \ {"collect"} => instance_parents \subseteq to_schedule \cup Scheduled
  /\ phase \in {"move", "done"} => to_schedule = {}
  /\ phase = "done" => moved = Scheduled

LEMMA NeedsInit == ExtractionInit => NeedsInv
BY DEF ExtractionInit, NeedsInv, Extracting

\* What a tag needs, it needs for ever.
LEMMA AncestorsGrow ==
  ASSUME TagInv, Grows, NEW x \in Ids
  PROVE  Ancestors(x) \subseteq Ancestors(x)'
<1> SUFFICES ASSUME NEW a \in Ancestors(x) PROVE a \in Ancestors(x)'
  OBVIOUS
<1>1. a \in Ids /\ a \in Ids'
  BY DEF Ancestors, Grows, KeysStay
<1> SUFFICES ASSUME NEW S \in SUBSET Ids',
                    \A p \in S \cup {x} : tags'[p].parents \subseteq S
             PROVE  a \in S
  BY <1>1 DEF Ancestors
<1> DEFINE T == S \cap Ids
<1>2. \A p \in T \cup {x} : tags[p].parents \subseteq T
  <2> SUFFICES ASSUME NEW p \in T \cup {x} PROVE tags[p].parents \subseteq T
    OBVIOUS
  <2>1. p \in Ids /\ p \in S \cup {x}
    OBVIOUS
  <2>2. tags[p].parents \subseteq Ids
    BY <2>1, TableFacts DEF TagInv
  <2>3. tags[p].parents \subseteq tags'[p].parents
    BY <2>1 DEF Grows
  <2> QED BY <2>1, <2>2, <2>3
<1>3. T \in SUBSET Ids
  OBVIOUS
<1>4. a \in T
  <2> HIDE DEF T
  <2> QED BY <1>2, <1>3 DEF Ancestors
<1> QED BY <1>4

\* A set that holds a tag and the parents of its members holds all it needs.
LEMMA AncestorsIn ==
  ASSUME TagInv, NEW C, \A c \in C : tags[c].parents \subseteq C,
         NEW x \in Ids, x \in C
  PROVE  Ancestors(x) \subseteq C
<1> DEFINE T == C \cap Ids
<1>1. \A p \in T \cup {x} : tags[p].parents \subseteq T
  BY TableFacts DEF TagInv
<1>2. T \in SUBSET Ids
  OBVIOUS
<1>3. Ancestors(x) \subseteq T
  <2> HIDE DEF T
  <2> QED BY <1>1, <1>2 DEF Ancestors
<1> QED BY <1>3

LEMMA NeedsWalk ==
  ASSUME TagInv, TagInv', Grows, NeedsInv, phase = "walk",
         UNCHANGED <<phase, instance_parents, defined_then>>
  PROVE  NeedsInv'
<1>1. /\ instance_parents \subseteq Ids /\ defined_then \subseteq Ids
      /\ \A id \in defined_then :
           isComplete(id) /\ (errors = 0 => symTableTag[KeyOf(id)] \in Wanted)
  BY DEF NeedsInv
<1>2. Wanted \subseteq Wanted'
  BY <1>1, AncestorsGrow DEF Wanted
<1>3. /\ \A id \in Ids : id \in Ids' /\ KeyOf(id)' = KeyOf(id) /\ Settled(id)
      /\ errors' = 0 => errors = 0
  BY DEF Grows, KeysStay, TagInv, TableInv, Shapes
<1>4. \A id \in defined_then :
        isComplete(id)' /\ (errors' = 0 => symTableTag'[KeyOf(id)'] \in Wanted')
  BY <1>1, <1>2, <1>3 DEF Settled
<1>5. instance_parents' \subseteq Ids' /\ defined_then' \subseteq Ids'
  BY <1>1, <1>3
<1> QED BY <1>4, <1>5 DEF NeedsInv, Extracting

\* The table's tag of a definition that a specifier needs is that definition or
\* a brother of it: the object wants both.
LEMMA NeedsDeclare ==
  ASSUME TagInv, NeedsInv, NEW specified \in SUBSET Names, NEW mentioned \in SUBSET Names,
         DeclareInstance(specified, mentioned)
  PROVE  NeedsInv'
<1> DEFINE ids == Found(specified)
           others == Found(mentioned)
           siblings == UNION {Siblings(id) : id \in ids}
<1>1. /\ phase = "walk" /\ 0 \notin ids \cup others
      /\ UNCHANGED <<vars, to_schedule, ordered_list, moved>>
  BY DEF DeclareInstance
<1>0. ids \subseteq Ids /\ others \subseteq Ids
  <2> SUFFICES ASSUME NEW names \in SUBSET Names, 0 \notin Found(names)
               PROVE  Found(names) \subseteq Ids
    BY <1>1
  <2> SUFFICES ASSUME NEW name \in names PROVE Lookup(name) \in Ids
    BY DEF Found
  <2>1. Lookup(name) # 0
    BY DEF Found
  <2> QED BY <2>1, LookupFinds DEF TagInv
<1>2. UNCHANGED <<tags, complete, symTableTag, errors>>
  BY <1>1 DEF vars
<1>3. /\ Ids' = Ids /\ \A x \in Ids : KeyOf(x)' = KeyOf(x)
      /\ \A x \in Ids : isComplete(x)' = isComplete(x) /\ Ancestors(x)' = Ancestors(x)
  BY <1>2 DEF Ids, KeyOf, isComplete, Ancestors
<1>4. /\ instance_parents \subseteq Ids /\ defined_then \subseteq Ids
      /\ \A x \in defined_then :
           isComplete(x) /\ (errors = 0 => symTableTag[KeyOf(x)] \in Wanted)
  BY DEF NeedsInv
<1>5. CASE \E id \in ids : Cyclic(id)
  <2>1. phase' = "overflow" /\ UNCHANGED <<instance_parents, defined_then>>
    BY <1>5 DEF DeclareInstance
  <2>2. Wanted' = Wanted
    BY <1>3, <1>4, <2>1 DEF Wanted
  <2> QED BY <1>2, <1>3, <1>4, <2>1, <2>2 DEF NeedsInv, Extracting, KeyOf
<1>6. CASE ~\E id \in ids : Cyclic(id)
  <2>1. /\ phase' = "walk"
        /\ instance_parents' = instance_parents \cup ids \cup others \cup siblings
        /\ defined_then' = defined_then \cup CompleteNeeds(ids)
    BY <1>1, <1>6 DEF DeclareInstance
  <2>2. \A id \in ids : Needs(id) \subseteq Ids /\ Siblings(id) \subseteq Ids
    BY <1>0 DEF Needs, Ancestors, Siblings, Brothers, Ids
  <2> HIDE DEF ids, others
  <2>a. siblings \subseteq Ids /\ CompleteNeeds(ids) \subseteq Ids
    BY <2>2 DEF CompleteNeeds
  <2>6. instance_parents' \subseteq Ids /\ defined_then' \subseteq Ids
    BY <1>0, <1>4, <2>1, <2>a
  <2>3. /\ Wanted \subseteq Wanted'
        /\ \A id \in ids : Needs(id) \cup Siblings(id) \subseteq Wanted'
    <3>1. Wanted' = instance_parents' \cup UNION {Ancestors(x) : x \in instance_parents'}
      BY <1>3, <2>6 DEF Wanted
    <3> QED BY <2>1, <3>1 DEF Wanted, Needs
  <2>4. ASSUME NEW id \in ids, NEW a \in Needs(id) PROVE symTableTag[KeyOf(a)] \in Wanted'
    <3>1. symTableTag[KeyOf(a)] \in Brothers(a)
      BY <2>2 DEF TagInv, TableInv, TagsStayAttached
    <3>2. symTableTag[KeyOf(a)] = a \/ symTableTag[KeyOf(a)] \in Siblings(id)
      BY <3>1 DEF Siblings
    <3> QED BY <2>3, <3>2
  <2>5. \A x \in defined_then' :
          isComplete(x) /\ (errors = 0 => symTableTag[KeyOf(x)] \in Wanted')
    BY <1>4, <2>1, <2>3, <2>4 DEF CompleteNeeds
  <2>7. \A x \in defined_then' :
          isComplete(x)' /\ (errors' = 0 => symTableTag'[KeyOf(x)'] \in Wanted')
    BY <1>2, <1>3, <2>5, <2>6
  <2> QED BY <1>3, <2>1, <2>6, <2>7 DEF NeedsInv, Extracting
<1> QED BY <1>5, <1>6

\* The steps of the extraction leave the tags and what is wanted alone.
LEMMA NeedsKept ==
  ASSUME NeedsInv, UNCHANGED <<vars, instance_parents, defined_then>>,
         phase' \in Extracting => errors = 0,
         phase' \in Extracting \ {"collect"} =>
           instance_parents \subseteq to_schedule' \cup Scheduled',
         phase' \in {"move", "done"} => to_schedule' = {},
         phase' = "done" => moved' = Scheduled'
  PROVE  NeedsInv'
<1>1. UNCHANGED <<tags, complete, symTableTag, errors>>
  BY DEF vars
<1>2. Ids' = Ids /\ Wanted' = Wanted
  BY <1>1 DEF Ids, Wanted, Ancestors
<1>3. \A x \in Ids : KeyOf(x)' = KeyOf(x) /\ isComplete(x)' = isComplete(x)
  BY <1>1 DEF KeyOf, isComplete
<1>4. \A x \in defined_then' :
        isComplete(x)' /\ (errors' = 0 => symTableTag'[KeyOf(x)'] \in Wanted')
  BY <1>1, <1>2, <1>3 DEF NeedsInv
<1> QED BY <1>1, <1>2, <1>4 DEF NeedsInv

LEMMA NeedsNext ==
  TagInv /\ TagInv' /\ OrderInv /\ NeedsInv /\ [ExtractionNext]_allVars => NeedsInv'
<1> SUFFICES ASSUME TagInv, TagInv', OrderInv, NeedsInv, [ExtractionNext]_allVars
             PROVE  NeedsInv'
  OBVIOUS
<1> USE DEF Extracting
<1>1. CASE Walk
  <2>1. Grows
    BY <1>1, TagNext DEF Walk
  <2> QED BY <1>1, <2>1, NeedsWalk DEF Walk, extraction
<1>2. ASSUME NEW specified \in SUBSET Names, NEW mentioned \in SUBSET Names,
             DeclareInstance(specified, mentioned)
      PROVE  NeedsInv'
  BY <1>2, NeedsDeclare
<1>3. CASE EndUnit
  BY <1>3, NeedsKept DEF EndUnit, NeedsInv
<1>4. ASSUME NEW id \in 1..Len(tags), putInSet(id) PROVE NeedsInv'
  BY <1>4, NeedsKept DEF putInSet, NeedsInv
<1>5. CASE AllCollected
  <2>1. instance_parents \subseteq to_schedule
    BY <1>5 DEF AllCollected, Missing
  <2> QED BY <1>5, <2>1, NeedsKept DEF AllCollected, NeedsInv
<1>6. CASE ScheduleRound
  <2>1. to_schedule' \cup Scheduled' = to_schedule \cup Scheduled
    BY <1>6, ScheduledGrows DEF ScheduleRound, Schedulable
  <2> QED BY <1>6, <2>1, NeedsKept DEF ScheduleRound, NeedsInv
<1>7. CASE AllScheduled
  <2>1. Scheduled' = Scheduled
    BY <1>7 DEF AllScheduled, Scheduled
  <2> QED BY <1>7, <2>1, NeedsKept DEF AllScheduled, NeedsInv
<1>8. ASSUME NEW id \in 1..Len(tags), moveSymbolDeclaration(id) PROVE NeedsInv'
  <2>1. Scheduled' = Scheduled
    BY <1>8 DEF moveSymbolDeclaration, Scheduled
  <2> QED BY <1>8, <2>1, NeedsKept DEF moveSymbolDeclaration, NeedsInv
<1>9. CASE AllMoved
  <2>1. Scheduled' = Scheduled
    BY <1>9 DEF AllMoved, Scheduled
  <2> QED BY <1>9, <2>1, NeedsKept DEF AllMoved, NeedsInv
<1>10. CASE UNCHANGED allVars
  <2>1. Scheduled' = Scheduled
    BY <1>10 DEF allVars, extraction, Scheduled
  <2> QED BY <1>10, <2>1, NeedsKept DEF allVars, extraction, NeedsInv
<1> QED BY <1>1, <1>2, <1>3, <1>4, <1>5, <1>6, <1>7, <1>8, <1>9, <1>10
        DEF ExtractionNext, Extract

\* When the extraction ends, every tag that instance data name has been moved,
\* and the definition of each tag that their specifiers need, and that was complete
\* when they were declared, is one of the tags moved, whatever forward declarations
\* it was reached by and whatever was declared since.
THEOREM DefinitionsAreMoved == ExtractionSpec => []DefinitionsFollow
<1>1. TagInv /\ OrderInv /\ NeedsInv => DefinitionsFollow
  <2> SUFFICES ASSUME TagInv, OrderInv, NeedsInv, phase = "done"
               PROVE  /\ instance_parents \subseteq moved
                      /\ \A id \in defined_then : symTableTag[KeyOf(id)] \in moved
    BY DEF DefinitionsFollow
  <2>1. /\ instance_parents \subseteq moved /\ moved = Scheduled /\ to_schedule = {}
        /\ errors = 0 /\ instance_parents \subseteq Ids
        /\ \A id \in defined_then : symTableTag[KeyOf(id)] \in Wanted
    BY DEF NeedsInv, Extracting
  <2>2. \A c \in moved : tags[c].parents \subseteq moved
    BY <2>1 DEF OrderInv, Before, Closed
  <2>3. Wanted \subseteq moved
    BY <2>1, <2>2, AncestorsIn DEF Wanted
  <2> QED BY <2>1, <2>3
<1> QED BY <1>1, TagInvariant, OrderInit, OrderNext, NeedsInit, NeedsNext, PTL DEF ExtractionSpec
=============================================================================
