------------------------------ MODULE TagTable ------------------------------
(***************************************************************************)
(* The tag name space: struct and union tags, as the specifiers met by      *)
(* SymbolTableBuilder.g declare, complete and reference them, and addTag of *)
(* SymbolTable.java stores them.  Scopes are the ones of module SymbolTable; *)
(* here they only need an identity.  A tag and the forward declarations of  *)
(* it are distinct Symbol objects that share one Type object, which the end *)
(* of the body completes.                                                   *)
(*                                                                          *)
(* Each complete tag records its parents: the tags its body references,     *)
(* without which its declaration cannot be moved elsewhere.                 *)
(***************************************************************************)
EXTENDS Integers, Sequences, FiniteSets

CONSTANTS
  Names,
  Families,    \* subset of {"struct", "union"}
  MaxTags, MaxScopes, MaxErrors

ASSUME TagTableAssumption ==
  /\ Families \subseteq {"struct", "union"}
  /\ MaxTags \in Nat /\ MaxScopes \in Nat /\ MaxErrors \in Nat \ {0}

VARIABLES
  is_split,       \* tag declarations are split from the one they are in
  scopes,         \* the open scopes, outermost first
  pushed,         \* number of scopes opened so far
  symTableTag,    \* <<scope, name>> -> tag
  tags,           \* every TagSymbol created
  complete,       \* for each Type object created, whether it is complete
  flushed_list,
  open,           \* the tag bodies being read, outermost first
  errors

vars == <<is_split, scopes, pushed, symTableTag, tags, complete, flushed_list, open,
          errors>>

Last(s)  == s[Len(s)]
Front(s) == SubSeq(s, 1, Len(s) - 1)

Running == errors < MaxErrors
HasRoom == Running /\ Len(tags) < MaxTags
NewTag  == Len(tags) + 1
\* Mutation of NewType: off by one.
LastType == Len(complete)
NewType == Len(complete) + 1

\* lookupTagNameInCurrentScope and lookupTagName; 0 when there is none
LookupHere(name) ==
  IF <<Last(scopes), name>> \in DOMAIN symTableTag
  THEN symTableTag[<<Last(scopes), name>>] ELSE 0

Lookup(name) ==
  LET at == {i \in 1..Len(scopes) : <<scopes[i], name>> \in DOMAIN symTableTag}
  IN  IF at = {} THEN 0
      ELSE symTableTag[<<scopes[CHOOSE i \in at : \A j \in at : j <= i], name>>]

isComplete(id) == complete[tags[id].typ]

Brothers(id) == {b \in 1..Len(tags) : b = id \/ (tags[id].brothers # 0
                                                 /\ tags[b].brothers = tags[id].brothers)}

TagSymbol(family, name, typ) ==
  [family |-> family, name |-> name, scope |-> Last(scopes), typ |-> typ,
   brothers |-> 0, parents |-> {}, nested |-> open # << >>]

\* Mutation of Put: what is there stays.
PutFirst(key, id) == symTableTag' = [k \in DOMAIN symTableTag \cup {key} |->
                                       IF k \in DOMAIN symTableTag THEN symTableTag[k]
                                       ELSE id]

Put(key, id) == symTableTag' = [k \in DOMAIN symTableTag \cup {key} |->
                                  IF k = key THEN id ELSE symTableTag[k]]

\* addTag: new is incomplete, as every tag is when it is added.  It takes the
\* place of an incomplete tag of its family; any tag already there becomes
\* its brother (a vector is named by the tag it was made for).
addTag(new, nb_errors) ==
  LET key == <<new.scope, new.name>>
      old == LookupHere(new.name)
      family_differs == old # 0 /\ tags[old].family # new.family
      v == IF old = 0 THEN 0
           ELSE IF tags[old].brothers = 0 THEN old ELSE tags[old].brothers
  IN  /\ IF old = 0 THEN tags' = Append(tags, new)
         ELSE tags' = Append([tags EXCEPT ![old].brothers = v],
                             [new EXCEPT !.brothers = v])
      /\ CASE old = 0 -> Put(key, NewTag) /\ UNCHANGED flushed_list
           [] family_differs -> UNCHANGED <<symTableTag, flushed_list>>
           [] old # 0 /\ ~family_differs /\ isComplete(old) ->
                flushed_list' = flushed_list \cup {NewTag} /\ UNCHANGED symTableTag
           [] OTHER -> flushed_list' = flushed_list \cup {old} /\ Put(key, NewTag)
      /\ errors' = errors + nb_errors + (IF family_differs THEN 1 ELSE 0)

\* The bodies being read see one more reference.
Referenced(stack, ids) ==
  IF stack = << >> THEN stack
  ELSE [stack EXCEPT ![Len(stack)].refs = @ \cup ids]

-----------------------------------------------------------------------------
Init == /\ is_split \in BOOLEAN
        /\ scopes = <<0>> /\ pushed = 0
        /\ symTableTag = [k \in {} |-> 0]
        /\ tags = << >> /\ complete = << >>
        /\ flushed_list = {} /\ open = << >> /\ errors = 0

\* A scope opens between declarations, or for a parameter list in a body.
PushScope == /\ Running /\ pushed < MaxScopes
             /\ pushed' = pushed + 1
             /\ scopes' = Append(scopes, pushed')
             /\ UNCHANGED <<is_split, symTableTag, tags, complete, flushed_list, open, errors>>

\* A body is read to its end in the scope it began in.
PopScope == /\ Running /\ Len(scopes) > 1
            /\ open # << >> => Last(open).depth < Len(scopes)
            /\ scopes' = Front(scopes)
            /\ UNCHANGED <<is_split, pushed, symTableTag, tags, complete, flushed_list, open,
                           errors>>

\* Mutation of SharesType: the body gives the tag a type of its own.
SharesNone(old, family) == FALSE

SharesType(old, family) ==
  old # 0 /\ ~isComplete(old) /\ tags[old].family = family

\* 'struct name {': an incomplete tag of this scope gives its Type object to
\* be completed; a complete one, or one of the other family, is an error.
BeginTag(family, name) ==
  LET old == LookupHere(name)
      error == old # 0 /\ (isComplete(old) \/ tags[old].family # family)
      shares == SharesType(old, family)
      typ == IF shares THEN tags[old].typ ELSE NewType
  IN  /\ HasRoom
      /\ complete' = IF shares THEN complete ELSE Append(complete, FALSE)
      /\ addTag(TagSymbol(family, name, typ), IF error THEN 1 ELSE 0)
      /\ open' = Append(open, [id |-> NewTag, error |-> error, refs |-> {},
                               depth |-> Len(scopes)])
      /\ UNCHANGED <<is_split, scopes, pushed>>

\* Mutation of ParentsOf: a body that mentions its own tag needs itself.
MentionedIn(body) == body.refs

ParentsOf(body) == body.refs \ {body.id}

\* '}': the Type object is complete.  The body's references are the tag's
\* parents, itself excepted.  What the enclosing body sees of this definition
\* is a reference to it when it is split, or else all that it references.
EndTag ==
  LET b == Last(open)
      seen == IF is_split /\ ~b.error THEN {b.id} ELSE b.refs
  IN  /\ Running /\ open # << >> /\ b.depth = Len(scopes)
      /\ open' = Referenced(Front(open), seen)
      /\ IF b.error THEN UNCHANGED <<complete, tags>>
         ELSE /\ complete' = [complete EXCEPT ![tags[b.id].typ] = TRUE]
              /\ tags' = [tags EXCEPT ![b.id].parents = ParentsOf(b)]
      /\ UNCHANGED <<is_split, scopes, pushed, symTableTag, flushed_list, errors>>

\* 'struct name' without a body, alone ('struct name;') or in a declaration:
\* a reference to a tag in sight, or the forward declaration of a new one.
MentionTag(family, name, alone) ==
  LET old == IF alone THEN LookupHere(name) ELSE Lookup(name)
  IN  /\ alone => open = << >>
      /\ \/ /\ Running /\ old # 0
            /\ errors' = errors + (IF tags[old].family = family THEN 0 ELSE 1)
            /\ open' = Referenced(open, {old})
            /\ UNCHANGED <<symTableTag, tags, complete, flushed_list>>
         \/ /\ HasRoom /\ old = 0
            /\ complete' = Append(complete, FALSE)
            /\ addTag(TagSymbol(family, name, NewType), 0)
            /\ open' = IF is_split THEN Referenced(open, {NewTag}) ELSE open
      /\ UNCHANGED <<is_split, scopes, pushed>>

Next == \/ PushScope \/ PopScope \/ EndTag
        \/ \E family \in Families, name \in Names :
             \/ BeginTag(family, name)
             \/ \E alone \in BOOLEAN : MentionTag(family, name, alone)

Spec == Init /\ [][Next]_vars

-----------------------------------------------------------------------------
(* Properties.                                                              *)

Ids == 1..Len(tags)
KeyOf(id) == <<tags[id].scope, tags[id].name>>

\* The state is well formed: every reference is to a tag or type that exists.
TypeOK ==
  /\ scopes # << >> /\ pushed \in 0..MaxScopes /\ errors \in Nat
  /\ \A id \in Ids : /\ tags[id].typ \in 1..Len(complete)
                     /\ tags[id].parents \subseteq Ids
                     /\ tags[id].brothers \in 0..Len(tags)
  /\ \A key \in DOMAIN symTableTag : symTableTag[key] \in Ids
  /\ flushed_list \subseteq Ids
  /\ \A i \in 1..Len(open) : open[i].id \in Ids /\ open[i].refs \subseteq Ids

\* A pointer to 'struct S' made from a forward declaration designates the
\* struct whose body comes later: as long as no error was raised, all the tag
\* symbols of one name and scope share one Type object.
OneTypePerTag ==
  errors = 0 => \A a, b \in Ids : KeyOf(a) = KeyOf(b) => tags[a].typ = tags[b].typ

\* The table holds one tag per name and scope, every other tag of that key is
\* its brother, and a flushed one is of its family or else raised an error.
TagsStayAttached ==
  \A id \in Ids : /\ KeyOf(id) \in DOMAIN symTableTag
                  /\ symTableTag[KeyOf(id)] \in Brothers(id)
                  /\ id \in flushed_list => symTableTag[KeyOf(id)] # id

\* Which tags need which: parents of parents, to any depth, that is the least
\* set that holds the parents of a tag and of each of its members.
Ancestors(id) ==
  { a \in Ids : \A S \in SUBSET Ids :
      (\A p \in S \cup {id} : tags[p].parents \subseteq S) => a \in S }

\* Unless a tag is defined inside the body of another, no tag needs itself,
\* although structures may point to each other through forward declarations.
CyclesOnlyByNesting ==
  \A id \in Ids : id \in Ancestors(id) =>
    \E a \in Ancestors(id) : tags[a].nested
=============================================================================
