---------------------------- MODULE TagExtraction ----------------------------
(***************************************************************************)
(* What follows the reading of tags (module TagTable) when instance data    *)
(* are extracted: SymbolTableBuilder.g, runExtraction.  While the unit is   *)
(* read, each global or static object records the tags its declaration      *)
(* needs.  At the end of the unit the tags these need in turn are collected, *)
(* put in an order where each follows its parents, and moved to file scope  *)
(* under new names.                                                         *)
(***************************************************************************)
EXTENDS TagTable

VARIABLES
  phase,             \* "walk", "collect", "schedule", "move", "done", "overflow"
  instance_parents,  \* the parents of the objects of instance_data_list
  defined_then,      \* tags their specifiers need, directly or not, that were
                     \* complete when the object was declared
  to_schedule,
  ordered_list,      \* the tags scheduled by each round of the loop
  moved,             \* the tags of ordered_list that have been moved
  mangling_counter,
  rename             \* the number in the new name of each tag, or 0

extraction == <<phase, instance_parents, defined_then, to_schedule,
                ordered_list, moved, mangling_counter, rename>>
allVars == <<vars, extraction>>

Needs(id)  == {id} \cup Ancestors(id)
Cyclic(id) == \E a \in Needs(id) : a \in Ancestors(a)
Scheduled  == UNION {ordered_list[i] : i \in 1..Len(ordered_list)}

\* Mutation of Siblings: the other declarations of a tag are forgotten.
NoSiblings(id) == {}

\* putBrothersInSet: the other declarations of a tag, and of all it needs, but
\* not of what these need in turn.
Siblings(id) == UNION {Brothers(a) \ {a} : a \in Needs(id)}

ExtractionInit ==
  /\ Init
  /\ phase = "walk" /\ instance_parents = {} /\ defined_then = {} /\ to_schedule = {}
  /\ ordered_list = << >> /\ moved = {} /\ mangling_counter = 0
  /\ rename = [id \in 1..MaxTags |-> 0]

Walk == phase = "walk" /\ Next /\ UNCHANGED extraction

Found(names) == {Lookup(name) : name \in names}

CompleteNeeds(ids) == {a \in UNION {Needs(id) : id \in ids} : isComplete(a)}

\* 'static struct specified (*x)(struct mentioned *) = ...': the specifier names
\* one tag or none, the parameter lists of the declarator and the initializer any
\* number.  All are parents of the object; the other declarations are added of
\* what the specifier needs only.  putBrothersInSet follows parents with no memory
\* of those it has seen, and overflows the stack on a cycle.
DeclareInstance(specified, mentioned) ==
  LET ids == Found(specified)
      others == Found(mentioned)
  IN  /\ phase = "walk" /\ is_split /\ Running /\ open = << >>
      /\ ids \cup others # {} /\ 0 \notin ids \cup others
      /\ IF \E id \in ids : Cyclic(id)
         THEN phase' = "overflow" /\ UNCHANGED <<instance_parents, defined_then>>
         ELSE /\ instance_parents' = instance_parents \cup ids \cup others
                                       \cup UNION {Siblings(id) : id \in ids}
              /\ defined_then' = defined_then \cup CompleteNeeds(ids)
              /\ UNCHANGED phase
      /\ UNCHANGED <<vars, to_schedule, ordered_list, moved, mangling_counter, rename>>

\* The unit ends with no error: exitIfError has been passed.  Declarations are
\* always split when instance data are extracted.
EndUnit == /\ phase = "walk" /\ is_split /\ open = << >> /\ Len(scopes) = 1 /\ errors = 0
           /\ phase' = "collect"
           /\ UNCHANGED <<vars, instance_parents, defined_then, to_schedule,
                          ordered_list, moved, mangling_counter, rename>>

Missing == (instance_parents \cup UNION {tags[id].parents : id \in to_schedule})
             \ to_schedule

putInSet(id) ==
  /\ phase = "collect" /\ id \in Missing
  /\ to_schedule' = to_schedule \cup {id}
  /\ UNCHANGED <<vars, phase, instance_parents, defined_then,
                 ordered_list, moved, mangling_counter, rename>>

AllCollected == /\ phase = "collect" /\ Missing = {}
                /\ phase' = "schedule"
                /\ UNCHANGED <<vars, instance_parents, defined_then, to_schedule,
                               ordered_list, moved, mangling_counter, rename>>

\* Mutations of Schedulable: what has no parent at all; everything.
Roots == {id \in to_schedule : tags[id].parents = {}}
Unordered == to_schedule

Schedulable == {id \in to_schedule : tags[id].parents \cap to_schedule = {}}

\* One round of the loop; a round that finds nothing changes nothing, and the
\* loop goes on for ever.
ScheduleRound ==
  /\ phase = "schedule" /\ Schedulable # {}
  /\ to_schedule' = to_schedule \ Schedulable
  /\ ordered_list' = Append(ordered_list, Schedulable)
  /\ UNCHANGED <<vars, phase, instance_parents, defined_then, moved,
                 mangling_counter, rename>>

AllScheduled == /\ phase = "schedule" /\ to_schedule = {}
                /\ phase' = "move"
                /\ UNCHANGED <<vars, instance_parents, defined_then, to_schedule,
                               ordered_list, moved, mangling_counter, rename>>

\* Mutation of reName: brothers keep their names.
reNameOne(id, n) == rename' = [rename EXCEPT ![id] = n]

reName(id, n) == rename' = [b \in DOMAIN rename |->
                              IF b \in Brothers(id) THEN n ELSE rename[b]]

moveSymbolDeclaration(id) ==
  /\ phase = "move"
  /\ \E i \in 1..Len(ordered_list) :
       /\ id \in ordered_list[i] \ moved
       /\ \A j \in 1..(i - 1) : ordered_list[j] \subseteq moved
  /\ moved' = moved \cup {id}
  /\ mangling_counter' = mangling_counter + 1
  /\ reName(id, mangling_counter')
  /\ UNCHANGED <<vars, phase, instance_parents, defined_then, to_schedule,
                 ordered_list>>

AllMoved == /\ phase = "move" /\ moved = Scheduled
            /\ phase' = "done"
            /\ UNCHANGED <<vars, instance_parents, defined_then, to_schedule,
                           ordered_list, moved, mangling_counter, rename>>

Extract == \/ AllCollected \/ ScheduleRound \/ AllScheduled \/ AllMoved
           \/ \E id \in 1..Len(tags) : putInSet(id) \/ moveSymbolDeclaration(id)

ExtractionNext ==
  \/ Walk \/ EndUnit \/ Extract
  \/ \E specified, mentioned \in SUBSET Names :
       Cardinality(specified) <= 1 /\ DeclareInstance(specified, mentioned)

\* The extraction is one sequential call: it goes on as long as it can.
ExtractionSpec == ExtractionInit /\ [][ExtractionNext]_allVars /\ WF_allVars(Extract)

-----------------------------------------------------------------------------
(* Properties.                                                              *)

\* A declaration moved to file scope finds what it needs before it: a tag is
\* scheduled in a later round than every tag its body references, at any point
\* of the loop.
ParentsFirst ==
  \A i \in 1..Len(ordered_list) : \A id \in ordered_list[i] :
    tags[id].parents \subseteq UNION {ordered_list[j] : j \in 1..(i - 1)}

\* Each tag that an object's specifier, declarator or initializer names is
\* extracted, and with it the definition of each tag that its specifier needs,
\* directly or through bodies, and that was complete when the object was declared,
\* even if all these mention is a forward declaration of it.
DefinitionsFollow ==
  phase = "done" => /\ instance_parents \subseteq moved
                    /\ \A id \in defined_then : symTableTag[KeyOf(id)] \in moved

\* The declarations of one tag keep one name, moved or not, and tags that are
\* not the same never share one although their names did.
NamesAgree ==
  phase = "done" => \A id \in moved :
    /\ \A b \in Brothers(id) : rename[b] = rename[id]
    /\ \A other \in moved : rename[other] = rename[id] => other \in Brothers(id)

\* When no tag needs itself, the extraction comes to its end.
ExtractionEnds ==
  phase = "collect" /\ (\A id \in Ids : id \notin Ancestors(id)) ~> phase = "done"
=============================================================================
