----------------------------- MODULE CodeLabels -----------------------------
(***************************************************************************)
(* The code labels of function bodies: goto, &&label and label statements   *)
(* of SymbolTableBuilder.g over the label name space of SymbolTable.java.   *)
(* A label may be used before it is defined; what is still undefined when   *)
(* the body ends is an error.  Function definitions may nest (GNU C).       *)
(***************************************************************************)
EXTENDS Integers, Sequences, FiniteSets

CONSTANTS Names, MaxLabels, MaxFunctions, MaxErrors

ASSUME CodeLabelsAssumption ==
  MaxLabels \in Nat /\ MaxFunctions \in Nat /\ MaxErrors \in Nat \ {0}

VARIABLES
  scopeStackCodeLabel,     \* the functions whose bodies are being read
  functiondef_number,
  symTableCodeLabel,       \* <<path of functions, name>> -> label
  labels,                  \* the CodeLabel objects: where, and if defined
  referenceCodeLabelList,  \* labels created by a use, not checked yet
  errors,
  aborted                  \* an internal error, or too many errors

vars == <<scopeStackCodeLabel, functiondef_number, symTableCodeLabel, labels,
          referenceCodeLabelList, errors, aborted>>

InBody == ~aborted /\ scopeStackCodeLabel # << >>

\* lookupCodeLabel: in the function being read, then in those around it
Visible(name) == {i \in 1..Len(scopeStackCodeLabel) :
                    <<SubSeq(scopeStackCodeLabel, 1, i), name>>
                      \in DOMAIN symTableCodeLabel}
lookupCodeLabel(name) ==
  symTableCodeLabel[<<SubSeq(scopeStackCodeLabel, 1,
                             CHOOSE i \in Visible(name) : \A j \in Visible(name) : j <= i),
                      name>>]

RaiseErrors(n) == errors' = errors + n /\ aborted' = (errors + n >= MaxErrors)
NoError == UNCHANGED <<errors, aborted>>

\* addCodeLabel, after a lookup has found nothing
addCodeLabel(name, isDefinition) ==
  LET id == Len(labels) + 1
      key == <<scopeStackCodeLabel, name>>
  IN  /\ id <= MaxLabels
      /\ labels' = Append(labels, [path |-> scopeStackCodeLabel,
                                   isDefinition |-> isDefinition])
      /\ symTableCodeLabel' = [k \in DOMAIN symTableCodeLabel \cup {key} |->
                                 IF k = key THEN id ELSE symTableCodeLabel[k]]
      /\ referenceCodeLabelList' = IF isDefinition THEN referenceCodeLabelList
                                   ELSE referenceCodeLabelList \cup {id}

-----------------------------------------------------------------------------
Init == /\ scopeStackCodeLabel = << >> /\ functiondef_number = 0
        /\ symTableCodeLabel = [k \in {} |-> 0] /\ labels = << >>
        /\ referenceCodeLabelList = {} /\ errors = 0 /\ aborted = FALSE

\* Mutation of pushCodeLabelScope: pending uses do not stop it.
pushUnchecked ==
  /\ ~aborted /\ functiondef_number < MaxFunctions
  /\ scopeStackCodeLabel' = Append(scopeStackCodeLabel, functiondef_number)
  /\ functiondef_number' = functiondef_number + 1
  /\ UNCHANGED <<aborted, symTableCodeLabel, labels, referenceCodeLabelList, errors>>

\* A body begun while uses of the enclosing one wait for their label is an
\* internal error.
pushCodeLabelScope ==
  /\ ~aborted /\ functiondef_number < MaxFunctions
  /\ scopeStackCodeLabel' = Append(scopeStackCodeLabel, functiondef_number)
  /\ functiondef_number' = functiondef_number + 1
  /\ aborted' = (referenceCodeLabelList # {})
  /\ UNCHANGED <<symTableCodeLabel, labels, referenceCodeLabelList, errors>>

popCodeLabelScope ==
  /\ InBody
  /\ scopeStackCodeLabel' = SubSeq(scopeStackCodeLabel, 1, Len(scopeStackCodeLabel) - 1)
  /\ RaiseErrors(Cardinality({l \in referenceCodeLabelList : ~labels[l].isDefinition}))
  /\ referenceCodeLabelList' = {}
  /\ UNCHANGED <<functiondef_number, symTableCodeLabel, labels>>

\* 'goto name', '&&name'
UseLabel(name) ==
  /\ InBody /\ Visible(name) = {}
  /\ addCodeLabel(name, FALSE)
  /\ NoError
  /\ UNCHANGED <<scopeStackCodeLabel, functiondef_number>>

\* 'name :'
DefineLabel(name) ==
  /\ InBody
  /\ \/ /\ Visible(name) = {}
        /\ addCodeLabel(name, TRUE)
        /\ NoError
     \/ /\ Visible(name) # {}
        /\ IF labels[lookupCodeLabel(name)].isDefinition
           THEN RaiseErrors(1) /\ UNCHANGED labels
           ELSE /\ labels' = [labels EXCEPT ![lookupCodeLabel(name)] =
                                  [@ EXCEPT !.isDefinition = TRUE]]
                /\ NoError
        /\ UNCHANGED <<symTableCodeLabel, referenceCodeLabelList>>
  /\ UNCHANGED <<scopeStackCodeLabel, functiondef_number>>

Next == \/ pushCodeLabelScope \/ popCodeLabelScope
        \/ \E name \in Names : UseLabel(name) \/ DefineLabel(name)

Spec == Init /\ [][Next]_vars

-----------------------------------------------------------------------------
(* Properties.                                                              *)

Ids == 1..Len(labels)

TypeOK ==
  /\ functiondef_number \in 0..MaxFunctions
  /\ scopeStackCodeLabel \in Seq(0..(functiondef_number - 1))
  /\ labels \in Seq([path : Seq(Nat), isDefinition : BOOLEAN])
  /\ \A key \in DOMAIN symTableCodeLabel : symTableCodeLabel[key] \in Ids
  /\ referenceCodeLabelList \subseteq Ids
  /\ errors \in Nat /\ aborted \in BOOLEAN

\* Without an error, no jump is left without its target: a label that is
\* still undefined waits in the list that the end of a body checks, and its
\* body is the one being read, never one that an inner definition interrupts.
PendingBelongToBody ==
  errors = 0 /\ ~aborted =>
    \A id \in Ids : ~labels[id].isDefinition =>
      id \in referenceCodeLabelList /\ labels[id].path = scopeStackCodeLabel
=============================================================================
