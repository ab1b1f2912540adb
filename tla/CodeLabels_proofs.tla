-------------------------- MODULE CodeLabels_proofs --------------------------
(***************************************************************************)
(* Proofs about code labels, for any number of labels and functions.        *)
(***************************************************************************)
EXTENDS CodeLabels, FiniteSetTheorems, SequenceTheorems, TLAPS

Label == [path : Seq(Nat), isDefinition : BOOLEAN]

LabelInv == TypeOK /\ PendingBelongToBody

LEMMA LabelInvInit == Init => LabelInv
<1> SUFFICES ASSUME Init PROVE LabelInv
  OBVIOUS
<1>1. Ids = {}
  BY DEF Init, Ids
<1>2. TypeOK
  <2>1. scopeStackCodeLabel \in Seq(0..(functiondef_number - 1))
    BY DEF Init
  <2>2. labels \in Seq([path : Seq(Nat), isDefinition : BOOLEAN])
    BY DEF Init
  <2>3. DOMAIN symTableCodeLabel = {}
    BY DEF Init
  <2>4. /\ functiondef_number \in 0..MaxFunctions /\ referenceCodeLabelList = {}
        /\ errors \in Nat
    BY CodeLabelsAssumption DEF Init
  <2>5. aborted \in BOOLEAN
    BY DEF Init
  <2> QED BY <2>1, <2>2, <2>3, <2>4, <2>5 DEF TypeOK
<1> QED BY <1>1, <1>2 DEF LabelInv, PendingBelongToBody

\* A set of labels has a number of elements, which is 0 only if it is empty.
LEMMA LabelsCount ==
  ASSUME TypeOK, NEW S \in SUBSET Ids
  PROVE  Cardinality(S) \in Nat /\ (Cardinality(S) = 0 <=> S = {})
<1>1. IsFiniteSet(Ids)
  BY FS_Interval DEF Ids, TypeOK
<1>2. IsFiniteSet(S)
  BY <1>1, FS_Subset
<1> QED BY <1>2, FS_CardinalityType, FS_EmptySet

\* What addCodeLabel does, in a body where no label of the name is visible.
LEMMA addCodeLabelEffect ==
  ASSUME LabelInv, NEW name \in Names, NEW def \in BOOLEAN,
         addCodeLabel(name, def), InBody, NoError,
         UNCHANGED <<scopeStackCodeLabel, functiondef_number>>
  PROVE  LabelInv'
<1> DEFINE id == Len(labels) + 1
           new == [path |-> scopeStackCodeLabel, isDefinition |-> def]
<1> USE DEF LabelInv
<1>1. scopeStackCodeLabel \in Seq(Nat)
  BY CodeLabelsAssumption DEF TypeOK
<1>2. labels \in Seq(Label) /\ new \in Label
  BY <1>1 DEF TypeOK, Label
<1>3. /\ labels' = Append(labels, new) /\ labels' \in Seq(Label)
      /\ Len(labels') = id /\ labels'[id] = new
      /\ \A i \in Ids : labels'[i] = labels[i]
  BY <1>2 DEF addCodeLabel, Ids
<1>4. /\ Ids' = Ids \cup {id}
      /\ referenceCodeLabelList' = IF def THEN referenceCodeLabelList
                                   ELSE referenceCodeLabelList \cup {id}
      /\ UNCHANGED <<errors, aborted, scopeStackCodeLabel, functiondef_number>>
  BY <1>2, <1>3 DEF Ids, addCodeLabel, NoError
<1>5. TypeOK'
  <2>1. \A key \in DOMAIN symTableCodeLabel' : symTableCodeLabel'[key] \in Ids'
    BY <1>4 DEF addCodeLabel, TypeOK
  <2> QED BY <1>3, <1>4, <2>1 DEF TypeOK, Label
<1>6. PendingBelongToBody'
  <2>1. SUFFICES ASSUME errors = 0, ~aborted, NEW i \in Ids', ~labels'[i].isDefinition
                 PROVE  i \in referenceCodeLabelList' /\ labels'[i].path = scopeStackCodeLabel
    BY <1>4 DEF PendingBelongToBody
  <2>2. CASE i = id
    <3>1. labels'[i] = new /\ ~def
      BY <1>3, <2>1, <2>2
    <3> QED BY <1>4, <2>2, <3>1
  <2>3. CASE i \in Ids
    BY <1>3, <1>4, <2>1, <2>3 DEF PendingBelongToBody
  <2> QED BY <1>4, <2>2, <2>3
<1> QED BY <1>5, <1>6

LEMMA LabelInvPush == LabelInv /\ pushCodeLabelScope => LabelInv'
<1> SUFFICES ASSUME LabelInv, pushCodeLabelScope PROVE LabelInv'
  OBVIOUS
<1> USE CodeLabelsAssumption DEF LabelInv, pushCodeLabelScope
<1>1. TypeOK'
  <2>1. scopeStackCodeLabel \in Seq(0..functiondef_number)
    BY DEF TypeOK
  <2>2. scopeStackCodeLabel' \in Seq(0..(functiondef_number' - 1))
    BY <2>1 DEF TypeOK
  <2> QED BY <2>2 DEF TypeOK, Ids
<1>2. PendingBelongToBody'
  \* Unless the compilation ends here, no use waits, hence no label is undefined.
  BY DEF PendingBelongToBody, TypeOK, Ids
<1> QED BY <1>1, <1>2

LEMMA LabelInvPop == LabelInv /\ popCodeLabelScope => LabelInv'
<1> SUFFICES ASSUME LabelInv, popCodeLabelScope PROVE LabelInv'
  OBVIOUS
<1> USE CodeLabelsAssumption DEF LabelInv
<1> DEFINE undefined == {l \in referenceCodeLabelList : ~labels[l].isDefinition}
<1>1. /\ UNCHANGED <<functiondef_number, symTableCodeLabel, labels>>
      /\ referenceCodeLabelList' = {}
      /\ errors' = errors + Cardinality(undefined)
      /\ aborted' \in BOOLEAN
      /\ scopeStackCodeLabel # << >> /\ ~aborted
      /\ scopeStackCodeLabel' = SubSeq(scopeStackCodeLabel, 1, Len(scopeStackCodeLabel) - 1)
  BY DEF popCodeLabelScope, RaiseErrors, InBody
<1>2. Cardinality(undefined) \in Nat /\ (Cardinality(undefined) = 0 <=> undefined = {})
  BY LabelsCount DEF TypeOK
<1>3. TypeOK'
  <2>1. scopeStackCodeLabel' \in Seq(0..(functiondef_number - 1))
    BY <1>1 DEF TypeOK
  <2> QED BY <1>1, <1>2, <2>1 DEF TypeOK, Ids
<1>4. PendingBelongToBody'
  <2>1. SUFFICES ASSUME errors' = 0, NEW id \in Ids, ~labels[id].isDefinition PROVE FALSE
    BY <1>1 DEF PendingBelongToBody, Ids
  <2>2. errors = 0 /\ undefined = {}
    BY <1>1, <1>2, <2>1 DEF TypeOK
  <2>3. id \in referenceCodeLabelList
    BY <1>1, <2>1, <2>2 DEF PendingBelongToBody
  <2> QED BY <2>1, <2>2, <2>3
<1> QED BY <1>3, <1>4

LEMMA LabelInvDefine ==
  ASSUME LabelInv, NEW name \in Names, DefineLabel(name)
  PROVE  LabelInv'
<1> USE DEF LabelInv
<1>1. /\ InBody /\ UNCHANGED <<scopeStackCodeLabel, functiondef_number>>
  BY DEF DefineLabel
<1>2. CASE addCodeLabel(name, TRUE) /\ NoError
  BY <1>1, <1>2, addCodeLabelEffect
<1>3. ASSUME UNCHANGED <<symTableCodeLabel, referenceCodeLabelList, labels>>, RaiseErrors(1)
      PROVE  LabelInv'
  BY <1>1, <1>3 DEF TypeOK, Ids, PendingBelongToBody, RaiseErrors
<1>4. ASSUME UNCHANGED <<symTableCodeLabel, referenceCodeLabelList>>, NoError,
             labels' = [labels EXCEPT ![lookupCodeLabel(name)] =
                                  [@ EXCEPT !.isDefinition = TRUE]]
      PROVE  LabelInv'
  <2>1. /\ labels' \in Seq(Label) /\ Len(labels') = Len(labels)
        /\ \A id \in Ids : /\ labels'[id].path = labels[id].path
                           /\ labels[id].isDefinition => labels'[id].isDefinition
    <3> DEFINE k == lookupCodeLabel(name)
    <3>1. labels \in Seq(Label) /\ labels \in [Ids -> Label]
      BY LenProperties DEF TypeOK, Ids, Label
    <3>2. CASE k \in Ids
      <4> DEFINE e == [labels[k] EXCEPT !.isDefinition = TRUE]
      <4>1. labels[k] \in Label
        BY <3>1, <3>2
      <4>2. e \in Label /\ e.path = labels[k].path /\ e.isDefinition
        BY <4>1 DEF Label
      <4>3. labels' = [labels EXCEPT ![k] = e]
        BY <1>4, <3>1, <3>2
      <4> HIDE DEF e
      <4> QED BY <3>1, <3>2, <4>2, <4>3, ExceptSeq DEF Ids
    <3>3. CASE k \notin Ids
      <4>1. labels' = labels
        BY <1>4, <3>1, <3>3
      <4> QED BY <3>1, <4>1
    <3> QED BY <3>2, <3>3
  <2> QED BY <1>1, <1>4, <2>1 DEF TypeOK, Ids, PendingBelongToBody, NoError, Label
<1> QED BY <1>1, <1>2, <1>3, <1>4 DEF DefineLabel

LEMMA LabelInvNext == LabelInv /\ [Next]_vars => LabelInv'
<1> SUFFICES ASSUME LabelInv, [Next]_vars PROVE LabelInv'
  OBVIOUS
<1>1. CASE pushCodeLabelScope
  BY <1>1, LabelInvPush
<1>2. CASE popCodeLabelScope
  BY <1>2, LabelInvPop
<1>3. ASSUME NEW name \in Names, UseLabel(name) PROVE LabelInv'
  BY <1>3, addCodeLabelEffect DEF UseLabel
<1>4. ASSUME NEW name \in Names, DefineLabel(name) PROVE LabelInv'
  BY <1>4, LabelInvDefine
<1>5. CASE UNCHANGED vars
  BY <1>5 DEF vars, LabelInv, TypeOK, PendingBelongToBody, Ids
<1> QED BY <1>1, <1>2, <1>3, <1>4, <1>5 DEF Next

-----------------------------------------------------------------------------
\* The label name space is well typed at every step of the walk.
THEOREM LabelsTypeCorrect == Spec => []TypeOK
<1>1. LabelInv => TypeOK
  BY DEF LabelInv
<1> QED BY <1>1, LabelInvInit, LabelInvNext, PTL DEF Spec

\* No jump of an accepted body is left without its target, and no undefined
\* label survives the body it was used in, at any depth of nesting.
THEOREM NoDanglingJump == Spec => []PendingBelongToBody
<1>1. LabelInv => PendingBelongToBody
  BY DEF LabelInv
<1> QED BY <1>1, LabelInvInit, LabelInvNext, PTL DEF Spec
=============================================================================
