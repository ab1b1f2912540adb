-------------------------- MODULE InstanceStructure --------------------------
(***************************************************************************)
(* What the reentrant compiler promises about the data of a program,        *)
(* independently of how its linker finds them: one structure, to which each *)
(* variable of the program is added at most once, and whose members stay    *)
(* what and where they are, so that every module can be compiled against    *)
(* it.                                                                      *)
(***************************************************************************)
EXTENDS Sequences

CONSTANT Variables    \* the variables a program can have

VARIABLE members      \* the variables of the structure, in order

Holds(v) == \E k \in DOMAIN members : members[k] = v

Init == members = <<>>

AddMember(v) == ~Holds(v) /\ members' = Append(members, v)

Next == \E v \in Variables : AddMember(v)

Spec == Init /\ [][Next]_members
=============================================================================
