-------------------------- MODULE ScopedEnvironment --------------------------
(***************************************************************************)
(* What a block-structured name space promises, independently of how the    *)
(* symbol table stores it: a stack of frames, each binding names to kinds   *)
(* of entities.  A scope opens empty, a binding is made in the innermost    *)
(* frame (or, for the name of a function whose parameters are in that       *)
(* frame, in the one around it), keeps its kind, and goes when its frame    *)
(* does.                                                                    *)
(***************************************************************************)
EXTENDS Integers, Sequences

CONSTANTS Names, Kinds

VARIABLE frames

Empty == [n \in {} |-> "none"]

Init == frames = <<Empty>>

Depth == Len(frames)

\* A scope never reopens with the names of an earlier one.
Open == frames' = Append(frames, Empty)

Close == Depth > 1 /\ frames' = SubSeq(frames, 1, Depth - 1)

Bind(level, name, kind) ==
  /\ level \in {Depth - 1, Depth} \cap 1..Depth
  /\ name \notin DOMAIN frames[level]
  /\ frames' = [frames EXCEPT ![level] =
                  [n \in DOMAIN @ \cup {name} |-> IF n = name THEN kind ELSE @[n]]]

Next == \/ Open \/ Close
        \/ \E level \in {Depth - 1, Depth}, name \in Names, kind \in Kinds :
             Bind(level, name, kind)

Spec == Init /\ [][Next]_frames
=============================================================================
