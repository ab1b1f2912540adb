-------------------------- MODULE MCVectorRuntime --------------------------
(***************************************************************************)
(* Vectors of two elements: the first is taken at the limits of its type   *)
(* and next to those of the narrower types, the second at those of its     *)
(* own.                                                                    *)
(***************************************************************************)
EXTENDS VectorRuntime

MCLimits(u) == {Low(u), Low(u) + 1, High(u) - 1, High(u)}
MCFirst(u) ==
  { x \in {-1, 0, 1} \cup UNION { MCLimits(v) \cup {Low(v) - 1, High(v) + 1} : v \in Types } :
      x \in Values(u) }
MCOperands(u) ==
  { <<x, y>> : x \in MCFirst(u), y \in {-1, 0, High(u)} \cap Values(u) }
MCGarbage == {-1, 0, 5}
=============================================================================
