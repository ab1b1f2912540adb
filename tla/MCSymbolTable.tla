---------------------------- MODULE MCSymbolTable ----------------------------
(***************************************************************************)
(* Instances of SymbolTable for TLC.                                       *)
(***************************************************************************)
EXTENDS SymbolTable, TLC

\* Array shapes: a scalar, 'int a[]' and 'int a[10]'.
MCDims == {NoArray, Open, 10}

\* Types are only compared with each other, and so are the parameter lists
\* other than that of 'f()'.  Used for safety properties only.
MCSymmetry == Permutations(Types) \cup Permutations(Params \ {AnyParams})
=============================================================================
