------------------------------ MODULE MCLinker ------------------------------
(***************************************************************************)
(* What the documentation and the comments say of the link, which the code  *)
(* does not do.                                                             *)
(***************************************************************************)
EXTENDS Linker

\* README.txt:213 describes --forcelink as "continue on link variable
\* redefinition": without it, a variable that two modules define stops the
\* compilation.
RedefinitionReported ==
  pass = "done" /\ ~optionLink =>
    \A m1, m2 \in Modules, n \in Names :
      m1 # m2 /\ declared[m1][n] = "data" /\ declared[m2][n] = "data" => errors > 0
=============================================================================
