--------------------------- MODULE MCTagExtraction ---------------------------
(***************************************************************************)
(* Units up to a change of names.  Names are interchangeable, and so are   *)
(* struct and union; but TLC's symmetry reduction is not sound for         *)
(* ExtractionEnds, which is a liveness property.  Instead, units are taken *)
(* whose first tag has one name and one family, chosen beforehand.         *)
(***************************************************************************)
EXTENDS TagExtraction

FirstName   == CHOOSE name \in Names : TRUE
FirstFamily == CHOOSE family \in Families : TRUE

FirstTagIsChosen ==
  tags # << >> => tags[1].name = FirstName /\ tags[1].family = FirstFamily

MCNext == ExtractionNext /\ FirstTagIsChosen'

MCSpec == ExtractionInit /\ [][MCNext]_allVars /\ WF_allVars(Extract)
=============================================================================
