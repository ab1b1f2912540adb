CONSTANTS
  s1 = s1
  s2 = s2
  Names = {s1, s2}
  Families = {"struct", "union"}
  MaxTags = 3
  MaxScopes = 1
  MaxErrors = 1
SPECIFICATION MCSpec
CHECK_DEADLOCK FALSE
INVARIANTS
  TypeOK
  OneTypePerTag
  TagsStayAttached
  CyclesOnlyByNesting
  ParentsFirst
  DefinitionsFollow
  NamesAgree
PROPERTIES
  ExtractionEnds
