SPECIFICATION Spec
CONSTANTS
  Run = {a, b}
  Nobody = Nobody
  MaxCommits = 1
INVARIANTS
  TypeOK
  OneAuthor
  AtMostOneCompletes
  MetadataMarksCompletion
CHECK_DEADLOCK FALSE
