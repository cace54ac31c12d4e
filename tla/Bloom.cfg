SPECIFICATION Spec
CONSTANTS
  Kinds = {"summary"}
  SummaryForms = {"whole", "bloom"}
  Hops = 1
  MaxSets = 2
INVARIANTS ArrivesWhole
CHECK_DEADLOCK FALSE
