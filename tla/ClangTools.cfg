SPECIFICATION Spec
CONSTANTS
  MaxBudget = 2
  MaxList = 2
INVARIANTS TypeOK PrintsWholeTree ChildrenFit TextReadsBack ReferencesFound

