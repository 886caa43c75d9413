\* One edit at a time, handled inside it.
CONSTANTS
  OnBackground = FALSE
  Inserts <- Typed
  MaxText = 5
  MaxEvents = 1
  MaxChanges = 1
SPECIFICATION Spec
INVARIANTS TypeOK TreeIsOfTheText EditedTreeFits DifferencesAreReported TraverseVisitsAll NodeAtIsInnermost
