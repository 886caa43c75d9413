\* Edits at two carets, each handled inside the edit.
CONSTANTS
  OnBackground = FALSE
  Inserts <- Typed
  MaxText = 4
  MaxEvents = 1
  MaxChanges = 2
SPECIFICATION Spec
INVARIANT EditedTreeFits
