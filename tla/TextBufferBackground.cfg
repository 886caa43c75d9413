\* Edits run ahead of the background thread that handles them.
CONSTANTS
  OnBackground = TRUE
  Inserts <- TypedLetters
  MaxText = 3
  MaxEvents = 2
  MaxChanges = 1
SPECIFICATION Spec
INVARIANTS TreeIsOfTheText EditedTreeFits DifferencesAreReported
