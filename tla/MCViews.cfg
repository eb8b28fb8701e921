CONSTANTS
  Windows = {a}
  Files = {1, 2, 3}
  Restated = {3}
  Nobody = Nobody
  Elsewhere = Elsewhere
  Layouts <- MCLayouts
  Areas <- MCAreas
  Steps <- MCSteps
SPECIFICATION Spec
CHECK_DEADLOCK FALSE
INVARIANTS TypeOK IteratesOnce
PROPERTIES KeepsViewPromise CursorStays
