SPECIFICATION Spec
CONSTANTS
  Procs <- Three
  MaxNest = 4
INVARIANTS KeyboardNotReentered InServiceHasHandler
PROPERTIES SwitchesOutermost Served
