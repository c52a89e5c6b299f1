CONSTANTS
  NumDrives = 2
  MaxAssignments = 4
  Places <- Nested
  NULL = NULL
  Ops = {"cd", "del"}
  Args <- DelArgs
  Recurse = {TRUE}
  DelDir = {TRUE, FALSE}
  MaxDepth = 1
SPECIFICATION Spec
PROPERTIES DelOnlyMatching CurDirRestored Terminates
