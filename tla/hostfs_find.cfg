CONSTANTS
  NumDrives = 1
  MaxAssignments = 4
  Places <- OneDir
  NULL = NULL
  Ops = {"cd", "file", "find"}
  Args <- FindArgs
  Recurse = {TRUE}
  DelDir = {FALSE}
  MaxDepth = 2
SPECIFICATION Spec
INVARIANTS TypeOK EntriesAgree OnItsWay StableListed
PROPERTIES ClusStable
