\* Every text of up to five or six atoms: enough for a verb with a hidden
\* character inside it and an object after it, and for two lines with roles.
SPECIFICATION Spec
CONSTANTS
  Outputs <- MCOutputs
  NotText = NotText
  Window = 1
  FenceOn = TRUE
INVARIANTS
  OutputIsDefanged
  TextIsPreserved
  CleanTextIsKept
CHECK_DEADLOCK FALSE
