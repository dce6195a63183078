CONSTANTS
  Inputs <- MCInputs
  Calls <- MCCalls
SPECIFICATION Spec
INVARIANTS
  RegistersAgree
  WindowHeld
  HashInPlace
  SearchRight
