SPECIFICATION Spec
CONSTANTS
  PAGE_FRAME_MAX_COUNT = 4
  Pages = {0, 1, 3}
  KernelPage = 3
  StrayStubs = {0, 3}
  Raised = {0, 14, 33, 48, 49, 64, 66, 200}
INVARIANTS
  TypeOK
  NeverFaults
  CodeMapped
  StackBounded
PROPERTIES
  Booted
  KeyNoticed
CHECK_DEADLOCK FALSE
