SPECIFICATION RegistrySpec
CONSTANTS
  MaxRows = 4
  MaxEdits = 3
  MinReplays = 1
INVARIANT BootstrapHeals
CHECK_DEADLOCK FALSE
