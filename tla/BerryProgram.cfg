\* Compiled programs on the virtual machine, against what they mean.
SPECIFICATION Spec

CONSTANTS
  ConstSearch = 50
  MaxRegs = 255
  Builtins <- MCBuiltins
  Entries <- MCEntries
  Programs <- MCPrograms
  StackSize = 60
  GcModes = {"never", "always"}

INVARIANT
  AgreesWithSource NoDangling
