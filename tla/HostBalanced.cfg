\* A call that fails leaves two values on the stack of the virtual machine.
SPECIFICATION Spec

CONSTANTS
  ConstSearch = 50
  MaxRegs = 255
  Builtins <- MCBuiltins
  Entries <- MCEntries
  Programs <- MCPrograms
  StackSize = 60
  GcModes = {"never", "always"}

INVARIANT
  HostBalanced
