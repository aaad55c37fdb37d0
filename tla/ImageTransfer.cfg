\* Two redirects at most (4 in the code), a target of two chunks, a slot of three.
CONSTANTS
  Chunks = {"a", "b", "x"}
  Target <- const_Target
  Capacity = 3
  MaxRedirects = 2
SPECIFICATION Spec
INVARIANT GivesBack
PROPERTIES ImplementsInstall Ends
\* A board that booted the slot has left this code.
CHECK_DEADLOCK FALSE
