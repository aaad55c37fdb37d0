\* Every call of the five families; digests of two bytes stand for 32.
CONSTANTS
  DigestBytes = 2
  Alphabet <- ByteOrder
  Nesting = 12
  SignatureOf <- SignatureSymbol
SPECIFICATION Spec
INVARIANTS AcceptsExactly CanonicalDecides PinsAreExact ReportScoped
CHECK_DEADLOCK FALSE
