\* Clients that consume only the oldest value (every client but the packet
\* input stream).
CONSTANTS
  Capacity = 4
  Value = {a, b}
  Uninitialized = none
  ConsumeAt = {0}
SPECIFICATION Spec
INVARIANTS TypeOK NewValueNotVisible
PROPERTY FifoSpec
