CONSTANTS
  Capacity = 4
  Byte = {0, 1, 2}
SPECIFICATION Spec
INVARIANTS TypeOK EndsAgree
PROPERTIES ImplementsFifo
