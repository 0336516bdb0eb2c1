SPECIFICATION Spec
CONSTANTS
  Byte <- MCByte
  Zero <- MCZero
  Capacity <- MCCapacity
PROPERTY
  ImplementsFifo
