SPECIFICATION Spec
CONSTANTS
  Irqs = {0, 1}
  Uart = 0
INVARIANTS
  NoNullHandler
  SearchEnds
PROPERTIES
  UartServed
