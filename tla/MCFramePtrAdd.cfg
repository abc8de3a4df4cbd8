SPECIFICATION Spec
CONSTANTS
  WordBits = 4
  HalfBits = 2
  STACK_SIZE = 4
  DW = 2
  CTX_SIZE = 2
  DEFAULT_MAP_VALUE_SIZE = 2
  DEFAULT_RINGBUF_SIZE = 3
  U8 = 4
  Programs <- PtrAddPrograms
  MaxIds = 2
  Unknown = {0, 1}
INVARIANT AccessesStayInside
CHECK_DEADLOCK FALSE
