\* The smallest buffer xbee_cbuf_init accepts, two byte values.
CONSTANTS
  Mask = 3
  Byte = {a, b}
  None = None
SPECIFICATION Spec
INVARIANTS IInv RoomKept AvailKept
PROPERTIES IsQueue
