CONSTANTS
  BYTE_QUEUE_CAPACITY = 2
  EVENT_QUEUE_CAPACITY = 2
  Scancodes <- MCScancodes
  MaxOverflow = 1
  Keys = {"LShift", "RShift", "Left", "A"}
  NumLock = TRUE
SPECIFICATION KSpec
INVARIANT ShiftMatchesKeys
