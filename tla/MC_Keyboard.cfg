CONSTANTS
  BYTE_QUEUE_CAPACITY = 3
  EVENT_QUEUE_CAPACITY = 3
  Scancodes <- MCScancodes
  MaxOverflow = 1
  EventItems <- MCEventItems
  ByteItems <- MCByteItems
SPECIFICATION Spec
INVARIANT TypeOK
PROPERTY ByteQueueFifo EventQueueFifo
