SPECIFICATION HandshakeSpec
CONSTANTS
  Buffered = TRUE
  Last = 4
PROPERTIES ExchangeCatchesUp NextRecordWakes
CHECK_DEADLOCK FALSE
