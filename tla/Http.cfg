CONSTANTS
  MaxData = 3
  MaxExc = 2
  MaxProgress = 1
  Holdback = 2
  Timeout = 2
  Scripts <- MCScripts
SPECIFICATION Spec
INVARIANTS
  TypeOK
  NoExceptionTextDelivered
  ExceptionReported
PROPERTIES
  ImplementsBodyStream
  TimeoutIsWaitedFor
  ReadsReturn
CHECK_DEADLOCK FALSE
