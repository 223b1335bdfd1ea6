SPECIFICATION Spec
CONSTANTS
  Transactions <- Payments
  MaxBufferSize = 2
  BatchSize = 2
  RecordsKept = 2
  MaxAccepted = 4
INVARIANTS
  TypeOK
  LostOnlyByOverrun
  InOrder
  BufferIsTheTail
PROPERTIES
  OnlyLateRowsChangeTotals
