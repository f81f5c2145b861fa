SPECIFICATION Spec
CONSTANTS
  JsValues <- SomeJsValues
  Columns <- TwoColumns
  IntSpan = 4
  Exact = 16
  LongInts <- SomeLongInts
  Bytes = 4
  MaxRows = 2
INVARIANTS
  BlobsSame
CHECK_DEADLOCK FALSE
