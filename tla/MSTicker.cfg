CONSTANT Filter = {f1, f2, f3, f4}
SPECIFICATION TickerSpec
INVARIANTS
  TickerTypeOK
  TickIsComplete
PROPERTIES
  InputsFirst
  TickEnds
CHECK_DEADLOCK FALSE
