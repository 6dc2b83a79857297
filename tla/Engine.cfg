SPECIFICATION Spec
CONSTANTS
  Programs <- MCPrograms
  Registers <- MCRegisters
  RxDepth = 4
  TxDepth = 4
  Slack = 3
  RestClocks = 3
  UartClocks = {3, 12, 20}
  RbClocks = 8
  IbClocks = 80
  TmoClocks = 30
  CountMax = 24
INVARIANTS EndsClean
PROPERTIES BusAsAsked RepliesInOrder PinTiming Finishes
