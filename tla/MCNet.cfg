CONSTANTS
  MaxFrame = 2
  Room = 4
  TxLens = {1, 2}
  RxLens = {1, 2, 3}
  MaxTx = 3
  MaxRx = 2
SPECIFICATION NetSpec
CHECK_DEADLOCK FALSE
INVARIANTS
  TxInStep
  RxInStep
PROPERTY LossNoticed
