CONSTANTS
  Payments = {"p1", "p2", "p3"}
  Txs = {"t1", "t2"}
  Tx <- MCTx
  MaxSeen = 1
  Restarts = 1
SPECIFICATION FairPaymentSpec
INVARIANTS EndpointRestored SpentTwiceOnlyInARace
PROPERTY ConfirmedIsAccepted
