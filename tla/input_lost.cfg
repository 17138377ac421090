\* The controller refuses a request while the pipe buffer is stalled.
SPECIFICATION Spec
CONSTANTS
  Addr <- TwoRows
  Requests <- ReadsAndRmw
  RdCamDepth = 2
  WrCamDepth = 2
  HprCredit = 1
  LprCredit = 1
  TpwCredit = 2
INVARIANTS CreditsConserved
