\* Two CAM entries of each kind, filled by their credits.
SPECIFICATION FairSpec
CONSTANTS
  Addr <- TwoRows
  Requests <- AllRequests
  RdCamDepth = 2
  WrCamDepth = 2
  HprCredit = 1
  LprCredit = 1
  TpwCredit = 2
INVARIANTS
  TypeOK
  IndicesConserved
  PipNeverOverrun
  CreditsBounded
  NoFault
PROPERTIES
  HazardFreeStore
  StallHasCause
