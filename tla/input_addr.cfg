\* A read of an address whose bankgroup and bank differ.
SPECIFICATION Spec
CONSTANTS
  Addr <- OtherBank
  Requests <- NoRmw
  RdCamDepth = 2
  WrCamDepth = 2
  HprCredit = 1
  LprCredit = 1
  TpwCredit = 2
PROPERTIES HazardFreeStore
