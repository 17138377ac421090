SPECIFICATION MCSpec
CONSTANTS
  NumOfPhysicalRanksPerChannel = 2
  NumOfLogicalRanksPerPhysicalRank = 2
  NumOfBgPerLogicalRank = 2
  NumOfBanksPerBg = 1
  timing <- SmallTiming
  is_x4_device = TRUE
  Horizon = 6
  Commands = {"ACT", "PRE", "RD", "WR", "RDA", "WRA", "REFab", "REFsb", "RFMab"}
  Mixes <- AllMixes
INVARIANTS TypeOK DataBusFree FourActivates BanksRest RefreshUndisturbed
