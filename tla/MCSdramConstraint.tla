-------------------------- MODULE MCSdramConstraint --------------------------
(***************************************************************************)
(* Instances of SdramConstraint for TLC.  The delays are small and differ   *)
(* where the order of the real ones matters; the longest is Horizon.  They  *)
(* are computed from a memory specification as the code does it.            *)
(*                                                                          *)
(* The commands of a few cycles on all the banks of four logical ranks are  *)
(* too many: a behaviour keeps to one of the Mixes, some commands at some   *)
(* addresses with at most `max' of them in Horizon cycles.                  *)
(***************************************************************************)
EXTENDS SdramConstraint, DDR5MemSpec

CONSTANT Mixes

VARIABLE mix

(* A specification of two clocks a cycle. *)
SmallSpec ==
  [tCK |-> 1000, FreqRatio |-> 2, RefMode |-> "FGR", BurstLenth |-> 8, DataRate |-> 2,
   CL |-> 4, CWL |-> 2, nRCD |-> 2, nRP |-> 2, tRAS |-> 2000,
   tRPST |-> 500, tWPRE |-> 1000, Read_DQS_Offset |-> 1000,
   tRTP_slr |-> 2000, tWR_slr |-> 2000, tPPD_slr |-> 2, tPPD_dlr |-> 2,
   tRRD_L_slr |-> 4000, tRRD_S_slr |-> 2, tRRD_dlr |-> 2000, tFAW_slr |-> 12000, tFAW_dlr |-> 10000,
   tRFC1_slr |-> 10000, tRFC1_dlr |-> 6000, tRFC1_dpr |-> 4000,
   tRFC2_slr |-> 6000, tRFC2_dlr |-> 4000, tRFC2_dpr |-> 2000,
   tRFCsb_slr |-> 2000, tRFCsb_dlr |-> 2000, tREFSBRD_slr |-> 2000, tREFSBRD_dlr |-> 2000,
   tCCD_L_slr |-> 4000, tCCD_S_slr |-> 4, tCCD_dlr |-> 4000,
   tCCD_L_WR_slr |-> 6000, tCCD_L_WR2_slr |-> 6000, tCCD_S_WR_slr |-> 4,
   tCCD_WR_dlr |-> 4000, tCCD_WR_dpr |-> 4,
   tCCD_L_WTR_slr_part |-> 2000, tCCD_S_WTR_slr_part |-> 0, tCCD_WTR_dlr_part |-> 0]

SmallTiming ==
  [tCL |-> 2, tCWL |-> 1, tBurst |-> 2, tRCD |-> 1, tRP |-> 1, tRASmin |-> 1,
   tRTP_slr |-> 1, tWR_slr |-> 1, tPPD_slr |-> 1, tPPD_dlr |-> 1,
   tRRD_L_slr |-> 2, tRRD_S_slr |-> 1, tRRD_dlr |-> 1, tFAW_slr |-> 6, tFAW_dlr |-> 5,
   tRFC_slr |-> 3, tRFC_dlr |-> 2, tRFC_dpr |-> 1, tRFCsb_slr |-> 1, tRFCsb_dlr |-> 1,
   tREFSBRD_slr |-> 1, tREFSBRD_dlr |-> 1,
   tCCD_L_slr |-> 2, tCCD_S_slr |-> 2, tCCD_dlr |-> 2,
   tCCD_L_WR_slr |-> 3, tCCD_L_WR2_slr |-> 3, tCCD_S_WR_slr |-> 2,
   tCCD_WR_dlr |-> 2, tCCD_WR_dpr |-> 2,
   tCCD_L_WTR_slr |-> 4, tCCD_S_WTR_slr |-> 3, tCCD_WTR_dlr |-> 3,
   tCCD_L_RTW_slr |-> 4, tCCD_S_RTW_slr |-> 4, tCCD_RTW_dlr |-> 4]

(* The delays are those the code computes for the specification. *)
ASSUME SmallTimingAssumption == WellFormed(SmallSpec) /\ SmallTiming = McTiming(SmallSpec)

(* Of 64Gb_DDR5_6400_B_x8_3DS_4H.json: 16 ns are 13 cycles, 295 ns of refresh 236. *)
ASSUME RoundingAssumption ==
  /\ Tranform2McClk(AcTimingRounding(16000, 312, TRUE), 4) = 13
  /\ Tranform2McClk(AcTimingRounding(295000, 312, TRUE), 4) = 236

(* Banks of one bankgroup, of another one, of another logical and of another
   physical rank. *)
b0 == BankAddress(0, 0, 0, 0)
b1 == BankAddress(0, 0, 1, 0)
c0 == BankAddress(0, 1, 0, 0)
d0 == BankAddress(1, 0, 0, 0)
r0 == RankAddress(0, 0, 0)
r1 == RankAddress(0, 1, 0)

AllMixes ==
  {[commands |-> {"ACT", "REFsb"}, at |-> {b0, c0, r0, r1}, max |-> 5],
   [commands |-> {"ACT", "REFab"}, at |-> {b0, c0, d0} \union Ranks, max |-> 4],
   [commands |-> {"ACT", "RD", "WR"}, at |-> {b0, c0, d0}, max |-> 4],
   [commands |-> {"ACT", "RD", "WRA"}, at |-> {b0, b1}, max |-> 4],
   [commands |-> {"ACT", "PRE", "RDA", "WRA", "REFab"},
    at |-> {b0, b1, r0, r1}, max |-> 3],
   [commands |-> {"ACT", "WR", "REFab", "RFMab"}, at |-> {b0, r0}, max |-> 4]}

MCInit == Init /\ mix \in Mixes
MCNext ==
  /\ NextOf(mix.commands)
  /\ Cardinality(trace') <= mix.max /\ \A h \in trace' : h.a \in mix.at
  /\ UNCHANGED mix
MCSpec == MCInit /\ [][MCNext]_<<vars, mix>>
=============================================================================
