----------------------------- MODULE DDR5MemSpec -----------------------------
(***************************************************************************)
(* DDR5MemSpec: how the times of a memory specification become cycles of    *)
(* the controller.  A time is first rounded to clocks of the memory, as     *)
(* JEDEC has it (up, after taking 0.3 % off), and then to cycles of the     *)
(* controller, of FreqRatio clocks each.                                    *)
(*                                                                          *)
(* A specification is a record: times in picoseconds, and what the file     *)
(* gives in clocks in clocks (CL, CWL, nRCD, nRP, tCCD_S_slr, tRRD_S_slr,   *)
(* tPPD_slr, tPPD_dlr, tCCD_WR_dpr).                                        *)
(***************************************************************************)
EXTENDS Naturals

AcTimingRounding(AcTiming, tCK, IsMin) ==
  CASE AcTiming = 0 -> 0
    [] AcTiming # 0 /\ IsMin  -> ((AcTiming * 997) \div tCK + 1000) \div 1000
    [] AcTiming # 0 /\ ~IsMin -> AcTiming \div tCK

Tranform2McClk(ddr_clk, freq_ratio) == (ddr_clk + freq_ratio - 1) \div freq_ratio

(* A time, and a number of clocks, in cycles of the controller. *)
Cycles(s, time) == Tranform2McClk(AcTimingRounding(time, s.tCK, TRUE), s.FreqRatio)
CyclesOfClocks(s, clocks) == Cycles(s, clocks * s.tCK)

tBurst(s) == (s.BurstLenth * s.tCK) \div s.DataRate

(* From a read to a write, and from a write to a read of the rest `part'. *)
ReadToWrite(s) ==
  (s.CL * s.tCK + tBurst(s) + 2 * s.tCK + s.tRPST + s.tWPRE)
    - (s.CWL * s.tCK + s.Read_DQS_Offset + s.tCK \div 2)
WriteToRead(s, part) == s.CWL * s.tCK + tBurst(s) + part

(* The times the timing constraints use.  In fine granularity a refresh takes tRFC2. *)
McTiming(s) ==
  LET fine == s.RefMode = "FGR"
      rtw == Cycles(s, ReadToWrite(s))
  IN
  [tCL |-> Tranform2McClk(s.CL, s.FreqRatio), tCWL |-> Tranform2McClk(s.CWL, s.FreqRatio),
   tRCD |-> Tranform2McClk(s.nRCD, s.FreqRatio), tRP |-> Tranform2McClk(s.nRP, s.FreqRatio),
   tRASmin |-> Cycles(s, s.tRAS), tBurst |-> Cycles(s, tBurst(s)),
   tRRD_L_slr |-> Cycles(s, s.tRRD_L_slr), tRRD_S_slr |-> CyclesOfClocks(s, s.tRRD_S_slr),
   tRRD_dlr |-> Cycles(s, s.tRRD_dlr),
   tFAW_slr |-> Cycles(s, s.tFAW_slr), tFAW_dlr |-> Cycles(s, s.tFAW_dlr),
   tRTP_slr |-> Cycles(s, s.tRTP_slr), tWR_slr |-> Cycles(s, s.tWR_slr),
   tPPD_slr |-> CyclesOfClocks(s, s.tPPD_slr), tPPD_dlr |-> CyclesOfClocks(s, s.tPPD_dlr),
   tCCD_L_slr |-> Cycles(s, s.tCCD_L_slr), tCCD_S_slr |-> CyclesOfClocks(s, s.tCCD_S_slr),
   tCCD_dlr |-> Cycles(s, s.tCCD_dlr),
   tCCD_L_WR_slr |-> Cycles(s, s.tCCD_L_WR_slr), tCCD_L_WR2_slr |-> Cycles(s, s.tCCD_L_WR2_slr),
   tCCD_S_WR_slr |-> CyclesOfClocks(s, s.tCCD_S_WR_slr),
   tCCD_WR_dlr |-> Cycles(s, s.tCCD_WR_dlr), tCCD_WR_dpr |-> CyclesOfClocks(s, s.tCCD_WR_dpr),
   tCCD_L_WTR_slr |-> Cycles(s, WriteToRead(s, s.tCCD_L_WTR_slr_part)),
   tCCD_S_WTR_slr |-> Cycles(s, WriteToRead(s, s.tCCD_S_WTR_slr_part)),
   tCCD_WTR_dlr |-> Cycles(s, WriteToRead(s, s.tCCD_WTR_dlr_part)),
   tCCD_L_RTW_slr |-> rtw, tCCD_S_RTW_slr |-> rtw,
   tCCD_RTW_dlr |-> rtw,
   tRFC_slr |-> Cycles(s, IF fine THEN s.tRFC2_slr ELSE s.tRFC1_slr),
   tRFC_dlr |-> Cycles(s, IF fine THEN s.tRFC2_dlr ELSE s.tRFC1_dlr),
   tRFC_dpr |-> Cycles(s, IF fine THEN s.tRFC2_dpr ELSE s.tRFC1_dpr),
   tRFCsb_slr |-> Cycles(s, s.tRFCsb_slr), tRFCsb_dlr |-> Cycles(s, s.tRFCsb_dlr),
   tREFSBRD_slr |-> Cycles(s, s.tREFSBRD_slr), tREFSBRD_dlr |-> Cycles(s, s.tREFSBRD_dlr)]

(* What the file loader asserts of the latencies; a burst takes time. *)
WellFormed(s) ==
  /\ s.CL \in Nat /\ s.CWL \in Nat /\ s.CL = s.CWL + 2
  /\ s.FreqRatio \in Nat \ {0} /\ s.tCK \in Nat \ {0}
  /\ s.BurstLenth \in Nat /\ s.DataRate \in Nat \ {0} /\ s.BurstLenth >= s.DataRate
=============================================================================
