-------------------------- MODULE SdramConstraint --------------------------
(***************************************************************************)
(* SdramConstraint: the times of the commands sent to the memory, by bank,  *)
(* bankgroup, logical rank, physical rank and channel, from which           *)
(* TimeToSatisfyConstraints finds when the next one may follow.  The        *)
(* controller asks before it sends a command, and calls InsertCommand for   *)
(* each one it sends, at most one in a cycle.                               *)
(*                                                                          *)
(* A time is kept as the cycles of the controller that have passed since,   *)
(* which stop at Horizon, where every delay has expired.  `timing' holds    *)
(* the delays in those cycles (the _mc times of the memory specification).  *)
(* There is one channel; the tables of a rank by its place in the physical  *)
(* rank or channel hold what those of the logical and physical ranks hold.  *)
(***************************************************************************)
EXTENDS Naturals, FiniteSets

CONSTANTS
  NumOfPhysicalRanksPerChannel,
  NumOfLogicalRanksPerPhysicalRank,
  NumOfBgPerLogicalRank,
  NumOfBanksPerBg,
  timing,          \* [Delay -> Nat]
  is_x4_device,
  Horizon,         \* cycles after which a command no longer matters
  Commands         \* the commands the controller sends

Delay ==
  {"tCL", "tCWL", "tBurst", "tRCD", "tRP", "tRASmin", "tRTP_slr", "tWR_slr",
   "tRRD_L_slr", "tRRD_S_slr", "tRRD_dlr", "tFAW_slr", "tFAW_dlr", "tPPD_slr", "tPPD_dlr",
   "tRFC_slr", "tRFC_dlr", "tRFC_dpr", "tRFCsb_slr", "tRFCsb_dlr",
   "tREFSBRD_slr", "tREFSBRD_dlr",
   "tCCD_L_slr", "tCCD_S_slr", "tCCD_dlr",
   "tCCD_L_WR_slr", "tCCD_L_WR2_slr", "tCCD_S_WR_slr", "tCCD_WR_dlr", "tCCD_WR_dpr",
   "tCCD_L_WTR_slr", "tCCD_S_WTR_slr", "tCCD_WTR_dlr",
   "tCCD_L_RTW_slr", "tCCD_S_RTW_slr", "tCCD_RTW_dlr"}

Reads == {"RD", "RDA"}
Writes == {"WR", "WRA"}
Column == Reads \union Writes
Rfm == {"RFMab", "RFMsb"}
Recorded == Column \union {"ACT", "PRE", "PREsb", "PREab", "REFab", "REFsb"}
Command == Recorded \union Rfm

ASSUME SdramAssumption ==
  /\ NumOfPhysicalRanksPerChannel \in Nat \ {0} /\ NumOfLogicalRanksPerPhysicalRank \in Nat \ {0}
  /\ NumOfBgPerLogicalRank \in Nat \ {0} /\ NumOfBanksPerBg \in Nat \ {0}
  /\ is_x4_device \in BOOLEAN /\ Horizon \in Nat \ {0} /\ Commands \subseteq Command
  /\ timing \in [Delay -> Nat]

(* The write latency is two clocks of the memory below the read latency, which
   is at most one cycle of the controller. *)
ASSUME LatencyAssumption ==
  timing.tCWL <= timing.tCL /\ timing.tCL <= timing.tCWL + 1 /\ timing.tBurst > 0

VARIABLES
  since,                   \* [Recorded -> [Place -> 0 .. Horizon]]
  onbus,                   \* cycles since the last command of any kind
  last_4Activates4lrank,   \* by logical rank: the ages of the last four activates,
  last_4Activates4prank,   \*   the oldest first; and by physical rank
  open,                    \* banks with an open page, as the bank slices keep them
  trace                    \* history: the commands of the last Horizon cycles

sdram == <<since, onbus, last_4Activates4lrank, last_4Activates4prank>>
vars == <<sdram, open, trace>>

-----------------------------------------------------------------------------
(* Addresses.  A refresh machine's address names a rank: it holds no bank and
   no bankgroup, and a REFsb carries its bank number in `bank' alone. *)
RealCid(cs, cid) == cid + NumOfLogicalRanksPerPhysicalRank * cs

BankAddress(cs, cid, bankgroup, bank) ==
  LET real_bg == bankgroup + NumOfBgPerLogicalRank * RealCid(cs, cid)
  IN  [cs |-> cs, cid |-> cid, bank |-> bank, real_cid |-> RealCid(cs, cid),
       real_bg |-> real_bg, real_ba |-> bank + NumOfBanksPerBg * real_bg]

RankAddress(cs, cid, bank) ==
  [cs |-> cs, cid |-> cid, bank |-> bank, real_cid |-> RealCid(cs, cid),
   real_bg |-> 0, real_ba |-> 0]

Cs == 0 .. (NumOfPhysicalRanksPerChannel - 1)
Cid == 0 .. (NumOfLogicalRanksPerPhysicalRank - 1)
Ba == 0 .. (NumOfBanksPerBg - 1)
Banks == {BankAddress(cs, cid, bg, ba) :
            cs \in Cs, cid \in Cid, bg \in 0 .. (NumOfBgPerLogicalRank - 1), ba \in Ba}
Ranks == {RankAddress(cs, cid, ba) : cs \in Cs, cid \in Cid, ba \in Ba}
Address == Banks \union Ranks

Bank(i) == <<"bank", i>>
BankGroup(i) == <<"bg", i>>
Lrank(i) == <<"lrank", i>>
Prank(i) == <<"prank", i>>
Channel == <<"channel", 0>>
Place == UNION {{Bank(b.real_ba), BankGroup(b.real_bg), Lrank(b.real_cid), Prank(b.cs), Channel} :
                  b \in Banks}

SameLrank(a, b) == a.cs = b.cs /\ a.cid = b.cid

GetSameBgBankVec(a) ==
  LET num_bank_per_lrank == NumOfBanksPerBg * NumOfBgPerLogicalRank
      ba_base == a.real_ba - (a.real_ba % num_bank_per_lrank)
  IN  {Bank(ba_base + (a.real_ba % NumOfBanksPerBg) + i * NumOfBanksPerBg) :
         i \in 0 .. (NumOfBgPerLogicalRank - 1)}

GetSameBgVec(a) ==
  {BankGroup(a.real_bg - (a.real_bg % NumOfBgPerLogicalRank) + i) :
     i \in 0 .. (NumOfBgPerLogicalRank - 1)}

OtherLranks(a) == {Lrank(RealCid(a.cs, cid)) : cid \in Cid \ {a.cid}}
OtherPranks(a) == {Prank(cs) : cs \in Cs \ {a.cs}}

-----------------------------------------------------------------------------
(* The delays, one operator per command that may follow.  After(...) is the test
   of the code that `delay' has passed since each of the commands at each place. *)
After(commands, places, delay) ==
  \A c \in commands, p \in places : since[c][p] >= delay

MaxTime == Horizon + 1      \* the age of an activate that never was

AfterRda == timing.tRTP_slr + timing.tRP
AfterWra == timing.tCWL + timing.tBurst + timing.tWR_slr + timing.tRP

(* Mutant: after a write with auto-precharge only the precharge is waited for. *)
AutoClosed_write_as_read(places) == After({"RDA", "WRA"}, places, AfterRda)
AutoClosed(places) ==
  After({"RDA"}, places, AfterRda) /\ After({"WRA"}, places, AfterWra)

(* Mutant: the window of the physical rank is not looked at. *)
ActivateWindows_logical_only(a) == last_4Activates4lrank[a.real_cid][1] >= timing.tFAW_slr
ActivateWindows(a) ==
  /\ last_4Activates4lrank[a.real_cid][1] >= timing.tFAW_slr
  /\ last_4Activates4prank[a.cs][1] >= timing.tFAW_dlr

(* Mutant: the refresh of the rank is looked up like that of a bank. *)
ActAfterRefresh_by_bank(a) ==
  /\ After({"REFab"}, {Bank(a.real_ba)}, timing.tRFC_slr)
  /\ After({"REFsb"}, {Bank(a.real_ba)}, timing.tRFCsb_slr)
ActAfterRefresh(a) ==
  /\ After({"REFab"}, {Lrank(a.real_cid)}, timing.tRFC_slr)
  /\ After({"REFab"}, OtherLranks(a), timing.tRFC_dlr)
  /\ After({"REFab"}, OtherPranks(a), timing.tRFC_dpr)
  /\ After({"REFsb"}, {Bank(a.real_ba)}, timing.tRFCsb_slr)
  /\ After({"REFsb"}, {BankGroup(a.real_bg)}, timing.tREFSBRD_slr)
  /\ After({"REFsb"}, OtherLranks(a), timing.tREFSBRD_dlr)

ActAllowed(a) ==
  /\ After({"PRE", "PREsb"}, {Bank(a.real_ba)}, timing.tRP)
  /\ After({"PREab"}, {Lrank(a.real_cid)}, timing.tRP)
  /\ After({"ACT"}, {Bank(a.real_ba)}, timing.tRCD + timing.tRASmin)
  /\ After({"ACT"}, {BankGroup(a.real_bg)}, timing.tRRD_L_slr)
  /\ After({"ACT"}, {Lrank(a.real_cid)}, timing.tRRD_S_slr)
  /\ After({"ACT"}, OtherLranks(a), timing.tRRD_dlr)
  /\ ActivateWindows(a)
  /\ ActAfterRefresh(a)
  /\ AutoClosed({Bank(a.real_ba)})

(* A precharge of a bank counts the write recovery from the command. *)
PreAllowed(a) ==
  /\ After({"PRE"}, {BankGroup(a.real_bg), Lrank(a.real_cid)}, timing.tPPD_slr)
  /\ After({"PREsb"}, {BankGroup(a.real_bg)}, timing.tPPD_slr)
  /\ After({"PRE", "PREsb", "PREab"}, {Prank(a.cs)}, timing.tPPD_dlr)
  /\ After({"ACT"}, {Bank(a.real_ba)}, timing.tRASmin)
  /\ After({"RD"}, {Bank(a.real_ba)}, timing.tRTP_slr)
  /\ After({"WR"}, {Bank(a.real_ba)}, timing.tWR_slr)

(* A precharge of the banks of one number, or of a logical rank, whose pages
   are in `places'.  The controller sends neither. *)
PreOf(places, a) ==
  /\ After({"PRE", "PREsb"}, {Lrank(a.real_cid)}, timing.tPPD_slr)
  /\ After({"PRE", "PREsb", "PREab"}, {Prank(a.cs)}, timing.tPPD_dlr)
  /\ After({"ACT"}, places, timing.tRASmin)
  /\ After({"RD"}, places, timing.tRTP_slr)
  /\ After({"WR"}, places, timing.tWR_slr)
PreSbAllowed(a) == PreOf(GetSameBgBankVec(a), a)
PreAbAllowed(a) == PreOf({Lrank(a.real_cid)}, a)

(* What both refreshes wait for in the other ranks. *)
RefreshElsewhere(a) ==
  /\ After({"REFsb"}, OtherLranks(a), timing.tRFCsb_dlr)
  /\ After({"REFab"}, OtherLranks(a), timing.tRFC_dlr)
  /\ After({"ACT"}, OtherLranks(a), timing.tRRD_dlr)
  /\ After({"REFab"}, OtherPranks(a), timing.tRFC_dpr)
  /\ last_4Activates4prank[a.cs][1] >= timing.tFAW_dlr

RefAbAllowed(a) ==
  /\ RefreshElsewhere(a)
  /\ After({"PRE", "PREab", "PREsb"}, {Lrank(a.real_cid)}, timing.tRP)
  /\ After({"REFsb"}, {Lrank(a.real_cid)}, timing.tRFCsb_slr)
  /\ After({"REFab"}, {Lrank(a.real_cid)}, timing.tRFC_slr)
  /\ AutoClosed({Lrank(a.real_cid)})

(* The window of the logical rank is read at the number of the physical one. *)
RefSbAllowed(a) ==
  /\ RefreshElsewhere(a)
  /\ After({"REFab"}, {Lrank(a.real_cid)}, timing.tRFC_slr)
  /\ After({"REFsb"}, {Lrank(a.real_cid)}, timing.tRFCsb_slr)
  /\ After({"ACT"}, {Lrank(a.real_cid)}, timing.tRRD_L_slr)
  /\ AutoClosed(GetSameBgBankVec(a))
  /\ \/ last_4Activates4lrank[a.real_cid][1] = MaxTime
     \/ last_4Activates4lrank[a.cs][1] >= timing.tFAW_slr

(* Mutant: the bus of the channel is taken to be that of the rank. *)
BusFree_of_rank(commands, a, delay) == After(commands, {Lrank(a.real_cid)}, delay)
BusFree(commands, a, delay) == After(commands, {Channel}, delay)

RdAllowed(a) ==
  /\ After({"ACT"}, {Bank(a.real_ba)}, timing.tRCD)
  /\ After(Reads, {BankGroup(a.real_bg)}, timing.tCCD_L_slr)
  /\ After(Reads, {Lrank(a.real_cid)}, timing.tCCD_S_slr)
  /\ After(Reads, OtherLranks(a), timing.tCCD_dlr)
  /\ After(Writes, {BankGroup(a.real_bg)}, timing.tCCD_L_WTR_slr)
  /\ After(Writes, {Lrank(a.real_cid)}, timing.tCCD_S_WTR_slr)
  /\ After(Writes, OtherLranks(a), timing.tCCD_WTR_dlr)
  /\ BusFree(Column, a, timing.tBurst)

WrAllowed(a) ==
  /\ After({"ACT"}, {Bank(a.real_ba)}, timing.tRCD)
  /\ After(Writes, {BankGroup(a.real_bg)},
           IF is_x4_device THEN timing.tCCD_L_WR_slr ELSE timing.tCCD_L_WR2_slr)
  /\ After(Writes, {Lrank(a.real_cid)}, timing.tCCD_S_WR_slr)
  /\ After(Writes, OtherLranks(a), timing.tCCD_WR_dlr)
  /\ After(Writes, OtherPranks(a), timing.tCCD_WR_dpr)
  /\ After(Reads, {BankGroup(a.real_bg)}, timing.tCCD_L_RTW_slr)
  /\ After(Reads, {Lrank(a.real_cid)}, timing.tCCD_S_RTW_slr)
  /\ After(Reads, OtherLranks(a), timing.tCCD_RTW_dlr)
  /\ BusFree(Reads, a, timing.tBurst + 1)
  /\ BusFree(Writes, a, timing.tBurst)

(* One command may be on the bus at a time. *)
TimeToSatisfyConstraints(cmd, a) ==
  /\ onbus >= 1
  /\ CASE cmd = "ACT" -> ActAllowed(a)
       [] cmd = "PRE" -> PreAllowed(a)
       [] cmd = "PREsb" -> PreSbAllowed(a)
       [] cmd = "PREab" -> PreAbAllowed(a)
       [] cmd \in {"REFab", "RFMab"} -> RefAbAllowed(a)
       [] cmd \in {"REFsb", "RFMsb"} -> RefSbAllowed(a)
       [] cmd \in Reads -> RdAllowed(a)
       [] cmd \in Writes -> WrAllowed(a)

-----------------------------------------------------------------------------
(* Refresh management is recorded as a refresh. *)
Alias(cmd) == IF cmd = "RFMab" THEN "REFab" ELSE IF cmd = "RFMsb" THEN "REFsb" ELSE cmd

(* Where a command is recorded. *)
Places(cmd, a) ==
  {Lrank(a.real_cid), Prank(a.cs), Channel} \union
  (IF Alias(cmd) \in {"REFsb", "PREsb"}
     THEN GetSameBgBankVec(a) \union GetSameBgVec(a)
     ELSE {Bank(a.real_ba), BankGroup(a.real_bg)})

(* The oldest leaves and the new one joins. Mutant: none leaves. *)
Push_no_pop(deque) == [i \in 1 .. 5 |-> IF i = 5 THEN 0 ELSE deque[i]]
Push(deque) == [i \in 1 .. 4 |-> IF i = 4 THEN 0 ELSE deque[i + 1]]

InsertCommand(cmd, a) ==
  /\ since' = [c \in Recorded |-> [p \in Place |->
                 IF c = Alias(cmd) /\ p \in Places(cmd, a) THEN 0 ELSE since[c][p]]]
  /\ onbus' = 0
  /\ last_4Activates4lrank' =
       IF Alias(cmd) \in {"ACT", "REFsb"}
         THEN [last_4Activates4lrank EXCEPT ![a.real_cid] = Push(@)]
         ELSE last_4Activates4lrank
  /\ last_4Activates4prank' =
       IF Alias(cmd) \in {"ACT", "REFsb", "REFab"}
         THEN [last_4Activates4prank EXCEPT ![a.cs] = Push(@)]
         ELSE last_4Activates4prank

-----------------------------------------------------------------------------
(* The controller: a command keeps to the pages of the banks (Controller!DramSpec)
   and to the times. *)
Init ==
  /\ since = [c \in Recorded |-> [p \in Place |-> Horizon]]
  /\ onbus = Horizon
  /\ last_4Activates4lrank = [r \in {b.real_cid : b \in Banks} |-> [i \in 1 .. 4 |-> MaxTime]]
  /\ last_4Activates4prank = [r \in Cs |-> [i \in 1 .. 4 |-> MaxTime]]
  /\ open = {} /\ trace = {}

Send(cmd, a) ==
  /\ InsertCommand(cmd, a)
  /\ trace' = trace \union {[cmd |-> cmd, a |-> a, age |-> 0]}

BankCommand(cmd, b) ==
  /\ b \in open <=> cmd # "ACT"
  /\ TimeToSatisfyConstraints(cmd, b)
  /\ Send(cmd, b)
  /\ open' = IF cmd = "ACT" THEN open \union {b}
             ELSE IF cmd \in {"PRE", "RDA", "WRA"} THEN open \ {b} ELSE open

(* A refresh finds the banks it is for closed. *)
Refresh(cmd, r) ==
  /\ \A b \in open : SameLrank(b, r) => cmd = "REFsb" /\ b.bank # r.bank
  /\ TimeToSatisfyConstraints(cmd, r)
  /\ Send(cmd, r)
  /\ UNCHANGED open

(* Refresh management is sent for a bank whatever its page and the times. *)
RefreshManagement(cmd, b) ==
  /\ onbus >= 1
  /\ Send(cmd, b)
  /\ UNCHANGED open

Older(age) == IF age < Horizon THEN age + 1 ELSE age

Cycle ==
  /\ since' = [c \in Recorded |-> [p \in Place |-> Older(since[c][p])]]
  /\ onbus' = Older(onbus)
  /\ last_4Activates4lrank' = [r \in DOMAIN last_4Activates4lrank |->
                                [i \in 1 .. 4 |-> Older(last_4Activates4lrank[r][i])]]
  /\ last_4Activates4prank' = [r \in Cs |-> [i \in 1 .. 4 |-> Older(last_4Activates4prank[r][i])]]
  /\ trace' = {[h EXCEPT !.age = @ + 1] : h \in {h \in trace : h.age + 1 < Horizon}}
  /\ UNCHANGED open

NextOf(commands) ==
  \/ Cycle
  \/ \E b \in Banks :
       \/ \E cmd \in commands \intersect ({"ACT", "PRE"} \union Column) : BankCommand(cmd, b)
       \/ \E cmd \in commands \intersect Rfm : RefreshManagement(cmd, b)
  \/ \E r \in Ranks, cmd \in commands \intersect {"REFab", "REFsb"} :
       (cmd = "REFab" => r.bank = 0) /\ Refresh(cmd, r)

Next == NextOf(Commands)

Spec == Init /\ [][Next]_vars

-----------------------------------------------------------------------------
TypeOK ==
  /\ since \in [Recorded -> [Place -> 0 .. Horizon]]
  /\ onbus \in 0 .. Horizon
  /\ last_4Activates4lrank \in [{b.real_cid : b \in Banks} -> [1 .. 4 -> 0 .. MaxTime]]
  /\ last_4Activates4prank \in [Cs -> [1 .. 4 -> 0 .. MaxTime]]
  /\ open \subseteq Banks
  /\ trace \subseteq [cmd : Command, a : Address, age : 0 .. (Horizon - 1)]

(* h was sent before n. *)
Before(h, n) == h # n /\ h.age >= n.age

(* The bursts of any two column commands of the channel, whichever ranks they are
   for, come one after the other on its data bus, in the order of the commands
   (RD and WR wait for the burst of each other at :662 and :841, with a cycle more
   from a read to a write, because the write latency is the shorter one). *)
Latency(cmd) == IF cmd \in Reads THEN timing.tCL ELSE timing.tCWL
DataBusFree ==
  \A h \in trace, n \in trace :
    Before(h, n) /\ h.cmd \in Column /\ n.cmd \in Column
      => h.age + Latency(n.cmd) >= n.age + Latency(h.cmd) + timing.tBurst

(* When a row is opened, the logical rank has opened no more than four in the
   window tFAW_slr that ends with it, and the physical rank no more than four in
   tFAW_dlr, where a refresh of one bank counts in both and a refresh of the rank
   in the second (the two queues of four times, :997-1017). *)
LrankWindow(n) ==
  {h.age : h \in {x \in trace : Alias(x.cmd) \in {"ACT", "REFsb"} /\ SameLrank(x.a, n.a)
                                /\ x.age < timing.tFAW_slr}}
PrankWindow(n) ==
  {h.age : h \in {x \in trace : Alias(x.cmd) \in {"ACT", "REFsb", "REFab"} /\ x.a.cs = n.a.cs
                                /\ x.age < timing.tFAW_dlr}}
FourActivates ==
  \A n \in trace : n.cmd = "ACT" /\ n.age = 0 =>
    Cardinality(LrankWindow(n)) <= 4 /\ Cardinality(PrankWindow(n)) <= 4

(* A bank that was closed, by a precharge or by itself after a column command,
   rests its recovery time before its next row is opened and before its logical
   rank is refreshed, however many commands of the same kind other banks of the
   rank have got since: the refresh reads one time per command and rank. *)
Recovery(cmd) == CASE cmd = "PRE" -> timing.tRP [] cmd = "RDA" -> AfterRda [] cmd = "WRA" -> AfterWra
BanksRest ==
  \A h \in trace, n \in trace :
    /\ Before(h, n) /\ h.cmd \in {"PRE", "RDA", "WRA"}
    /\ (n.cmd = "ACT" /\ h.a = n.a) \/ (n.cmd = "REFab" /\ SameLrank(h.a, n.a))
    => h.age >= n.age + Recovery(h.cmd)

(* While a logical rank is refreshed it gets no command but refresh management:
   its banks are closed when the refresh is sent, and no row is opened, so no
   column command or precharge follows either, before tRFC_slr has passed. *)
RefreshUndisturbed ==
  \A h \in trace, n \in trace :
    Before(h, n) /\ h.cmd = "REFab" /\ n.cmd \notin Rfm /\ SameLrank(h.a, n.a)
      => h.age >= n.age + timing.tRFC_slr
=============================================================================
