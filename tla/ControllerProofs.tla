-------------------------- MODULE ControllerProofs --------------------------
(* Safety of the controller behind the pipe buffer for every choice of banks, *)
(* slices, CAM sizes, policies and thresholds.                                *)
EXTENDS Controller, TLAPS

(* The mode is a record of its fields besides being consistent, so that an
   update of one field keeps the others. *)
ModeInv == mode \in Mode /\ ModeConsistent(mode)

-----------------------------------------------------------------------------
(* The mode switch *)

(* A real switch to one side selects the page commands of that side, and only one
   of the two switches can be wanted. *)
LEMMA UpdateKeepsMode ==
  ASSUME NEW m \in Mode, ModeConsistent(m), NEW rd, NEW wr
  PROVE  UpdateGlobalState(m, rd, wr) \in Mode /\ ModeConsistent(UpdateGlobalState(m, rd, wr))
<1> DEFINE pending2wr == Switch2WrPending(m, rd, wr)
           pending2rd == Switch2RdPending(m, rd, wr)
           real2wr == RealSwitch(pending2wr, rd, m.rd_cnt, wr)
           real2rd == RealSwitch(pending2rd, wr, m.wr_cnt, rd)
           access2wr == SwitchAccess(pending2wr, rd, m.rd_cnt, wr)
           access2rd == SwitchAccess(pending2rd, wr, m.wr_cnt, rd)
           select_wr == ~access2rd /\ (m.st = "WR" \/ access2wr)
           select_rd == ~access2wr /\ (m.st = "RD" \/ access2rd)
           state == IF m.current_state \in {"Rd", "Rd2Wr"}
                      THEN Leave(real2wr, select_wr, select_rd, "Wr", "Rd2Wr", "Rd")
                      ELSE Leave(real2rd, select_rd, select_wr, "Rd", "Wr2Rd", "Wr")
           st == IF real2wr THEN "WR" ELSE IF real2rd THEN "RD" ELSE m.st
           u == [m EXCEPT !.st = st, !.select_wr_access = select_wr,
                          !.select_rd_access = select_rd, !.current_state = state]
<1>1. UpdateGlobalState(m, rd, wr) = u
  BY Zenon DEF UpdateGlobalState
<1>2. /\ real2wr => access2wr /\ m.st = "RD"
      /\ real2rd => access2rd /\ m.st = "WR"
      /\ access2wr => m.st = "RD"
      /\ access2rd => m.st = "WR"
  BY DEF RealSwitch, SwitchAccess, Switch2WrPending, Switch2RdPending
<1>3. /\ m.st \in {"RD", "WR"}
      /\ m.st = "RD" <=> m.current_state \in {"Rd", "Rd2Wr"}
      /\ m.current_state \in {"Rd", "Rd2Wr", "Wr", "Wr2Rd", "Invalid"}
  BY DEF Mode, ModeConsistent
<1>4. select_wr \in BOOLEAN /\ select_rd \in BOOLEAN
  OBVIOUS
<1> HIDE DEF real2wr, real2rd, access2wr, access2rd
<1>5. /\ state \in {"Rd", "Rd2Wr", "Wr", "Wr2Rd"} /\ st \in {"RD", "WR"}
      /\ st = "RD" <=> state \in {"Rd", "Rd2Wr"}
      /\ select_rd <=> state \in {"Rd", "Wr2Rd"}
      /\ select_wr <=> state \in {"Wr", "Rd2Wr"}
  <2>1. CASE m.st = "RD"
    <3>1. ~real2rd /\ ~access2rd /\ (real2wr => access2wr) /\ m.current_state \in {"Rd", "Rd2Wr"}
      BY <1>2, <1>3, <2>1
    <3>2. /\ state = Leave(real2wr, select_wr, select_rd, "Wr", "Rd2Wr", "Rd")
          /\ select_wr <=> access2wr
          /\ select_rd <=> ~access2wr
          /\ st = IF real2wr THEN "WR" ELSE "RD"
      BY <2>1, <3>1
    <3>3. CASE real2wr
      BY <3>1, <3>2, <3>3 DEF Leave
    <3>4. CASE ~real2wr /\ access2wr
      BY <3>1, <3>2, <3>4 DEF Leave
    <3>5. CASE ~access2wr
      BY <3>1, <3>2, <3>5 DEF Leave
    <3>6. QED
      BY <3>3, <3>4, <3>5
  <2>2. CASE m.st = "WR"
    <3>1. ~real2wr /\ ~access2wr /\ (real2rd => access2rd) /\ m.current_state \notin {"Rd", "Rd2Wr"}
      BY <1>2, <1>3, <2>2
    <3>2. /\ state = Leave(real2rd, select_rd, select_wr, "Rd", "Wr2Rd", "Wr")
          /\ select_rd <=> access2rd
          /\ select_wr <=> ~access2rd
          /\ st = IF real2rd THEN "RD" ELSE "WR"
      BY <2>2, <3>1
    <3>3. CASE real2rd
      BY <3>1, <3>2, <3>3 DEF Leave
    <3>4. CASE ~real2rd /\ access2rd
      BY <3>1, <3>2, <3>4 DEF Leave
    <3>5. CASE ~access2rd
      BY <3>1, <3>2, <3>5 DEF Leave
    <3>6. QED
      BY <3>3, <3>4, <3>5
  <2>3. QED
    BY <1>3, <2>1, <2>2
<1> HIDE DEF state, st, select_rd, select_wr
<1>6. /\ u \in Mode /\ u.st = st /\ u.current_state = state
      /\ u.select_rd_access = select_rd /\ u.select_wr_access = select_wr
  BY <1>4, <1>5 DEF Mode
<1>7. ModeConsistent(u)
  BY <1>5, <1>6 DEF ModeConsistent
<1>8. QED
  BY <1>1, <1>6, <1>7, Zenon

(* Counting a command does not touch the state. *)
LEMMA CountKeepsMode ==
  ASSUME NEW m \in Mode, ModeConsistent(m)
  PROVE  /\ RdCmdSend(m) \in Mode /\ ModeConsistent(RdCmdSend(m))
         /\ WrCmdSend(m) \in Mode /\ ModeConsistent(WrCmdSend(m))
<1>1. Count(m.rd_cnt) \in 0 .. Max_RW_BEFORE_SWITCH /\ Count(m.wr_cnt) \in 0 .. Max_RW_BEFORE_SWITCH
  BY ModeAssumption DEF Count, Mode
<1>2. RdCmdSend(m) \in Mode /\ WrCmdSend(m) \in Mode
  BY <1>1 DEF RdCmdSend, WrCmdSend, Mode
<1>3. \A n \in {RdCmdSend(m), WrCmdSend(m)} :
        /\ n.st = m.st /\ n.current_state = m.current_state
        /\ n.select_rd_access = m.select_rd_access /\ n.select_wr_access = m.select_wr_access
  BY DEF RdCmdSend, WrCmdSend, Mode
<1>4. QED
  BY <1>2, <1>3 DEF ModeConsistent

LEMMA ModeInvInit == Init => ModeInv
  BY ModeAssumption DEF Init, ModeInv, ModeInit, Mode, ModeConsistent

LEMMA ModeInvNext == ModeInv /\ [Next]_vars => ModeInv'
<1> SUFFICES ASSUME ModeInv, [Next]_vars PROVE ModeInv'
  OBVIOUS
<1>1. CASE \E due \in BOOLEAN : Evaluate(due)
  <2>1. PICK rd, wr : mode' = UpdateGlobalState(mode, rd, wr)
    BY <1>1, Zenon DEF Evaluate
  <2>2. QED
    BY <2>1, UpdateKeepsMode DEF ModeInv
<1>2. CASE \E x \in Bsc : SendBankCommand(x)
  <2>1. mode' \in {mode, RdCmdSend(mode), WrCmdSend(mode)}
    <3>1. PICK x \in Bsc : SendBankCommand(x)
      BY <1>2
    <3>2. PICK c \in ReadyCommands(x) :
            mode' = IF c.type \notin ColCommands THEN mode
                    ELSE IF c.is_rd THEN RdCmdSend(mode) ELSE WrCmdSend(mode)
      BY <3>1, Zenon DEF SendBankCommand
    <3>3. QED
      BY <3>2
  <2>2. QED
    BY <2>1, CountKeepsMode DEF ModeInv
<1>3. CASE UNCHANGED mode
  BY <1>3 DEF ModeInv
<1>4. QED
  BY <1>1, <1>2, <1>3, Zenon DEF Next, CmdSend, Arrive, WriteData, Activated, Overdue, SendRfm,
     SendRefresh, SendNothing, Store, vars

(* The mode switch never reaches the state UpdateGlobalState calls fatal, and it
   selects the page commands of the one side its state stands for: with either
   policy, any thresholds, and whatever the CAMs and the slices hold, so also with
   any value of the uninitialised expiry flag. *)
THEOREM ModeNeverFatal == Safety => []ModeOK
<1>1. ModeInv => ModeOK
  BY DEF ModeInv, ModeOK
<1>2. QED
  BY ModeInvInit, ModeInvNext, <1>1, PTL DEF Safety

-----------------------------------------------------------------------------
(* The activation counters *)

(* What each slice keeps: a counter at the threshold has its request for refresh
   management pending.  The fields are listed because an EXCEPT changes only
   fields that exist. *)
RaaKept(s) ==
  /\ DOMAIN s = {"ba", "page", "age", "waiting", "rd", "wr", "raa", "rfm", "blocked"}
  /\ s.raa \in Nat /\ s.rfm \in BOOLEAN
  /\ s.raa <= RAA_THRESHOLD + RAAMULT - 1
  /\ s.raa >= RAA_THRESHOLD => s.rfm

RaaInv == DOMAIN slices = Bsc /\ \A x \in Bsc : RaaKept(slices[x])

(* No operation but an ACT, and no refresh, takes the request away from a slice
   whose counter is at the threshold. *)
LEMMA FieldsKeepRaa ==
  ASSUME NEW s, RaaKept(s)
  PROVE  /\ \A v : RaaKept([s EXCEPT !.age = v])
         /\ \A v : RaaKept([s EXCEPT !.waiting = v])
         /\ \A v, w : RaaKept([s EXCEPT !.rd = v, !.wr = w])
         /\ RaaKept(Release(s)) /\ \A b : RaaKept(Allocate(s, b))
BY DEF RaaKept, Release, Allocate

LEMMA RefreshKeepsRaa ==
  ASSUME RAAIMT <= RAA_THRESHOLD, NEW s, RaaKept(s)
  PROVE  RaaKept(DecreaseRaa(s)) /\ RaaKept(Refreshed(s)) /\ \A k : RaaKept(Managed(s, k))
<1>1. RaaKept(Refreshed(s)) /\ RaaKept(ClearRfmReq(s))
  BY RaaAssumption DEF RaaKept, Refreshed, ClearRfmReq
<1>2. RaaKept(DecreaseRaa(s))
  <2>1. CASE RAADEC = 0
    BY <2>1 DEF DecreaseRaa
  <2>2. CASE RAADEC # 0
    <3> DEFINE raa == IF s.raa > RAADEC THEN s.raa - RAADEC ELSE 0
               rfm == s.rfm /\ ~(RAAIMT > 0 /\ raa < RAAIMT)
               blocked == s.blocked /\ ~(RAAMMT > 0 /\ raa < RAAMMT)
    <3>1. DecreaseRaa(s) = [s EXCEPT !.raa = raa, !.rfm = rfm, !.blocked = blocked]
      BY <2>2, Zenon DEF DecreaseRaa
    <3>2. raa \in Nat /\ raa <= s.raa
      BY RaaAssumption DEF RaaKept
    <3>3. raa >= RAA_THRESHOLD => rfm
      BY <3>2, RaaAssumption DEF RaaKept
    <3>4. rfm \in BOOLEAN /\ raa <= RAA_THRESHOLD + RAAMULT - 1
      BY <3>2, RaaAssumption DEF RaaKept
    <3> HIDE DEF raa, rfm, blocked
    <3>5. RaaKept([s EXCEPT !.raa = raa, !.rfm = rfm, !.blocked = blocked])
      BY <3>2, <3>3, <3>4 DEF RaaKept
    <3>6. QED
      BY <3>1, <3>5, Zenon
  <2>3. QED
    BY <2>1, <2>2
<1>3. \A k : RaaKept(Managed(s, k))
  BY <1>1, Zenon DEF Managed
<1>4. QED
  BY <1>1, <1>2, <1>3

(* An ACT is counted while no request is pending, so from below the threshold. *)
LEMMA CommandKeepsRaa ==
  ASSUME NEW s, RaaKept(s), ~s.rfm, NEW row,
         NEW type \in RowCommands \union ColCommands
  PROVE  RaaKept(Update(s, type, row))
<1>1. CASE type = "ACT"
  <2> DEFINE raa == s.raa + RAAMULT
             rfm == s.rfm \/ (RAAIMT > 0 /\ raa >= RAAIMT) \/ raa >= RAA_THRESHOLD
             blocked == s.blocked \/ (RAAMMT > 0 /\ raa >= RAAMMT)
  <2>1. Update(s, type, row) = [s EXCEPT !.page = row, !.age = "activing", !.raa = raa,
                                         !.rfm = rfm, !.blocked = blocked]
    BY <1>1, Zenon DEF Update
  <2>2. /\ raa \in Nat /\ raa <= RAA_THRESHOLD + RAAMULT - 1
        /\ rfm \in BOOLEAN /\ (raa >= RAA_THRESHOLD => rfm)
    BY RaaAssumption DEF RaaKept
  <2> HIDE DEF raa, rfm, blocked
  <2>3. RaaKept([s EXCEPT !.page = row, !.age = "activing", !.raa = raa,
                          !.rfm = rfm, !.blocked = blocked])
    BY <2>2 DEF RaaKept
  <2>4. QED
    BY <2>1, <2>3, Zenon
<1>2. CASE type \in {"PRE", "RD", "WR", "RDA", "WRA"}
  BY <1>2 DEF Update, RaaKept
<1>3. QED
  BY <1>1, <1>2 DEF RowCommands, ColCommands

(* In the fatal state there would be no list to choose from. *)
LEMMA ReadyType ==
  ASSUME ModeInv, NEW x, NEW c \in ReadyCommands(x)
  PROVE  c.type \in RowCommands \union ColCommands
<1> DEFINE rdType == NextRdCommand(slices[x], rd_cam)
           wrType == NextWrCommand(slices[x], wr_cam)
           Types == {"NOP"} \union RowCommands \union ColCommands
<1>1. rdType \in Types /\ wrType \in Types
  BY DEF NextRdCommand, NextWrCommand, NextCommand, RowCommands, ColCommands
<1> DEFINE R(tag) == [type |-> rdType, index |-> slices[x].rd, ba |-> slices[x].ba, is_rd |-> tag]
           W == [type |-> wrType, index |-> slices[x].wr, ba |-> slices[x].ba, is_rd |-> FALSE]
           Of(d, types) == IF d.type \in types THEN {d} ELSE {}
           commands == CASE mode.current_state = "Rd"    -> {R(TRUE)}
                         [] mode.current_state = "Rd2Wr" -> Of(R(TRUE), ColCommands) \union Of(W, RowCommands)
                         [] mode.current_state = "Wr"    -> {W}
                         [] mode.current_state = "Wr2Rd" -> Of(R(FALSE), RowCommands) \union Of(W, ColCommands)
<1>2. c.type # "NOP" /\ c \in {R(TRUE), R(FALSE), W}
  <2>1. ReadyCommands(x) = InTime(slices[x], commands)
    BY Zenon DEF ReadyCommands, GetAvailCommand
  <2>2. c \in commands /\ c.type # "NOP"
    BY <2>1, Zenon DEF InTime
  <2>3. mode.current_state \in {"Rd", "Rd2Wr", "Wr", "Wr2Rd"}
    BY DEF ModeInv, ModeConsistent, Mode
  <2> HIDE DEF R, W
  <2>4. \A d, types : Of(d, types) \subseteq {d}
    OBVIOUS
  <2>5. commands \subseteq {R(TRUE), R(FALSE), W}
    <3> HIDE DEF Of
    <3>1. CASE mode.current_state = "Rd"
      BY <3>1
    <3>2. CASE mode.current_state = "Rd2Wr"
      BY <3>2, <2>4
    <3>3. CASE mode.current_state = "Wr"
      BY <3>3
    <3>4. CASE mode.current_state = "Wr2Rd"
      BY <3>4, <2>4
    <3>5. QED
      BY <2>3, <3>1, <3>2, <3>3, <3>4
  <2>6. QED
    BY <2>2, <2>5
<1> HIDE DEF rdType, wrType
<1>3. c.type \in {rdType, wrType}
  BY <1>2
<1>4. QED
  BY <1>1, <1>2, <1>3

(* The candidate updates and the wait for a refresh leave the counters alone. *)
LEMMA UpdatesKeepRaa ==
  ASSUME NEW sl, DOMAIN sl = Bsc, \A x \in Bsc : RaaKept(sl[x]),
         NEW batch, NEW rd, NEW wr, NEW k, NEW waiting
  PROVE  /\ DOMAIN NttUpdate(sl, batch, rd, wr) = Bsc
         /\ \A x \in Bsc : RaaKept(NttUpdate(sl, batch, rd, wr)[x])
         /\ DOMAIN SetWaiting(sl, k, waiting) = Bsc
         /\ \A x \in Bsc : RaaKept(SetWaiting(sl, k, waiting)[x])
<1>1. ASSUME NEW x \in Bsc PROVE RaaKept(NttUpdate(sl, batch, rd, wr)[x])
  <2>1. PICK v, w : NttUpdate(sl, batch, rd, wr)[x] = [sl[x] EXCEPT !.rd = v, !.wr = w]
    BY Zenon DEF NttUpdate
  <2>2. RaaKept(sl[x])
    OBVIOUS
  <2>3. \A t, u : RaaKept([sl[x] EXCEPT !.rd = t, !.wr = u])
    BY <2>2, FieldsKeepRaa, Zenon
  <2>4. RaaKept([sl[x] EXCEPT !.rd = v, !.wr = w])
    BY <2>3, Zenon
  <2>5. QED
    BY <2>1, <2>4
<1>2. ASSUME NEW x \in Bsc PROVE RaaKept(SetWaiting(sl, k, waiting)[x])
  <2>1. SetWaiting(sl, k, waiting)[x] \in {sl[x], [sl[x] EXCEPT !.waiting = waiting]}
    BY Zenon DEF SetWaiting
  <2>2. RaaKept(sl[x])
    OBVIOUS
  <2>3. RaaKept([sl[x] EXCEPT !.waiting = waiting])
    BY <2>2, FieldsKeepRaa, Zenon
  <2>4. QED
    BY <2>1, <2>2, <2>3, Zenon
<1>3. DOMAIN NttUpdate(sl, batch, rd, wr) = Bsc /\ DOMAIN SetWaiting(sl, k, waiting) = Bsc
  BY Zenon DEF NttUpdate, SetWaiting
<1>4. QED
  BY <1>1, <1>2, <1>3, Zenon

(* CqStore changes the CAMs and the updates, the allocation one slice. *)
LEMMA CqStoreKeepsSlices ==
  ASSUME NEW a, DOMAIN a = {"slices", "ba2bsc", "rd", "wr", "ntt"}, NEW n \in CqStore(a)
  PROVE  n.a.slices = a.slices
<1> DEFINE Keeps(b) == DOMAIN b = {"slices", "ba2bsc", "rd", "wr", "ntt"} /\ b.slices = a.slices
<1>1. ASSUME NEW b, NEW v, NEW w, Keeps(b)
      PROVE  Keeps([b EXCEPT !.rd = v, !.wr = w]) /\ Keeps([b EXCEPT !.rd = v])
             /\ Keeps([b EXCEPT !.wr = v]) /\ Keeps([b EXCEPT !.rd = v, !.ntt = w])
  BY <1>1
<1>2. ASSUME NEW b, Keeps(b) PROVE Keeps(StoreRdRequest(b)) /\ Keeps(StoreWrRequest(b))
  <2>1. \/ StoreRdRequest(b) = b
        \/ \E v : StoreRdRequest(b) = [b EXCEPT !.rd = v]
        \/ \E v, w : StoreRdRequest(b) = [b EXCEPT !.rd = v, !.ntt = w]
    BY Zenon DEF StoreRdRequest
  <2>2. StoreWrRequest(b) = b \/ \E v : StoreWrRequest(b) = [b EXCEPT !.wr = v]
    BY Zenon DEF StoreWrRequest
  <2> HIDE DEF Keeps
  <2>3. Keeps(StoreRdRequest(b))
    <3>1. CASE StoreRdRequest(b) = b
      BY <1>2, <3>1, Zenon
    <3>2. CASE \E v : StoreRdRequest(b) = [b EXCEPT !.rd = v]
      <4>1. PICK v : StoreRdRequest(b) = [b EXCEPT !.rd = v]
        BY <3>2
      <4>2. Keeps([b EXCEPT !.rd = v])
        BY <1>1, <1>2, Zenon
      <4>3. QED
        BY <4>1, <4>2
    <3>3. CASE \E v, w : StoreRdRequest(b) = [b EXCEPT !.rd = v, !.ntt = w]
      <4>1. PICK v, w : StoreRdRequest(b) = [b EXCEPT !.rd = v, !.ntt = w]
        BY <3>3
      <4>2. Keeps([b EXCEPT !.rd = v, !.ntt = w])
        BY <1>1, <1>2, Zenon
      <4>3. QED
        BY <4>1, <4>2
    <3>4. QED
      BY <2>1, <3>1, <3>2, <3>3
  <2>4. Keeps(StoreWrRequest(b))
    <3>1. CASE StoreWrRequest(b) = b
      BY <1>2, <3>1, Zenon
    <3>2. CASE \E v : StoreWrRequest(b) = [b EXCEPT !.wr = v]
      <4>1. PICK v : StoreWrRequest(b) = [b EXCEPT !.wr = v]
        BY <3>2
      <4>2. Keeps([b EXCEPT !.wr = v])
        BY <1>1, <1>2, Zenon
      <4>3. QED
        BY <4>1, <4>2
    <3>3. QED
      BY <2>2, <3>1, <3>2
  <2>5. QED
    BY <2>3, <2>4
<1>3. Keeps(a)
  OBVIOUS
<1>4. PICK b : Keeps(b) /\ n.a \in {b, StoreWrRequest(StoreRdRequest(b))}
  <2>1. CASE pip = NoPip
    <3>1. n = [a |-> a, pip |-> pip]
      BY <2>1 DEF CqStore
    <3>2. QED
      BY <1>3, <3>1
  <2>2. CASE pip # NoPip /\ a.rd.order = <<>> /\ a.wr.order = <<>>
    <3>1. n = [a |-> StoreWrRequest(StoreRdRequest(a)), pip |-> NoPip]
      BY <2>2 DEF CqStore
    <3>2. QED
      BY <1>3, <3>1
  <2>3. CASE pip # NoPip /\ ~(a.rd.order = <<>> /\ a.wr.order = <<>>)
    <3> DEFINE seen(d) == [a EXCEPT !.rd = DetectAddrCollision(@, d), !.wr = DetectAddrCollision(@, d)]
    <3>1. PICK d \in Detected :
            n \in {[a |-> StoreWrRequest(StoreRdRequest(seen(d))), pip |-> NoPip],
                   [a |-> seen(d), pip |-> pip]}
      BY <2>3, Zenon DEF CqStore
    <3>2. Keeps(seen(d))
      BY <1>1, <1>3, Zenon
    <3> HIDE DEF seen
    <3>3. n.a \in {seen(d), StoreWrRequest(StoreRdRequest(seen(d)))}
      BY <3>1
    <3>4. QED
      BY <3>2, <3>3
  <2>4. QED
    BY <2>1, <2>2, <2>3
<1>5. Keeps(n.a)
  <2> HIDE DEF Keeps
  <2>1. QED
    BY <1>2, <1>4, Zenon
<1>6. QED
  BY <1>5

LEMMA ReqUpdateKeepsRaa ==
  ASSUME RaaInv, NEW now \in ReqUpdate
  PROVE  /\ DOMAIN now = {"slices", "ba2bsc", "rd", "wr", "ntt"}
         /\ DOMAIN now.slices = Bsc /\ \A y \in Bsc : RaaKept(now.slices[y])
<1>1. CASE now = Current
  BY <1>1, Zenon DEF Current, RaaInv
<1>2. ASSUME NEW x \in Bsc, NEW b, now = BankSliceAllocation(x, b)
      PROVE  /\ DOMAIN now = {"slices", "ba2bsc", "rd", "wr", "ntt"}
             /\ DOMAIN now.slices = Bsc /\ \A y \in Bsc : RaaKept(now.slices[y])
  <2>1. PICK v, w, r, t : now = [slices |-> [slices EXCEPT ![x] = Allocate(@, b)],
                                 ba2bsc |-> v, rd |-> w, wr |-> r, ntt |-> t]
    BY <1>2, Zenon DEF BankSliceAllocation
  <2>2. now.slices = [slices EXCEPT ![x] = Allocate(@, b)]
        /\ DOMAIN now = {"slices", "ba2bsc", "rd", "wr", "ntt"}
    BY <2>1
  <2>3. \A y \in Bsc : now.slices[y] \in {slices[y], Allocate(slices[y], b)}
    BY <2>2 DEF RaaInv
  <2>4. ASSUME NEW y \in Bsc PROVE RaaKept(now.slices[y])
    <3>1. RaaKept(slices[y])
      BY DEF RaaInv
    <3>2. RaaKept(Allocate(slices[y], b))
      BY <3>1, FieldsKeepRaa, Zenon
    <3>3. QED
      BY <2>3, <3>1, <3>2, Zenon
  <2>5. QED
    BY <2>2, <2>4 DEF RaaInv
<1>3. now = Current \/ \E x \in Bsc : now = BankSliceAllocation(x, AllocatedBank)
  BY Zenon DEF ReqUpdate
<1>4. QED
  BY <1>1, <1>2, <1>3, Zenon

LEMMA RaaInvInit == Init => RaaInv
<1>1. RaaKept(FreshSlice)
  BY RaaAssumption DEF RaaKept, FreshSlice
<1>2. QED
  BY <1>1 DEF Init, RaaInv

LEMMA RaaInvNext ==
  ASSUME RAAIMT <= RAA_THRESHOLD
  PROVE  ModeInv /\ RaaInv /\ [Next]_vars => RaaInv'
<1> SUFFICES ASSUME ModeInv, RaaInv, [Next]_vars PROVE RaaInv'
  OBVIOUS
<1> USE DEF RaaInv
(* What CmdSend leaves is RaaKept when it was before the updates. *)
<1>1. ASSUME NEW c, NEW sl, NEW rd, NEW wr, NEW batch, Sent(c, sl, rd, wr, batch),
             DOMAIN sl = Bsc, \A x \in Bsc : RaaKept(sl[x])
      PROVE  RaaInv'
  <2>1. slices' = NttUpdate(sl, ntt, rd, wr)
    BY <1>1, Zenon DEF Sent
  <2>2. DOMAIN slices' = Bsc /\ \A x \in Bsc : RaaKept(slices'[x])
    BY <1>1, <2>1, UpdatesKeepRaa, Zenon
  <2>3. QED
    BY <2>2 DEF RaaKept
<1>2. CASE UNCHANGED slices
  BY <1>2 DEF RaaKept
<1>3. ASSUME NEW x \in Bsc, Activated(x) \/ Overdue(x) PROVE RaaInv'
  <2>1. PICK v : slices' = [slices EXCEPT ![x].age = v]
    BY <1>3, Zenon DEF Activated, Overdue
  <2>2. DOMAIN slices' = Bsc
        /\ \A y \in Bsc : slices'[y] = IF y = x THEN [slices[x] EXCEPT !.age = v] ELSE slices[y]
    BY <2>1
  <2>3. RaaKept([slices[x] EXCEPT !.age = v])
    BY FieldsKeepRaa, Zenon
  <2>4. DOMAIN slices' = Bsc /\ \A y \in Bsc : RaaKept(slices'[y])
    BY <2>2, <2>3, Zenon
  <2>5. QED
    BY <2>4 DEF RaaKept
<1>4. ASSUME NEW due \in BOOLEAN, Evaluate(due) PROVE RaaInv'
  <2>1. PICK x, late, idle :
          EvaluateRefresh([y \in Bsc |-> IF y = x THEN Release(slices[y]) ELSE slices[y]],
                          due, late, idle)
    BY <1>4, Zenon DEF Evaluate
  <2> DEFINE released == [y \in Bsc |-> IF y = x THEN Release(slices[y]) ELSE slices[y]]
  <2>2. DOMAIN released = Bsc /\ \A y \in Bsc : RaaKept(released[y])
    <3>1. \A y \in Bsc : released[y] \in {slices[y], Release(slices[y])}
      BY Zenon
    <3>2. QED
      BY <3>1, FieldsKeepRaa, Zenon
  <2> HIDE DEF released
  <2>3. slices' \in {released, SetWaiting(released, refresh.refsb_ba, TRUE)}
    BY <2>1, Zenon DEF EvaluateRefresh, released
  <2>4. DOMAIN slices' = Bsc /\ \A y \in Bsc : RaaKept(slices'[y])
    BY <2>2, <2>3, UpdatesKeepRaa, Zenon
  <2>5. QED
    BY <2>4 DEF RaaKept
<1>5. CASE SendRfm
  <2>1. PICK c, k :
          Sent(c, [x \in Bsc |-> IF x \in Allocated THEN Managed(slices[x], k) ELSE slices[x]],
               rd_cam, wr_cam, {})
    BY <1>5, Zenon DEF SendRfm
  <2> DEFINE sl == [x \in Bsc |-> IF x \in Allocated THEN Managed(slices[x], k) ELSE slices[x]]
  <2>2. \A x \in Bsc : sl[x] \in {slices[x], Managed(slices[x], k)}
    BY Zenon
  <2>3. DOMAIN sl = Bsc /\ \A x \in Bsc : RaaKept(sl[x])
    BY <2>2, RefreshKeepsRaa, Zenon
  <2>4. Sent(c, sl, rd_cam, wr_cam, {})
    BY <2>1, Zenon
  <2> HIDE DEF sl
  <2>5. QED
    BY <2>3, <2>4, <1>1, Zenon
<1>6. CASE SendRefresh
  <2> DEFINE decreased == [x \in Bsc |-> IF x \in Allocated THEN DecreaseRaa(slices[x]) ELSE slices[x]]
  <2>1. PICK c, next_ba, is_critical :
          Sent(c, [x \in Bsc |-> IF InRefresh(slices[x], refresh.refsb_ba)
                                   THEN Refreshed(SetWaiting(decreased, next_ba, is_critical)[x])
                                   ELSE SetWaiting(decreased, next_ba, is_critical)[x]],
               rd_cam, wr_cam, {})
    BY <1>6, Zenon DEF SendRefresh
  <2> DEFINE waiting == SetWaiting(decreased, next_ba, is_critical)
             sl == [x \in Bsc |-> IF InRefresh(slices[x], refresh.refsb_ba)
                                     THEN Refreshed(waiting[x]) ELSE waiting[x]]
  <2>2. \A x \in Bsc : decreased[x] \in {slices[x], DecreaseRaa(slices[x])}
    BY Zenon
  <2>3. DOMAIN decreased = Bsc /\ \A x \in Bsc : RaaKept(decreased[x])
    BY <2>2, RefreshKeepsRaa, Zenon
  <2>4. \A x \in Bsc : RaaKept(waiting[x])
    <3> HIDE DEF decreased
    <3>1. QED
      BY <2>3, UpdatesKeepRaa, Zenon
  <2>5. \A x \in Bsc : sl[x] \in {waiting[x], Refreshed(waiting[x])}
    <3> HIDE DEF waiting
    <3>1. QED
      BY Zenon
  <2>6. DOMAIN sl = Bsc /\ \A x \in Bsc : RaaKept(sl[x])
    <3> HIDE DEF waiting
    <3>1. QED
      BY <2>4, <2>5, RefreshKeepsRaa, Zenon
  <2>7. Sent(c, sl, rd_cam, wr_cam, {})
    BY <2>1, Zenon
  <2> HIDE DEF sl
  <2>8. QED
    BY <2>6, <2>7, <1>1, Zenon
<1>7. CASE SendNothing
  <2>1. Sent(Nop, slices, rd_cam, wr_cam, {})
    BY <1>7, Zenon DEF SendNothing
  <2>2. QED
    BY <2>1, <1>1, Zenon
<1>8. ASSUME NEW x \in Bsc, SendBankCommand(x) PROVE RaaInv'
  <2>1. ~slices[x].rfm
    BY <1>8, Zenon DEF SendBankCommand, RfmDue
  <2>2. PICK c \in ReadyCommands(x) : \E e, rd, wr, batch :
          Sent([type |-> c.type, ba |-> e.ba, row |-> e.row],
               [slices EXCEPT ![x] = Update(@, c.type, e.row)], rd, wr, batch)
    BY <1>8, ZenonT(90) DEF SendBankCommand
  <2>3. PICK command, row, rd, wr, batch :
          Sent(command, [slices EXCEPT ![x] = Update(@, c.type, row)], rd, wr, batch)
    BY <2>2
  <2>4. RaaKept(Update(slices[x], c.type, row))
    BY <2>1, ReadyType, CommandKeepsRaa, Zenon
  <2> DEFINE sl == [slices EXCEPT ![x] = Update(@, c.type, row)]
  <2>5. DOMAIN sl = Bsc
        /\ \A y \in Bsc : sl[y] = IF y = x THEN Update(slices[x], c.type, row) ELSE slices[y]
    OBVIOUS
  <2>6. \A y \in Bsc : RaaKept(sl[y])
    <3> HIDE DEF sl
    <3>1. QED
      BY <2>4, <2>5, Zenon
  <2>7. Sent(command, sl, rd, wr, batch)
    BY <2>3, Zenon
  <2> HIDE DEF sl
  <2>8. QED
    BY <2>5, <2>6, <2>7, <1>1, Zenon
<1>9. CASE Store
  <2>1. PICK now \in ReqUpdate :
          \E next \in CqStore([now EXCEPT !.wr = Closer(@)]) : slices' = next.a.slices
    BY <1>9, Zenon DEF Store
  <2>2. PICK next \in CqStore([now EXCEPT !.wr = Closer(@)]) : slices' = next.a.slices
    BY <2>1
  <2>3. DOMAIN now = {"slices", "ba2bsc", "rd", "wr", "ntt"}
        /\ DOMAIN now.slices = Bsc /\ \A y \in Bsc : RaaKept(now.slices[y])
    BY ReqUpdateKeepsRaa
  <2>4. next.a.slices = now.slices
    <3> DEFINE a == [now EXCEPT !.wr = Closer(@)]
    <3>1. DOMAIN a = {"slices", "ba2bsc", "rd", "wr", "ntt"} /\ a.slices = now.slices
      BY <2>3
    <3> HIDE DEF a
    <3>2. \A n \in CqStore(a) : n.a.slices = a.slices
      BY <3>1, CqStoreKeepsSlices, Zenon
    <3>3. next \in CqStore(a)
      BY <2>2, Zenon DEF a
    <3>4. QED
      BY <3>1, <3>2, <3>3, Zenon
  <2>5. DOMAIN slices' = Bsc /\ \A y \in Bsc : RaaKept(slices'[y])
    BY <2>2, <2>3, <2>4, Zenon
  <2>6. QED
    BY <2>5 DEF RaaKept
<1>10. QED
  BY <1>2, <1>3, <1>4, <1>5, <1>6, <1>7, <1>8, <1>9, Zenon
     DEF Next, CmdSend, Arrive, WriteData, vars

(* No slice counts more activations than the threshold allows, for every threshold
   that the early warning does not exceed (a larger one lets a refresh take the
   request back too soon): counters and requests survive the release of a slice
   and its use for another bank, so the last bank's count is kept, never lost. *)
THEOREM RaaNeverExceeded ==
  ASSUME RAAIMT <= RAA_THRESHOLD
  PROVE  Safety => []RaaBounded
<1>1. RaaInv => RaaBounded
  BY DEF RaaInv, RaaKept, RaaBounded
<1>2. ModeInv /\ RaaInv /\ [Next]_vars => RaaInv'
  BY RaaInvNext
<1>3. QED
  BY ModeInvInit, ModeInvNext, RaaInvInit, <1>1, <1>2, PTL DEF Safety
=============================================================================
