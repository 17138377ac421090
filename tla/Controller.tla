----------------------------- MODULE Controller -----------------------------
(***************************************************************************)
(* MemoryController behind the pipe buffer, for one logical rank: the CAMs, *)
(* the bank slices, the next-to-transfer updates (Ntt), the mode switch,    *)
(* the refresh machine and the command that goes to the memory.             *)
(*                                                                          *)
(* A run of ControllerMethod is three steps, Evaluate, CmdSend and Store;   *)
(* stage names the one to come.  Requests, write data and the passing of    *)
(* time come between runs, as the methods of the simulation kernel do.      *)
(***************************************************************************)
EXTENDS BankSlice, ModeSwitch, FiniteSets

CONSTANTS
  Bank,              \* banks of the rank, [bg, bank]
  Row, Column,
  Bsc, NoBsc,        \* bank slices
  Commands, Classes, \* requests that may come
  NumOfBanksPerBg,
  POST_PONE_THRESHOLD, POSTPONE_LOW_THRESHOLD,
  REFAB_ENABLE,
  FGR,               \* the refresh mode of the memory is the fine granularity one
  CriticalClasses,   \* classes that may be found starving
  CamExpired,        \* what WrCam::is_cam_expired may hold, which is never initialised
  MaxRequests, MaxOverdue, MaxPending, MaxRefresh   \* bounds of the checked instance

ASSUME ControllerAssumption ==
  /\ Bank \subseteq [bg : Nat, bank : 0 .. NumOfBanksPerBg - 1]
  /\ NumOfBanksPerBg \in Nat \ {0}
  /\ Commands \subseteq {"RD", "WR", "RMW"} /\ Classes \subseteq {"HPR", "LPR"}
  /\ \A k \in 0 .. NumOfBanksPerBg - 1 : \E b \in Bank : b.bank = k
  /\ NoBank \notin Bank /\ Closed \notin Row /\ NoBsc \notin Bsc
  /\ POST_PONE_THRESHOLD \in Nat \ {0} /\ POSTPONE_LOW_THRESHOLD \in Nat
  /\ {REFAB_ENABLE, FGR} \subseteq BOOLEAN
  /\ CriticalClasses \subseteq {"HPR", "LPR"} /\ CamExpired \subseteq BOOLEAN
  /\ {MaxRequests, MaxOverdue, MaxPending, MaxRefresh} \subseteq Nat

VARIABLES
  rd_cam, wr_cam,
  slices,            \* [Bsc -> slice]; slices[x].ba is bsc_table
  ba2bsc,            \* ba2bsc_table
  ntt,               \* the updates that the next run applies
  mode,              \* ModeSwitch
  wr_cam_expired,    \* WrCam::is_cam_expired, which nothing assigns
  critical,          \* classes found starving in this run
  refresh,           \* RefreshMachine
  pip,               \* the request in the pipe buffers, with its CAM indices
  stage,
  dfi,               \* the command sent in this run
  left               \* what is left of the bounds

vars == << rd_cam, wr_cam, slices, ba2bsc, ntt, mode, wr_cam_expired, critical,
           refresh, pip, stage, dfi, left >>

cams == << rd_cam, wr_cam >>

(* What a CAM may hold at an index. *)
Entry(cmds, prios) ==
  [cmd : cmds, ba : Bank, row : Row, col : Column, prio : prios,
   hit : BOOLEAN, alloc : BOOLEAN, coll : BOOLEAN, wait : Nat]
RdEntry == Entry({"RD", "RMW"}, {"HPR", "LPR"})
WrEntry == Entry({"WR", "RMW"}, {"HPR", "LPR", "TPW"})

ASSUME NoEntryAssumption == NoEntry \notin RdEntry \union WrEntry

Requests ==
  {r \in [cmd : Commands, ba : Bank, row : Row, col : Column, prio : Classes \union {"TPW"}] :
     r.cmd = "WR" <=> r.prio = "TPW"}
NoPip == [req |-> NoEntry]
Nop == [type |-> "NOP"]

AllocatedIn(sl) == {x \in Bsc : sl[x].ba # NoBank}
Allocated == AllocatedIn(slices)
SliceOf(b) == slices[ba2bsc[b]]
IsBscMatch(b) == ba2bsc[b] # NoBsc

Init ==
  /\ rd_cam = EmptyCam /\ wr_cam = EmptyCam
  /\ slices = [x \in Bsc |-> FreshSlice]
  /\ ba2bsc = [b \in Bank |-> NoBsc]
  /\ ntt = {}
  /\ mode = ModeInit
  /\ wr_cam_expired \in CamExpired
  /\ critical = {}
  /\ refresh = [pending |-> 0, is_critical |-> FALSE, refsb_ba |-> 0, next |-> "NOP",
                sent |-> FALSE]
  /\ pip = NoPip
  /\ stage = "idle"
  /\ dfi = Nop
  /\ left = [requests |-> MaxRequests, overdue |-> MaxOverdue, refreshes |-> MaxRefresh]

-----------------------------------------------------------------------------
(* Scheduler: the Ntt updates.  An update is recorded in one run and applied in
   the next; of several for one slice and direction the kind decides, then the
   first. *)

NttKinds == << "CmdExe", "Pre_Act", "NewCmdStore", "BscAllocate" >>
NttRank(kind) == CHOOSE n \in 1 .. 4 : NttKinds[n] = kind

Recorded(batch, is_rd, x, kind, i) ==
  LET same == {u \in batch : u.is_rd = is_rd /\ u.bsc = x}
  IN  IF \E u \in same : NttRank(u.kind) <= NttRank(kind) THEN batch
      ELSE (batch \ same) \union {[is_rd |-> is_rd, bsc |-> x, kind |-> kind, index |-> i]}

(* The write list is looked at for a command with data, and the choice is made
   among all of its commands. *)
UpdateRdNttPip(batch, cam, x, b, kind) ==
  IF IsBaListAvail(cam, b)
    THEN Recorded(batch, TRUE, x, kind,
                  GetSelectedRdCamIndex(cam, BaOrderList(cam, b), "LPR" \in critical))
    ELSE batch

UpdateWrNttPip(batch, cam, x, b, kind) ==
  IF IsBaListAvail(cam, b)
    THEN Recorded(batch, FALSE, x, kind, GetSelectedWrCamIndex(cam, BaOrderList(cam, b)))
    ELSE batch

(* Mutant: does not look whether the command is still there. *)
NttUpdate_unchecked(s, batch, rd, wr) ==
  LET Candidate(x, is_rd, old) ==
        LET index == {u.index : u \in {u \in batch : u.bsc = x /\ u.is_rd = is_rd}}
        IN  IF index = {} THEN old ELSE CHOOSE i \in index : TRUE
  IN  [x \in Bsc |-> [s[x] EXCEPT !.rd = Candidate(x, TRUE, @), !.wr = Candidate(x, FALSE, @)]]

(* BankSliceManager::NttUpdate: an index that was used up meanwhile is ignored. *)
NttUpdate(s, batch, rd, wr) ==
  LET Candidate(x, is_rd, cam, old) ==
        LET index == {u.index : u \in {u \in batch : u.bsc = x /\ u.is_rd = is_rd}}
            stored == {i \in index : IsCamExist(cam, i)}
        IN  IF stored = {} THEN old ELSE CHOOSE i \in stored : TRUE
  IN  [x \in Bsc |-> [s[x] EXCEPT !.rd = Candidate(x, TRUE, rd, @),
                                   !.wr = Candidate(x, FALSE, wr, @)]]

-----------------------------------------------------------------------------
(* What comes between two runs. *)

Free(cam) == CamIndex \ Used(cam)

(* A request of InputProcess enters the pipe buffers, which hold one request. *)
Arrive(r) ==
  /\ stage = "idle" /\ pip = NoPip /\ left.requests > 0
  /\ \E i \in IF r.cmd = "WR" THEN {NoEntry} ELSE Free(rd_cam),
        j \in IF r.cmd = "RD" THEN {NoEntry} ELSE Free(wr_cam) :
       pip' = [req |-> r, rd |-> i, wr |-> j]
  /\ left' = [left EXCEPT !.requests = @ - 1]
  /\ UNCHANGED << cams, slices, ba2bsc, ntt, mode, wr_cam_expired, critical, refresh, stage, dfi >>

(* pipline_method, UIF_WDAT_END: the data of a stored write is there. *)
WriteData(i) ==
  /\ stage = "idle" /\ IsCamExist(wr_cam, i) /\ wr_cam.store[i].wait = 1
  /\ LET b == wr_cam.store[i].ba
         ready == [wr_cam EXCEPT !.store[i].wait = 0]
         matched == SetBaMatch(ready, i, SliceOf(b).page)
     IN  IF ~IsBscMatch(b)
           THEN wr_cam' = ready /\ ntt' = ntt
           ELSE /\ wr_cam' = matched
                /\ ntt' = IF \/ matched.store[i].hit \/ ~IsActiving(SliceOf(b))
                             \/ SliceOf(b).wr # NoEntry
                            THEN UpdateWrNttPip(ntt, matched, ba2bsc[b], b, "NewCmdStore")
                            ELSE ntt
  /\ UNCHANGED << rd_cam, slices, ba2bsc, mode, wr_cam_expired, critical, refresh, pip, stage,
                  dfi, left >>

(* tRCD after an ACT has passed. *)
Activated(x) ==
  /\ stage = "idle" /\ IsActiving(slices[x])
  /\ slices' = [slices EXCEPT ![x].age = "open"]
  /\ UNCHANGED << cams, ba2bsc, ntt, mode, wr_cam_expired, critical, refresh, pip, stage, dfi, left >>

(* A page has been open for tRAS_max. *)
Overdue(x) ==
  /\ stage = "idle" /\ IsPageOpen(slices[x]) /\ slices[x].age = "open" /\ left.overdue > 0
  /\ slices' = [slices EXCEPT ![x].age = "overdue"]
  /\ left' = [left EXCEPT !.overdue = @ - 1]
  /\ UNCHANGED << cams, ba2bsc, ntt, mode, wr_cam_expired, critical, refresh, pip, stage, dfi >>

-----------------------------------------------------------------------------
(* ControllerMethod: the release of a slice, then AcTimingUpdate and the mode. *)

EmptyBsc ==
  {x \in Allocated : /\ BaOrderList(rd_cam, slices[x].ba) = {}
                     /\ BaOrderList(wr_cam, slices[x].ba) = {}
                     /\ ~IsPageOpen(slices[x])}

(* The banks a refresh is for: all, or those of one number. *)
InRefresh(s, k) == s.ba # NoBank /\ (REFAB_ENABLE \/ s.ba.bank = k)
SetWaiting(sl, k, waiting) ==
  [x \in Bsc |-> IF InRefresh(sl[x], k) THEN [sl[x] EXCEPT !.waiting = waiting] ELSE sl[x]]

(* Mutant: looks only at the banks that were told to wait. *)
IsAllBanksClosed_waiting(sl, k) ==
  \A x \in Bsc : InRefresh(sl[x], k) /\ sl[x].waiting => ~IsPageOpen(sl[x])

IsAllBanksClosed(sl, k) == \A x \in Bsc : InRefresh(sl[x], k) => ~IsPageOpen(sl[x])

(* RefreshMachine::Evaluate.  `due': the refresh timer has fired; `late': the last
   refresh was sent more than five intervals ago; `idle': IsSystemIdle. *)
EvaluateRefresh(sl, due, late, idle) ==
  LET pending == IF due THEN refresh.pending + 1 ELSE refresh.pending
      is_critical == refresh.is_critical \/ (pending > 0 /\ (late \/ pending >= POST_PONE_THRESHOLD))
      closed == IsAllBanksClosed(sl, refresh.refsb_ba)
  IN  /\ refresh' = [refresh EXCEPT
           !.pending = pending, !.is_critical = is_critical,
           !.next = IF pending > 0 /\ closed
                      THEN IF REFAB_ENABLE THEN "REFab" ELSE "REFsb"
                      ELSE "NOP"]
      /\ slices' = IF pending > 0 /\ ~closed /\ (is_critical \/ idle)
                     THEN SetWaiting(sl, refresh.refsb_ba, TRUE)
                     ELSE sl

SideOf(cam, candidates, expired, flush, starving) ==
  LET has == IsAvailable(cam)
      hits == {x \in DOMAIN candidates : candidates[x] # NoEntry /\ cam.store[candidates[x]].hit}
  IN  [has |-> has, cam_expired |-> expired, flush |-> has /\ flush,
       critical |-> has /\ starving, hits |-> Cardinality(hits),
       all_hit |-> \A x \in DOMAIN candidates : candidates[x] # NoEntry => x \in hits]

RdSide(sl, starving) ==
  SideOf(rd_cam, [x \in AllocatedIn(sl) |-> sl[x].rd], FALSE, rd_cam.collision # {}, starving)
WrSide(sl) ==
  SideOf(wr_cam, [x \in AllocatedIn(sl) |-> sl[x].wr], wr_cam_expired,
         wr_cam.collision # {} /\ rd_cam.collision = {}, FALSE)

(* The refresh interval is long: a candidate that no refresh holds back is as a
   rule served before the timer fires.  It fires earlier MaxRefresh times. *)
Quiet == \A x \in Allocated : slices[x].waiting \/ {slices[x].rd, slices[x].wr} = {NoEntry}

(* A run of the controller waits until the write data of its cycle is there. *)
Evaluate(due) ==
  /\ stage = "idle" /\ \A i \in Used(wr_cam) : wr_cam.store[i].wait # 1
  /\ due => refresh.pending < MaxPending /\ (Quiet \/ left.refreshes > 0)
  /\ left' = IF due /\ ~Quiet THEN [left EXCEPT !.refreshes = @ - 1] ELSE left
  /\ critical' \in SUBSET CriticalClasses
  /\ \E x \in IF EmptyBsc = {} THEN {NoBsc} ELSE EmptyBsc, late, idle \in BOOLEAN :
       /\ late => refresh.sent
       /\ LET released == [y \in Bsc |-> IF y = x THEN Release(slices[y]) ELSE slices[y]]
          IN  /\ ba2bsc' = [b \in Bank |-> IF ba2bsc[b] = x THEN NoBsc ELSE ba2bsc[b]]
              /\ EvaluateRefresh(released, due, late, idle)
              /\ mode' = UpdateGlobalState(mode, RdSide(released, critical' # {}), WrSide(released))
  /\ dfi' = Nop
  /\ stage' = "send"
  /\ UNCHANGED << cams, ntt, wr_cam_expired, pip >>

-----------------------------------------------------------------------------
(* CmdSend: at most one command a run, then the Ntt updates of the run before. *)

RfmDue == \E x \in Allocated : slices[x].rfm

(* What CmdSend leaves: the slices before the updates, the CAMs and the updates
   for the next run. *)
Sent(command, sl, rd, wr, batch) ==
  /\ stage = "send" /\ stage' = "store"
  /\ dfi' = command
  /\ rd_cam' = rd /\ wr_cam' = wr
  /\ slices' = NttUpdate(sl, ntt, rd, wr)
  /\ ntt' = batch
  /\ UNCHANGED << ba2bsc, wr_cam_expired, critical, pip, left >>

ReadyCommands(x) == GetAvailCommand(slices[x], rd_cam, wr_cam, mode.current_state)

(* The entry a command is sent for is looked up by its index in the CAM that the
   command is tagged with. *)
CamOf(c) == IF c.is_rd THEN rd_cam ELSE wr_cam

(* Of the commands in time any may be the one selected (CmdSelect). *)
SendBankCommand(x) ==
  /\ stage = "send" /\ ~RfmDue /\ x \in Allocated
  /\ \E c \in ReadyCommands(x) :
       /\ IsCamExist(CamOf(c), c.index)
       /\ LET e == CamOf(c).store[c.index]
              column == c.type \in ColCommands
              Hits(cam) == CASE c.type = "ACT" -> SetBaPageHit(cam, c.ba, e.row)
                             [] c.type = "PRE" -> SetBaPageClose(cam, c.ba)
                             [] column -> cam
              rd == IF column /\ c.is_rd THEN DeleteCamEntry(rd_cam, c.index) ELSE Hits(rd_cam)
              wr == IF column /\ ~c.is_rd THEN DeleteCamEntry(wr_cam, c.index) ELSE Hits(wr_cam)
              updates_rd == c.type = "PRE" \/ (c.type = "ACT" /\ ~c.is_rd) \/ (column /\ c.is_rd)
              updates_wr == c.type = "PRE" \/ (c.type = "ACT" /\ c.is_rd) \/ (column /\ ~c.is_rd)
              kind == IF column THEN "CmdExe" ELSE "Pre_Act"
              batch == IF updates_wr THEN UpdateWrNttPip({}, wr, x, c.ba, kind) ELSE {}
          IN  /\ Sent([type |-> c.type, ba |-> e.ba, row |-> e.row],
                      [slices EXCEPT ![x] = Update(@, c.type, e.row)], rd, wr,
                      IF updates_rd THEN UpdateRdNttPip(batch, rd, x, c.ba, kind) ELSE batch)
              /\ mode' = IF ~column THEN mode
                         ELSE IF c.is_rd THEN RdCmdSend(mode) ELSE WrCmdSend(mode)
  /\ UNCHANGED refresh

(* A refresh goes when its own timing allows; RefreshMachine::Update. *)
SendRefresh ==
  /\ ~RfmDue /\ refresh.next # "NOP"
  /\ LET sb == refresh.next = "REFsb"
         sent == refresh.refsb_ba
         next_ba == IF sb THEN (sent + 1) % NumOfBanksPerBg ELSE sent
         pending == refresh.pending - 1
         is_critical == refresh.is_critical /\ pending > POSTPONE_LOW_THRESHOLD
         decreased == [x \in Bsc |-> IF x \in Allocated THEN DecreaseRaa(slices[x]) ELSE slices[x]]
         waiting == SetWaiting(decreased, next_ba, is_critical)
     IN  /\ refresh' = [refresh EXCEPT !.pending = pending, !.is_critical = is_critical,
                                       !.refsb_ba = next_ba, !.sent = TRUE]
         /\ Sent(IF sb THEN [type |-> "REFsb", bank |-> sent] ELSE [type |-> "REFab"],
                 [x \in Bsc |-> IF InRefresh(slices[x], sent) THEN Refreshed(waiting[x])
                                                              ELSE waiting[x]],
                 rd_cam, wr_cam, {})
  /\ UNCHANGED mode

RfmSb == ~REFAB_ENABLE /\ FGR

(* What refresh management for the banks of number k does to an allocated slice: it
   answers the requests of all, and ends the wait of those it is for. *)
Managed(s, k) == IF RfmSb /\ s.ba.bank # k THEN ClearRfmReq(s) ELSE Refreshed(s)

(* A slice asks for refresh management; it is always in time and goes first. *)
SendRfm ==
  /\ \E a \in Allocated :
       LET k == slices[a].ba.bank
       IN  /\ slices[a].rfm
           /\ Sent(IF RfmSb THEN [type |-> "RFMsb", bank |-> k] ELSE [type |-> "RFMab"],
                   [x \in Bsc |-> IF x \in Allocated THEN Managed(slices[x], k) ELSE slices[x]],
                   rd_cam, wr_cam, {})
  /\ UNCHANGED << mode, refresh >>

SendNothing ==
  /\ ~RfmDue
  /\ Sent(Nop, slices, rd_cam, wr_cam, {})
  /\ UNCHANGED << mode, refresh >>

-----------------------------------------------------------------------------
(* The allocation of a slice, then CqStore. *)

Current == [slices |-> slices, ba2bsc |-> ba2bsc, rd |-> rd_cam, wr |-> wr_cam, ntt |-> ntt]

(* The bank that gets a slice: that of the chosen read, unless only the chosen
   write is urgent. *)
AllocatedBank ==
  LET rds == UnallocatedBscCamIndex(rd_cam)
      wrs == UnallocatedBscCamIndex(wr_cam)
      rd == rd_cam.store[GetSelectedRdCamIndex(rd_cam, rds, "LPR" \in critical)]
      wr == wr_cam.store[GetSelectedWrCamIndex(wr_cam, wrs)]
  IN  IF rds # {} /\ (wrs = {} \/ rd.coll \/ ~wr.coll) THEN rd.ba ELSE wr.ba

BankSliceAllocation(x, b) ==
  LET rd == SetAllocateBsc(rd_cam, b)
      wr == SetAllocateBsc(wr_cam, b)
      batch == UpdateRdNttPip(ntt, rd, x, b, "BscAllocate")
  IN  [slices |-> [slices EXCEPT ![x] = Allocate(@, b)],
       ba2bsc |-> [ba2bsc EXCEPT ![b] = IF @ = NoBsc THEN x ELSE @],
       rd |-> rd, wr |-> wr,
       ntt |-> UpdateWrNttPip(batch, wr, x, b, "BscAllocate")]

ReqUpdate ==
  LET unallocated == UnallocatedBscCamIndex(rd_cam) \union UnallocatedBscCamIndex(wr_cam)
      free == Bsc \ Allocated
  IN  IF unallocated = {} \/ free = {} THEN {Current}
      ELSE {BankSliceAllocation(x, AllocatedBank) : x \in free}

(* The request DetectAddrCollision compares with: that of the read buffer, or for
   a plain write whatever request that buffer held before, valid or not. *)
Detected ==
  IF pip.req.cmd # "WR" THEN {pip.req}
  ELSE UNION { {r, [r EXCEPT !.cmd = "Invalid"]} : r \in {q \in Requests : q.cmd # "WR"} }
         \union {[pip.req EXCEPT !.cmd = "Invalid", !.row = NoEntry]}

(* A run later: the data of the writes that are stored comes closer. *)
Closer(cam) == Marked(cam, {i \in Used(cam) : cam.store[i].wait > 1}, LAMBDA e : [e EXCEPT !.wait = @ - 1])

(* Mutant: no update for a slice without a candidate. *)
StoreRdRequest_needs_candidate(a) ==
  LET b == pip.req.ba
      x == a.ba2bsc[b]
      stored == StoreRequest(a.rd, pip.rd, NewEntry(pip.req, 0))
      matched == SetBaMatch(stored, pip.rd, a.slices[x].page)
  IN  IF pip.rd = NoEntry THEN a
      ELSE IF x = NoBsc THEN [a EXCEPT !.rd = stored]
      ELSE [a EXCEPT
              !.rd = matched,
              !.ntt = IF matched.store[pip.rd].hit \/ a.slices[x].rd # NoEntry
                        THEN UpdateRdNttPip(@, matched, x, b, "NewCmdStore")
                        ELSE @]

StoreRdRequest(a) ==
  LET b == pip.req.ba
      x == a.ba2bsc[b]
      stored == StoreRequest(a.rd, pip.rd, NewEntry(pip.req, 0))
      matched == SetBaMatch(stored, pip.rd, a.slices[x].page)
  IN  IF pip.rd = NoEntry THEN a
      ELSE IF x = NoBsc THEN [a EXCEPT !.rd = stored]
      ELSE [a EXCEPT
              !.rd = matched,
              !.ntt = IF \/ matched.store[pip.rd].hit \/ ~IsActiving(a.slices[x])
                         \/ a.slices[x].rd # NoEntry
                        THEN UpdateRdNttPip(@, matched, x, b, "NewCmdStore")
                        ELSE @]

(* The write gets its Ntt update when its data comes (WriteData). *)
StoreWrRequest(a) ==
  LET x == a.ba2bsc[pip.req.ba]
      stored == StoreRequest(a.wr, pip.wr, NewEntry(pip.req, WriteDelay))
  IN  IF pip.wr = NoEntry THEN a
      ELSE [a EXCEPT !.wr = IF x = NoBsc THEN stored
                                         ELSE SetBaMatch(stored, pip.wr, a.slices[x].page)]

(* CqStore: a command that is found in the way (busy) keeps the request out. *)
CqStore(a) ==
  IF pip = NoPip THEN {[a |-> a, pip |-> pip]}
  ELSE IF a.rd.order = <<>> /\ a.wr.order = <<>>
    THEN {[a |-> StoreWrRequest(StoreRdRequest(a)), pip |-> NoPip]}
  ELSE {LET seen == [a EXCEPT !.rd = DetectAddrCollision(@, d), !.wr = DetectAddrCollision(@, d)]
        IN  IF seen.rd.collision = {} /\ seen.wr.collision = {}
              THEN [a |-> StoreWrRequest(StoreRdRequest(seen)), pip |-> NoPip]
              ELSE [a |-> seen, pip |-> pip]
        : d \in Detected}

Store ==
  /\ stage = "store" /\ stage' = "idle"
  /\ \E now \in ReqUpdate : \E next \in CqStore([now EXCEPT !.wr = Closer(@)]) :
       /\ slices' = next.a.slices /\ ba2bsc' = next.a.ba2bsc
       /\ rd_cam' = next.a.rd /\ wr_cam' = next.a.wr /\ ntt' = next.a.ntt
       /\ pip' = next.pip
  /\ UNCHANGED << mode, wr_cam_expired, critical, refresh, dfi, left >>

CmdSend == SendRfm \/ SendRefresh \/ SendNothing \/ \E x \in Bsc : SendBankCommand(x)

Next ==
  \/ \E r \in Requests : Arrive(r)
  \/ \E i \in CamIndex : WriteData(i)
  \/ \E x \in Bsc : Activated(x) \/ Overdue(x)
  \/ \E due \in BOOLEAN : Evaluate(due)
  \/ CmdSend
  \/ Store

Safety == Init /\ [][Next]_vars

(* The controller runs again and again (the refresh timer wakes it), the kernel
   delivers data and lets time pass, and the timing of a command or a refresh
   that stays wanted is met now and then. *)
Fairness ==
  /\ WF_vars(\E due \in BOOLEAN : Evaluate(due)) /\ WF_vars(CmdSend) /\ WF_vars(Store)
  /\ SF_vars(Evaluate(TRUE))
  /\ \A i \in CamIndex : WF_vars(WriteData(i))
  /\ \A x \in Bsc : SF_vars(Activated(x)) /\ SF_vars(SendBankCommand(x))
  /\ SF_vars(SendRefresh)

Spec == Safety /\ Fairness

-----------------------------------------------------------------------------
(* Properties. *)

Slice == [ba : Bank \union {NoBank}, page : Row \union {Closed},
          age : {"activing", "open", "overdue"}, waiting : BOOLEAN,
          rd : CamIndex \union {NoEntry}, wr : CamIndex \union {NoEntry},
          raa : Nat, rfm : BOOLEAN, blocked : BOOLEAN]

CamOK(cam, Entries) ==
  /\ DOMAIN cam = {"store", "order", "collision"}
  /\ cam.store \in [CamIndex -> Entries \union {NoEntry}]
  /\ cam.collision \subseteq Used(cam)
  /\ Len(cam.order) = Cardinality(Used(cam)) /\ ToSet(cam.order) = Used(cam)

(* The variables have their types, and the order list of a CAM holds every stored
   command once (RdCam and WrCam keep the list and the store apart). *)
TypeOK ==
  /\ CamOK(rd_cam, RdEntry) /\ CamOK(wr_cam, WrEntry)
  /\ slices \in [Bsc -> Slice] /\ ba2bsc \in [Bank -> Bsc \union {NoBsc}]
  /\ \A u \in ntt : u.bsc \in Bsc /\ u.index \in CamIndex
  /\ mode \in Mode /\ wr_cam_expired \in BOOLEAN /\ critical \subseteq CriticalClasses
  /\ refresh \in [pending : 0 .. MaxPending, is_critical : BOOLEAN, sent : BOOLEAN,
                  refsb_ba : 0 .. NumOfBanksPerBg - 1, next : {"NOP", "REFab", "REFsb"}]
  /\ stage \in {"idle", "send", "store"}

(* The two tables of BankSliceManager agree with each other and with the CAMs: a
   bank has at most one slice, and a command is marked allocated exactly while its
   bank has one.  The marks are set when a slice is allocated, when a command is
   stored and when its data comes; the release of a slice relies on both lists of
   the bank being empty. *)
SlicesConsistent ==
  /\ \A b \in Bank : IsBscMatch(b) => SliceOf(b).ba = b
  /\ \A x \in Allocated : ba2bsc[slices[x].ba] = x
  /\ \A cam \in {rd_cam, wr_cam} : \A i \in Used(cam) :
       cam.store[i].alloc <=> IsBscMatch(cam.store[i].ba)

(* A candidate of a slice is a stored command of the slice's bank, in every run of
   the controller, although the update that chose it was recorded a run earlier,
   the command may have gone meanwhile and its index may be used again. *)
CandidatesStored ==
  \A x \in Allocated :
    /\ slices[x].rd # NoEntry => slices[x].rd \in BaOrderList(rd_cam, slices[x].ba)
    /\ slices[x].wr # NoEntry => slices[x].wr \in BaOrderList(wr_cam, slices[x].ba)

(* A command about to be chosen is found in the CAM it is tagged with, as a command
   of the bank it is sent to (BankSlice::Update and CmdSend look it up there). *)
CommandsFound ==
  stage = "send" => \A x \in Allocated : \A c \in ReadyCommands(x) :
                      c.index \in BaOrderList(CamOf(c), c.ba)

(* While a page is open, the commands marked as page hits are those of its row, so
   the filters and the mode switch do not act on stale marks. *)
HitsOfOpenPage ==
  \A cam \in {rd_cam, wr_cam} : \A i \in Used(cam) :
    LET e == cam.store[i]
    IN  IsBscMatch(e.ba) /\ IsPageOpen(SliceOf(e.ba)) => (e.hit <=> e.row = SliceOf(e.ba).page)

(* The state of the mode switch is never the fatal one and its page selection is
   the one that the state stands for. *)
ModeOK == ModeConsistent(mode)

(* No slice counts more activations than the threshold, even when a refresh
   takes some off and the slice changes banks: at the threshold refresh management
   goes before everything else. *)
RaaBounded == \A x \in Bsc : slices[x].raa <= RAA_THRESHOLD + RAAMULT - 1

(* A stored command leaves its CAM only when an access of its kind to its bank and
   row is sent, and each such command takes one out. *)
ServedByItsCommand ==
  LET Gone(cam, later) == {i \in Used(cam) : cam.store[i] # NoEntry /\ later.store[i] = NoEntry}
      Served(cam, later, types) ==
        /\ \A i \in Gone(cam, later) :
             /\ dfi'.type \in types
             /\ dfi'.ba = cam.store[i].ba /\ dfi'.row = cam.store[i].row
        /\ dfi'.type \in types /\ dfi = Nop => Cardinality(Gone(cam, later)) = 1
  IN  Served(rd_cam, rd_cam', {"RD", "RDA"}) /\ Served(wr_cam, wr_cam', {"WR", "WRA"})
ServedOnce == [][ServedByItsCommand]_vars

(* The commands are ones a memory accepts: pages are opened in closed banks only,
   accesses go to the open page and refreshes to closed banks. *)
Dram == INSTANCE DramBanks WITH
          page <- [b \in Bank |-> IF IsBscMatch(b) THEN SliceOf(b).page ELSE Closed],
          command <- dfi
DramSpec == Dram!Spec

(* A refresh that has become critical is sent, however the traffic goes: the open
   banks it waits for are closed. *)
RefreshServed == refresh.is_critical ~> dfi.type \in {"REFab", "REFsb"}

(* Every stored read is sent to the memory (ControllerFinishCheck asserts that
   nothing is left in the CAMs). *)
ReadServed == \A i \in CamIndex : IsCamExist(rd_cam, i) ~> ~IsCamExist(rd_cam, i)

(* In Wr2Rd the row commands of writes are not allowed: a page opened then is that
   of a stored read. *)
RowsOfReads ==
  [][stage = "send" /\ mode.current_state = "Wr2Rd" /\ dfi'.type = "ACT" =>
       \E i \in Used(rd_cam) : rd_cam.store[i].ba = dfi'.ba /\ rd_cam.store[i].row = dfi'.row]_vars
=============================================================================
