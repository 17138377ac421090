---------------------------- MODULE InputProcess ----------------------------
(***************************************************************************)
(* The way of a request into the memory controller: nb_transport_fw takes   *)
(* it from the port (UIF_REQ), InputProcess gives it a CAM index and keeps  *)
(* it in a one-place pipe buffer, and CqStore moves it into the read or     *)
(* write command CAM once no stored command conflicts with its address.     *)
(*                                                                         *)
(* One controller cycle is a round of `stage': CmdSend and CqStore are the  *)
(* two parts of ControllerMethod that matter here (one SystemC process, run *)
(* by a timed event), the port sends on the posedge of the DFI clock (one   *)
(* delta later, since sc_clock is a signal), and CreditSend runs on the     *)
(* negedge.  Which stored command the scheduler sends is left open.         *)
(***************************************************************************)
EXTENDS Integers, Sequences, FiniteSets, FiniteSetsExt

CONSTANTS
  Addr,           \* DRAM addresses; "row" stands for row and column
  Requests,       \* what the port may send
  RdCamDepth, WrCamDepth,
  HprCredit, LprCredit, TpwCredit  \* HPR_CREDIT, LPR_CREDIT, TPW_CREDIT

(* GPR reads are handled as LPR ones.  prio is the class of the read; a write
   has none, and the read part of a read-modify-write has the class its QoS
   value would have as a read. *)
Request == [cmd : {"RD", "WR", "RMW"}, addr : Addr, prio : {"HPR", "LPR"}]

ASSUME InputAssumption ==
  /\ Addr \subseteq [bg : Nat, bank : Nat, row : Nat]
  /\ Requests \subseteq Request
  /\ RdCamDepth \in Nat \ {0} /\ WrCamDepth \in Nat \ {0}
  /\ HprCredit \in Nat /\ LprCredit \in Nat /\ TpwCredit \in Nat
  /\ HprCredit + LprCredit <= RdCamDepth /\ TpwCredit <= WrCamDepth

RdIndex == 0 .. RdCamDepth - 1
WrIndex == 0 .. WrCamDepth - 1
NoEntry == [cmd |-> "none"]

VARIABLES
  rd_pip_buffer, wr_pip_buffer,   \* Seq of [req, index]: what waits for its CAM
  temp_buffer,                    \* requests that met an occupied pipe buffer
  addr_collision_busy,            \* the pipe buffer is stalled
  unallocated_rd_cam_index_set, last_allocated_rd_cam_index,
  unallocated_wr_cam_index_set, second_unallocated_wr_cam_index_vec,
  rd_cam, wr_cam,                 \* [index -> Request, or NoEntry]
  cam_credit,                     \* [Pool -> Nat]: credits still to be returned
  uif_credit,                     \* [Pool -> Nat]: credits the port holds
  stage,
  fault                           \* "none", or the assertion or abort that was met

Pool == {"HPR", "LPR", "TPW"}
pipVars == <<rd_pip_buffer, wr_pip_buffer, temp_buffer>>
rdIndexVars == <<unallocated_rd_cam_index_set, last_allocated_rd_cam_index>>
wrIndexVars == <<unallocated_wr_cam_index_set, second_unallocated_wr_cam_index_vec>>
camVars == <<rd_cam, wr_cam>>
creditVars == <<cam_credit, uif_credit>>
vars == <<pipVars, addr_collision_busy, rdIndexVars, wrIndexVars, camVars, creditVars, stage, fault>>

(* last_allocated_rd_cam_index is not initialised: any unsigned number, of
   which all above the greatest index act alike. *)
Init ==
  /\ rd_pip_buffer = <<>> /\ wr_pip_buffer = <<>> /\ temp_buffer = <<>>
  /\ addr_collision_busy = FALSE
  /\ unallocated_rd_cam_index_set = RdIndex
  /\ last_allocated_rd_cam_index \in 0 .. RdCamDepth
  /\ unallocated_wr_cam_index_set = WrIndex
  /\ second_unallocated_wr_cam_index_vec = <<>>
  /\ rd_cam = [i \in RdIndex |-> NoEntry]
  /\ wr_cam = [i \in WrIndex |-> NoEntry]
  /\ cam_credit = [p \in Pool |-> CASE p = "HPR" -> HprCredit [] p = "LPR" -> LprCredit
                                    [] p = "TPW" -> TpwCredit]
  /\ uif_credit = [p \in Pool |-> 0]
  /\ stage = "send"
  /\ fault = "none"

Goto(s, t) == fault = "none" /\ stage = s /\ stage' = t

Used(cam) == {i \in DOMAIN cam : cam[i] # NoEntry}

-----------------------------------------------------------------------------
(* CmdSend, as far as it touches this part: a column command is sent for a
   stored request, which leaves its CAM; its index and its credit return. *)

(* Mutant: the index is returned and the entry stays. *)
RdCmdSend_keep_entry(i) ==
  /\ Goto("send", "store") /\ rd_cam[i] # NoEntry
  /\ unallocated_rd_cam_index_set' = unallocated_rd_cam_index_set \union {i}
  /\ cam_credit' = [cam_credit EXCEPT ![rd_cam[i].prio] = @ + 1]
  /\ UNCHANGED <<pipVars, addr_collision_busy, last_allocated_rd_cam_index, wrIndexVars, camVars,
                 uif_credit, fault>>

RdCmdSend(i) ==
  /\ Goto("send", "store")
  /\ rd_cam[i] # NoEntry
  /\ rd_cam' = [rd_cam EXCEPT ![i] = NoEntry]
  /\ cam_credit' = [cam_credit EXCEPT ![rd_cam[i].prio] = @ + 1]
  /\ unallocated_rd_cam_index_set' = unallocated_rd_cam_index_set \union {i}
  /\ UNCHANGED <<pipVars, addr_collision_busy, last_allocated_rd_cam_index, wrIndexVars, wr_cam,
                 uif_credit, fault>>

WrCmdSend(i) ==
  /\ Goto("send", "store")
  /\ wr_cam[i] # NoEntry
  /\ wr_cam' = [wr_cam EXCEPT ![i] = NoEntry]
  /\ cam_credit' = [cam_credit EXCEPT !["TPW"] = @ + 1]
  /\ second_unallocated_wr_cam_index_vec' = Append(second_unallocated_wr_cam_index_vec, i)
  /\ UNCHANGED <<pipVars, addr_collision_busy, rdIndexVars, unallocated_wr_cam_index_set, rd_cam,
                 uif_credit, fault>>

NoCmdSend ==
  /\ Goto("send", "store")
  /\ UNCHANGED <<pipVars, addr_collision_busy, rdIndexVars, wrIndexVars, camVars, creditVars, fault>>

-----------------------------------------------------------------------------
(* CqStore *)

IsPipBufferEmpty == rd_pip_buffer = <<>> /\ wr_pip_buffer = <<>>

(* DecodedAddress::operator== compares the bank of the one address with the
   bankgroup of the other. *)
AddressEqual(a, b) == a.bg = b.bg /\ a.bank = b.bg /\ a.row = b.row

(* What DetectAddrCollision reads: the request of the read buffer when there is
   one.  For a plain write the code takes the front of the empty read buffer;
   what it finds there is memory of an earlier request or of none. *)
Detected ==
  IF rd_pip_buffer # <<>> THEN {Head(rd_pip_buffer).req}
  ELSE [cmd : {"RD", "WR", "RMW", "Invalid"}, addr : Addr, prio : {"LPR"}]

(* Mutant: only the write CAM is searched. *)
DetectAddrCollision_wr_only(d) ==
  d.cmd # "Invalid" /\ \E i \in Used(wr_cam) : AddressEqual(wr_cam[i].addr, d.addr)

(* d conflicts with a stored command; two plain reads do not. *)
DetectAddrCollision(d) ==
  /\ d.cmd # "Invalid"
  /\ \/ \E i \in Used(rd_cam) : /\ AddressEqual(rd_cam[i].addr, d.addr)
                                /\ ~(d.cmd = "RD" /\ rd_cam[i].cmd = "RD")
     \/ \E i \in Used(wr_cam) : AddressEqual(wr_cam[i].addr, d.addr)

(* Both CAMs have room for what the pipe buffers hold; StoreRequest asserts it. *)
CamHasRoom ==
  /\ rd_pip_buffer # <<>> => Cardinality(Used(rd_cam)) < RdCamDepth
  /\ wr_pip_buffer # <<>> => Cardinality(Used(wr_cam)) < WrCamDepth

StoreFront(cam, buffer) ==
  IF buffer = <<>> THEN cam ELSE [cam EXCEPT ![Head(buffer).index] = Head(buffer).req]

SendCmd2Cq ==
  /\ rd_cam' = StoreFront(rd_cam, rd_pip_buffer)
  /\ wr_cam' = StoreFront(wr_cam, wr_pip_buffer)
  /\ rd_pip_buffer' = IF rd_pip_buffer = <<>> THEN <<>> ELSE Tail(rd_pip_buffer)
  /\ wr_pip_buffer' = IF wr_pip_buffer = <<>> THEN <<>> ELSE Tail(wr_pip_buffer)

CqStoreEmpty ==
  /\ Goto("store", "port")
  /\ IsPipBufferEmpty
  /\ UNCHANGED <<pipVars, addr_collision_busy, rdIndexVars, wrIndexVars, camVars, creditVars, fault>>

(* Mutant: a stall is not ended. *)
CqStoreSend_busy ==
  /\ Goto("store", "port") /\ ~IsPipBufferEmpty
  /\ \/ Used(rd_cam) = {} /\ Used(wr_cam) = {}
     \/ \E d \in Detected : ~DetectAddrCollision(d)
  /\ SendCmd2Cq
  /\ fault' = IF CamHasRoom THEN "none" ELSE "cam_depth"
  /\ UNCHANGED <<temp_buffer, addr_collision_busy, rdIndexVars, wrIndexVars, creditVars>>

(* Nothing is searched while both CAMs are empty. *)
CqStoreSend ==
  /\ Goto("store", "port")
  /\ ~IsPipBufferEmpty
  /\ \/ Used(rd_cam) = {} /\ Used(wr_cam) = {}
     \/ \E d \in Detected : ~DetectAddrCollision(d)
  /\ addr_collision_busy' = FALSE
  /\ SendCmd2Cq
  /\ fault' = IF CamHasRoom THEN "none" ELSE "cam_depth"
  /\ UNCHANGED <<temp_buffer, rdIndexVars, wrIndexVars, creditVars>>

(* Mutant: a stalled pipe buffer does not make the controller busy. *)
CqStoreStall_accepting ==
  /\ Goto("store", "port") /\ ~IsPipBufferEmpty
  /\ \E d \in Detected : DetectAddrCollision(d)
  /\ addr_collision_busy' = FALSE
  /\ UNCHANGED <<pipVars, rdIndexVars, wrIndexVars, camVars, creditVars, fault>>

CqStoreStall ==
  /\ Goto("store", "port")
  /\ ~IsPipBufferEmpty
  /\ \E d \in Detected : DetectAddrCollision(d)
  /\ addr_collision_busy' = TRUE
  /\ UNCHANGED <<pipVars, rdIndexVars, wrIndexVars, camVars, creditVars, fault>>

CqStore == CqStoreEmpty \/ CqStoreSend \/ CqStoreStall

-----------------------------------------------------------------------------
(* nb_transport_fw with UIF_REQ *)

InPool(p) == {i \in Used(rd_cam) : rd_cam[i].prio = p}
IsHprFull == Cardinality(InPool("HPR")) >= HprCredit
IsLprFull == Cardinality(InPool("LPR")) >= LprCredit
IsTpwFull == Cardinality(Used(wr_cam)) >= WrCamDepth

Refused(r) ==
  \/ addr_collision_busy
  \/ r.cmd # "RD" /\ IsTpwFull
  \/ r.cmd = "RD" /\ r.prio = "HPR" /\ IsHprFull
  \/ r.cmd = "RD" /\ r.prio = "LPR" /\ IsLprFull

(* The credits the port pays for a request (CHIPort::req_pop_s3): a
   read-modify-write costs a write and an LPR credit.  A credit that is not
   there is an assertion of the port (the fault "lpr_credit" of CHIPort).  A
   full write has all its bytes enabled here; otherwise the port pays for a
   write and sends a read-modify-write. *)
Takes(r) == CASE r.cmd = "RD" -> {r.prio} [] r.cmd = "WR" -> {"TPW"} [] r.cmd = "RMW" -> {"TPW", "LPR"}

PortTakesCredits(r) ==
  /\ \A p \in Takes(r) : uif_credit[p] > 0
  /\ uif_credit' = [p \in Pool |-> IF p \in Takes(r) THEN uif_credit[p] - 1 ELSE uif_credit[p]]
  /\ UNCHANGED cam_credit

(* The first free index from last_allocated_rd_cam_index on, or the least. *)
NextRdIndex ==
  LET free == unallocated_rd_cam_index_set
      up == {i \in free : i >= last_allocated_rd_cam_index}
      from == IF up # {} THEN up ELSE free
  IN  Min(from)

AllocateRdCamIndex ==
  /\ last_allocated_rd_cam_index' = NextRdIndex
  /\ unallocated_rd_cam_index_set' = unallocated_rd_cam_index_set \ {NextRdIndex}

(* Indices never used before go first, then the returned ones in their order. *)
NextWrIndex ==
  IF unallocated_wr_cam_index_set # {}
    THEN Min(unallocated_wr_cam_index_set)
    ELSE Head(second_unallocated_wr_cam_index_vec)

(* Mutant: a returned index is used and left in the queue. *)
AllocateWrCamIndex_no_pop ==
  /\ unallocated_wr_cam_index_set' = unallocated_wr_cam_index_set \ {NextWrIndex}
  /\ UNCHANGED second_unallocated_wr_cam_index_vec

AllocateWrCamIndex ==
  /\ unallocated_wr_cam_index_set' = unallocated_wr_cam_index_set \ {NextWrIndex}
  /\ second_unallocated_wr_cam_index_vec' =
       IF unallocated_wr_cam_index_set # {} THEN second_unallocated_wr_cam_index_vec
       ELSE Tail(second_unallocated_wr_cam_index_vec)

NoRdIndex == unallocated_rd_cam_index_set = {}
NoWrIndex == unallocated_wr_cam_index_set = {} /\ second_unallocated_wr_cam_index_vec = <<>>

(* A request enters the pipe buffers; a read-modify-write splits in two. *)
EnterPip(r) ==
  /\ IF r.cmd \in {"RD", "RMW"}
       THEN AllocateRdCamIndex /\ rd_pip_buffer' = Append(rd_pip_buffer, [req |-> r, index |-> NextRdIndex])
       ELSE UNCHANGED <<rdIndexVars, rd_pip_buffer>>
  /\ IF r.cmd \in {"WR", "RMW"}
       THEN AllocateWrCamIndex /\ wr_pip_buffer' = Append(wr_pip_buffer, [req |-> r, index |-> NextWrIndex])
       ELSE UNCHANGED <<wrIndexVars, wr_pip_buffer>>

(* AcceptRequest.  With empty pipe buffers the request of the temp buffer, if
   there is one, enters in place of r and stays in the temp buffer; with an
   occupied one r goes to the temp buffer, which holds one request. *)
AcceptRequest(r) ==
  LET entering == IF temp_buffer = <<>> THEN r ELSE Head(temp_buffer)
      starved == \/ entering.cmd \in {"RD", "RMW"} /\ NoRdIndex
                 \/ entering.cmd \in {"WR", "RMW"} /\ NoWrIndex
  IN  IF ~IsPipBufferEmpty
        THEN /\ temp_buffer' = IF temp_buffer = <<>> THEN <<r>> ELSE temp_buffer
             /\ fault' = IF temp_buffer = <<>> THEN "none" ELSE "impossible_scenario"
             /\ UNCHANGED <<rd_pip_buffer, wr_pip_buffer, rdIndexVars, wrIndexVars>>
        ELSE IF starved
          THEN fault' = "no_index" /\ UNCHANGED <<pipVars, rdIndexVars, wrIndexVars>>
          ELSE EnterPip(entering) /\ UNCHANGED <<temp_buffer, fault>>

(* The port sends a request.  It ignores the result, takes the request out of
   its queue and pays the credits. *)
UifReq(r) ==
  /\ Goto("port", "credit")
  /\ PortTakesCredits(r)
  /\ IF Refused(r)
       THEN UNCHANGED <<pipVars, rdIndexVars, wrIndexVars, fault>>
       ELSE AcceptRequest(r)
  /\ UNCHANGED <<addr_collision_busy, camVars>>

NoUifReq ==
  /\ Goto("port", "credit")
  /\ UNCHANGED <<pipVars, addr_collision_busy, rdIndexVars, wrIndexVars, camVars, creditVars, fault>>

(* Mutant: a credit is sent whether there is one or not. *)
CreditSend_unchecked ==
  /\ Goto("credit", "send")
  /\ cam_credit' = [p \in Pool |-> cam_credit[p] - 1]
  /\ uif_credit' = [p \in Pool |-> uif_credit[p] + 1]
  /\ UNCHANGED <<pipVars, addr_collision_busy, rdIndexVars, wrIndexVars, camVars, fault>>

(* Mutant: the credit that was sent is not taken off. *)
CreditSend_kept ==
  /\ Goto("credit", "send")
  /\ uif_credit' = [p \in Pool |-> IF cam_credit[p] > 0 THEN uif_credit[p] + 1 ELSE uif_credit[p]]
  /\ UNCHANGED <<pipVars, addr_collision_busy, rdIndexVars, wrIndexVars, camVars, cam_credit, fault>>

(* CreditSend: one credit of each pool that has one. *)
CreditSend ==
  /\ Goto("credit", "send")
  /\ cam_credit' = [p \in Pool |-> IF cam_credit[p] > 0 THEN cam_credit[p] - 1 ELSE 0]
  /\ uif_credit' = [p \in Pool |-> IF cam_credit[p] > 0 THEN uif_credit[p] + 1 ELSE uif_credit[p]]
  /\ UNCHANGED <<pipVars, addr_collision_busy, rdIndexVars, wrIndexVars, camVars, fault>>

Next ==
  \/ \E i \in RdIndex : RdCmdSend(i)
  \/ \E i \in WrIndex : WrCmdSend(i)
  \/ NoCmdSend
  \/ CqStore
  \/ \E r \in Requests : UifReq(r)
  \/ NoUifReq
  \/ CreditSend

Spec == Init /\ [][Next]_vars

(* The clock goes on: CqStore notifies the controller again for the next cycle as
   long as a pipe buffer is occupied.  Nothing is assumed of the scheduler, which
   may leave a stored command where it is. *)
Fairness == WF_vars(Next)

FairSpec == Spec /\ Fairness

-----------------------------------------------------------------------------
(* Properties *)

CamEntry == Request \union {NoEntry}
RdPip == [req : Requests, index : RdIndex]
WrPip == [req : Requests, index : WrIndex]

TypeOK ==
  /\ rd_pip_buffer \in Seq(RdPip) /\ wr_pip_buffer \in Seq(WrPip)
  /\ temp_buffer \in Seq(Requests)
  /\ addr_collision_busy \in BOOLEAN
  /\ unallocated_rd_cam_index_set \subseteq RdIndex
  /\ last_allocated_rd_cam_index \in 0 .. RdCamDepth
  /\ unallocated_wr_cam_index_set \subseteq WrIndex
  /\ second_unallocated_wr_cam_index_vec \in Seq(WrIndex)
  /\ rd_cam \in [RdIndex -> CamEntry] /\ wr_cam \in [WrIndex -> CamEntry]
  /\ cam_credit \in [Pool -> Nat] /\ uif_credit \in [Pool -> Nat]
  /\ stage \in {"send", "store", "port", "credit"}
  /\ fault \in {"none", "no_index", "cam_depth", "impossible_scenario"}

(* A CAM index has one owner: the free pool (for a write index one of the two,
   and once in the queue), the pipe buffer or the CAM.  AllocateRdCamIndex and
   AllocateWrCamIndex take it, CmdSend gives it back; an index with two owners
   would let cam_store.emplace drop a request without a word. *)
PipIndices(buffer) == {buffer[k].index : k \in DOMAIN buffer}
RdIndicesConserved ==
  /\ unallocated_rd_cam_index_set \union PipIndices(rd_pip_buffer) \union Used(rd_cam) = RdIndex
  /\ unallocated_rd_cam_index_set \intersect (PipIndices(rd_pip_buffer) \union Used(rd_cam)) = {}
  /\ PipIndices(rd_pip_buffer) \intersect Used(rd_cam) = {}
Returned == {second_unallocated_wr_cam_index_vec[k] : k \in DOMAIN second_unallocated_wr_cam_index_vec}
ReturnedOnce ==
  \A m, n \in DOMAIN second_unallocated_wr_cam_index_vec :
    m # n => second_unallocated_wr_cam_index_vec[m] # second_unallocated_wr_cam_index_vec[n]
FreeWr == unallocated_wr_cam_index_set \union Returned
WrIndicesConserved ==
  /\ FreeWr \union PipIndices(wr_pip_buffer) \union Used(wr_cam) = WrIndex
  /\ FreeWr \intersect (PipIndices(wr_pip_buffer) \union Used(wr_cam)) = {}
  /\ unallocated_wr_cam_index_set \intersect Returned = {}
  /\ PipIndices(wr_pip_buffer) \intersect Used(wr_cam) = {}
  /\ ReturnedOnce
IndicesConserved == RdIndicesConserved /\ WrIndicesConserved

(* A request that is not refused finds the pipe buffers empty: CqStore has
   emptied them in this cycle, or has made the controller busy.  The temp
   buffer, from which no request ever leaves, is never used, and "Impossible
   scenario" in AcceptRequest is impossible. *)
PipNeverOverrun ==
  /\ temp_buffer = <<>>
  /\ stage = "port" => IsPipBufferEmpty \/ addr_collision_busy

(* The credits of the reads taken together, and those of the writes, that are
   with the port, in the controller, or held by a request in a pipe buffer or a
   CAM are never more than configured.  The two read classes are counted
   together because the read of a read-modify-write takes an LPR credit and
   returns one of the class of its QoS value. *)
ReadCredits == cam_credit["HPR"] + cam_credit["LPR"] + uif_credit["HPR"] + uif_credit["LPR"]
RdHeld == Len(rd_pip_buffer) + Cardinality(Used(rd_cam))
WrHeld == Len(wr_pip_buffer) + Cardinality(Used(wr_cam))
CreditsBounded ==
  /\ ReadCredits + RdHeld <= HprCredit + LprCredit
  /\ cam_credit["TPW"] + uif_credit["TPW"] + WrHeld <= TpwCredit

(* No assertion of the index pools and the CAMs fails and AcceptRequest does
   not abort, however full the credits let the CAMs become. *)
NoFault == fault = "none"

(* Two commands on one address of which one at least writes. *)
Conflict(a, b) == a.addr = b.addr /\ ~(a.cmd = "RD" /\ b.cmd = "RD")
Conflicting(r) ==
  \/ \E i \in Used(rd_cam) : Conflict(rd_cam[i], r)
  \/ \E i \in Used(wr_cam) : Conflict(wr_cam[i], r)

(* CqStore lets a read or a read-modify-write into the CAMs only when they hold
   no conflicting command on its address: the scheduler orders the commands of
   a bank as it likes, so a read stored beside an older write of its address
   could be answered from memory the write has not reached. *)
HazardFreeStore ==
  [][\A r \in {rd_pip_buffer[k].req : k \in DOMAIN rd_pip_buffer} :
       rd_pip_buffer' = <<>> => ~Conflicting(r)]_vars

(* A stall has a cause that lasts: a controller that is busy for ever holds a
   command that is never sent.  The flag is updated by CqStore alone, and only
   while a pipe buffer is occupied, and no new command can enter: whichever
   commands leave, and in whatever order with stores and refused requests, it is
   never left set with nothing to wait for.  (The scheduler may keep a command
   for ever: see ReadServed of the module Controller.) *)
StallHasCause ==
  <>[]addr_collision_busy =>
    \/ \E i \in RdIndex : <>[](rd_cam[i] # NoEntry)
    \/ \E i \in WrIndex : <>[](wr_cam[i] # NoEntry)

(* Back-pressure loses nothing: a credit the port has paid belongs to a request
   in the controller until it returns.  The code does not keep it: a refused
   request is forgotten by both sides. *)
CreditsConserved ==
  /\ ReadCredits + RdHeld = HprCredit + LprCredit
  /\ cam_credit["TPW"] + uif_credit["TPW"] + WrHeld = TpwCredit
=============================================================================
