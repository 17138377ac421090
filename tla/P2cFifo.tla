------------------------------ MODULE P2cFifo ------------------------------
(***************************************************************************)
(* The port-to-controller FIFOs (HprQueue, LprQueue, TpwQueue) and their    *)
(* arbiter PaArbiter.  A write waits in tpw_queue until all its data beats  *)
(* are there; the first one ready, in DBID order, moves to head_entry.      *)
(***************************************************************************)
EXTENDS PortBuffers

CONSTANTS
  RdCqDepth, WrCqDepth,                 \* RD_CQ_DEPTH, WR_CQ_DEPTH
  MinHprQueueDepth, MinLgprQueueDepth,  \* MIN_HPR_QUEUE_DEPTH, MIN_LGPR_QUEUE_DEPTH
  PortAgingInit,                        \* PORT_AGING_INIT, in DFI clock cycles
  SwitchFast,                           \* PA_RDWR_SWITCH_FAST
  RdQosLevel0, RdQosLevel1, WrQosLevel  \* the QoS thresholds of ConfigureQosMap

ASSUME P2cAssumption ==
  /\ RdCqDepth \in Nat /\ WrCqDepth \in Nat \ {0}
  /\ MinHprQueueDepth \in 0 .. RdCqDepth /\ MinLgprQueueDepth \in 0 .. RdCqDepth
  /\ PortAgingInit \in Nat
  /\ SwitchFast \in BOOLEAN
  /\ RdQosLevel0 \in 0..15 /\ RdQosLevel1 \in 0..15 /\ WrQosLevel \in 0..15

VARIABLES
  hpr_queue, lpr_queue,   \* Seq(Kinds)
  tpw_queue,              \* the DBIDs of the writes that wait (the keys of the std::map)
  head_entry,             \* the DBID of the write at the head, NoHead: none
  credit_counter,         \* [Queue -> Nat]: UIF credits
  aging,                  \* [Queue -> cycles until the queue counts as expired]
  pa_state                \* PaArbiter::state

p2cVars == <<hpr_queue, lpr_queue, tpw_queue, head_entry, credit_counter, aging, pa_state>>

Queue == {"HPR", "LPR", "TPW"}
NoHead == -1
AgingNever == PortAgingInit + 1     \* sc_max_time(): nothing was popped yet

P2cInit ==
  /\ hpr_queue = <<>> /\ lpr_queue = <<>>
  /\ tpw_queue = {} /\ head_entry = NoHead
  /\ credit_counter = [q \in Queue |-> 0]
  /\ aging = [q \in Queue |-> AgingNever]
  /\ pa_state = "IDLE"

(* Qos: the class of a request. *)
GetQosLevel(k) ==
  IF IsRead(k)
  THEN IF k.qos >= RdQosLevel1 THEN "HPR" ELSE IF k.qos >= RdQosLevel0 THEN "LPR" ELSE "GPR"
  ELSE IF k.qos >= WrQosLevel THEN "GPW" ELSE "TPW"

MaxQueueDepth(q) == CASE q = "HPR" -> RdCqDepth - MinHprQueueDepth
                      [] q = "LPR" -> RdCqDepth - MinLgprQueueDepth
                      [] q = "TPW" -> WrCqDepth

GetQueueSize(q) == CASE q = "HPR" -> Len(hpr_queue)
                     [] q = "LPR" -> Len(lpr_queue)
                     [] q = "TPW" -> Cardinality(tpw_queue) + (IF head_entry # NoHead THEN 1 ELSE 0)

IsRdQueueRemainOneSpace == GetQueueSize("LPR") + GetQueueSize("HPR") = RdCqDepth - 1

HasRequest(q) == CASE q = "HPR" -> hpr_queue # <<>> /\ ~RdInfoFull
                   [] q = "LPR" -> lpr_queue # <<>> /\ ~RdInfoFull
                   [] q = "TPW" -> head_entry # NoHead

HasCredit(q) == credit_counter[q] > 0
Ready(q) == HasRequest(q) /\ HasCredit(q)

IsQueueEmpty == \A q \in Queue : ~HasRequest(q)

(* DecideRmw: only a partial write of a partial-write opcode. *)
IsRmw(k) == ~k.be_full /\ k.op = "WRITE_NO_SNP_PTL"
IsRMWRequest == IsRmw(buffer_payload[head_entry])

-----------------------------------------------------------------------------
(* Mutant: the lowest DBID moves up, whether its data is there or not. *)
Move2Head_any(queue, bc) == IF queue = {} THEN NoHead ELSE Min(queue)

(* The DBID Move2Head takes when the beats left are bc, NoHead if none is ready. *)
Move2Head(queue, bc) ==
  LET ready == {d \in queue : bc[d] = 0}
  IN IF ready = {} THEN NoHead ELSE Min(ready)

(* Some buffer has all its data, be its write still queued or already sent. *)
HasEntryReady(bc) == \E d \in Dbid : bc[d] = 0

-----------------------------------------------------------------------------
(* PaArbiter *)

IsQueueExpired(q) == aging[q] = 0

(* expired_time is sc_max_time(), and the test is "not yet reached": any GPR
   or GPW command that waits counts as expired.  The head of the TPW queue is
   not searched. *)
HasExpiredCmd(q) ==
  CASE q = "LPR" -> \E i \in DOMAIN lpr_queue : GetQosLevel(lpr_queue[i]) = "GPR"
    [] q = "TPW" -> \E d \in tpw_queue : GetQosLevel(buffer_payload[d]) = "GPW"
    [] q = "HPR" -> FALSE

IsHighPriority(q) == (IsQueueExpired(q) \/ HasExpiredCmd(q)) /\ Ready(q)

IsRdHighPriority == IsHighPriority("HPR") \/ IsHighPriority("LPR")

HasRdRequest == Ready("LPR") \/ Ready("HPR")
HasWrRequest == Ready("TPW") /\ ~(IsRMWRequest /\ ~HasCredit("LPR"))

IsRdHold == IF SwitchFast THEN HasRdRequest ELSE HasCredit("LPR") \/ HasCredit("HPR")
IsWrHold == IF SwitchFast THEN Ready("TPW") ELSE HasCredit("TPW")

(* UpdateState: the state the arbiter moves to. *)
UpdateState ==
  CASE pa_state = "IDLE" -> IF HasRdRequest THEN "RD"
                            ELSE IF HasWrRequest THEN "WR" ELSE "IDLE"
    [] pa_state = "RD" -> IF IsRdHighPriority THEN "RD"
                          ELSE IF IsHighPriority("TPW") THEN "WR"
                          ELSE IF IsRdHold THEN "RD"
                          ELSE IF HasWrRequest THEN "WR" ELSE "IDLE"
    [] pa_state = "WR" -> IF IsHighPriority("TPW") THEN "WR"
                          ELSE IF IsRdHighPriority \/ Ready("HPR") THEN "RD"
                          ELSE IF IsWrHold THEN "WR"
                          ELSE IF Ready("LPR") THEN "RD" ELSE "IDLE"

(* GetWinningQueue in state s; in WR it is TPW whatever the queue holds. *)
GetWinningQueue(s) ==
  CASE s = "RD" -> IF IsHighPriority("HPR") THEN "HPR"
                   ELSE IF IsHighPriority("LPR") THEN "LPR"
                   ELSE IF Ready("HPR") THEN "HPR"
                   ELSE IF Ready("LPR") THEN "LPR" ELSE "NONE"
    [] s = "WR" -> "TPW"
    [] s = "IDLE" -> "NONE"

-----------------------------------------------------------------------------
(* Mutant: an expired queue keeps counting down. *)
AgingTickOn == aging' = [q \in Queue |-> IF aging[q] = AgingNever THEN aging[q] ELSE aging[q] - 1]

(* What waits longer is nearer to expiry: one DFI clock cycle passes. *)
AgingTick == aging' = [q \in Queue |-> IF aging[q] \in 1 .. PortAgingInit THEN aging[q] - 1 ELSE aging[q]]

UpdateQueueAging(q) == aging' = [aging EXCEPT ![q] = PortAgingInit]

-----------------------------------------------------------------------------
P2cTypeOK ==
  /\ hpr_queue \in Seq(Kinds) /\ lpr_queue \in Seq(Kinds)
  /\ tpw_queue \subseteq Dbid /\ head_entry \in Dbid \union {NoHead}
  /\ credit_counter \in [Queue -> Nat]
  /\ aging \in [Queue -> 0 .. AgingNever]
  /\ pa_state \in {"IDLE", "RD", "WR"}
=============================================================================
