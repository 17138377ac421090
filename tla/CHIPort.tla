------------------------------ MODULE CHIPort ------------------------------
(***************************************************************************)
(* The CHI port: it decides which requests to accept and which to retry,   *)
(* buffers write data, forwards requests to the memory controller over the  *)
(* UIF and returns responses and read data.                                 *)
(*                                                                         *)
(* dfi_clock_posedge runs six stages in a row; `stage' is its program       *)
(* counter.  It is one SystemC process and never waits, so everything else  *)
(* (the NoC clock, the controller's callbacks, upstream) happens while the  *)
(* stage is "idle".                                                         *)
(*                                                                         *)
(* Upstream and the controller are environment.  Upstream follows the CHI   *)
(* retry protocol: a retried request is sent again, with AllowRetry clear,  *)
(* against a P-credit.  The PcrdGrant carries no type, so upstream may use  *)
(* it for any request it holds.  The link is the channel of LinkFifo.       *)
(***************************************************************************)
EXTENDS RetryResourceManager, Functions

CONSTANTS
  LinkCredits,     \* flits a receive queue holds
  UifCredits,      \* [Queue -> Nat]: HPR_CREDIT, LPR_CREDIT, TPW_CREDIT of the controller
  MaxReq,          \* bound: fresh requests upstream sends
  MaxResend        \* bound: retried requests upstream sends again

ASSUME PortAssumption ==
  /\ LinkCredits \in Nat \ {0}
  /\ UifCredits \in [Queue -> Nat]
  /\ MaxReq \in Nat
  /\ MaxResend \in Nat

VARIABLES
  req_rx, dat_rx,   \* receive queues of the REQ and DAT channels
  req_s1, wdat_s1,  \* the pipeline registers
  stage,            \* the next stage of dfi_clock_posedge
  uif_wr,           \* [Dbid -> what the controller still does with a write that was sent]
  uif_rd,           \* [CmdId -> Nat]: reads the controller still works on, by their cmd_id
  rmw_sent,         \* a read-modify-write went to the controller
  fault,            \* "none", or what stopped the program
  sent, resent,     \* fresh requests and resends so far
  retried,          \* [Kinds -> Nat]: RetryAcks upstream has received and not acted on
  grants,           \* PcrdGrants upstream has received and not used
  up_beats          \* [Dbid -> Nat]: data beats upstream still has to send

pipeVars == <<req_rx, dat_rx, req_s1, wdat_s1>>
rdVars == <<infoVars, uif_rd, rmw_sent>>
upVars == <<sent, resent, retried, grants, up_beats>>
vars == <<bufferVars, rdVars, rspVars, p2cVars, retryVars, pipeVars, stage, uif_wr, fault, upVars>>

(* The cmd_id of a UIF request is the tag of a read and the DBID of a write. *)
CmdId == Tag \union Dbid

Stage == {"idle", "wdat_decode", "req_pop", "req_decision", "resp_gen", "req_decode"}

Init ==
  /\ BuffersInit /\ P2cInit /\ RetryInit
  /\ req_rx = <<>> /\ dat_rx = <<>> /\ req_s1 = <<>> /\ wdat_s1 = <<>>
  /\ stage = "idle"
  /\ uif_wr = [d \in Dbid |-> "none"]
  /\ uif_rd = [i \in CmdId |-> 0]
  /\ rmw_sent = FALSE
  /\ fault = "none"
  /\ sent = 0 /\ resent = 0
  /\ retried = [k \in Kinds |-> 0]
  /\ grants = 0
  /\ up_beats = [d \in Dbid |-> 0]

(* The DFI process goes from stage s to stage t. *)
Goto(s, t) == stage = s /\ fault = "none" /\ stage' = t

(* The program stops: an assertion, an exception, or undefined behaviour. *)
Stop(why) ==
  /\ fault' = why
  /\ UNCHANGED <<bufferVars, rdVars, rspVars, p2cVars, retryVars, pipeVars, uif_wr, upVars>>

Idle == stage = "idle" /\ fault = "none" /\ UNCHANGED <<stage, fault>>

-----------------------------------------------------------------------------
(* dfi_clock_posedge, write data *)

(* Mutant: the head is refilled only when a write leaves it. *)
RefillHeadNever(bc) == UNCHANGED <<tpw_queue, head_entry>>

(* The test and the move at the end of wdat_push_s2, with the beats left. *)
RefillHead(bc) ==
  IF head_entry = NoHead /\ HasEntryReady(bc)
  THEN LET d == Move2Head(tpw_queue, bc) IN head_entry' = d /\ tpw_queue' = tpw_queue \ {d}
  ELSE UNCHANGED <<tpw_queue, head_entry>>

(* A zero-delay WDAT_END comes before the clock moves on. *)
NoEventPending == \A d \in Dbid : uif_wr[d] # "end_now"

wdat_push_s2 ==
  /\ NoEventPending
  /\ Goto("idle", "wdat_decode")
  /\ AgingTick
  /\ uif_wr' = [d \in Dbid |-> IF uif_wr[d] = "end_next" THEN "end_now" ELSE uif_wr[d]]
  /\ IF wdat_s1 = <<>>
     THEN fault' = fault /\ UNCHANGED <<bufferVars, tpw_queue, head_entry, wdat_s1>>
     ELSE LET d == Head(wdat_s1) IN
          IF HasBuffer(d)
          THEN /\ beat_count' = receive_wdata_flit(d)
               /\ RefillHead(receive_wdata_flit(d))
               /\ wdat_s1' = Tail(wdat_s1)
               /\ UNCHANGED <<unallocated_dbid, buffer_payload, fault>>
          ELSE fault' = "no_buffer" /\ UNCHANGED <<bufferVars, tpw_queue, head_entry, wdat_s1>>
  /\ UNCHANGED <<rdVars, rspVars, hpr_queue, lpr_queue, credit_counter, pa_state, retryVars,
                 req_rx, dat_rx, req_s1, upVars>>

wdat_decode_s1 ==
  /\ Goto("wdat_decode", "req_pop")
  /\ IF dat_rx # <<>>
     THEN wdat_s1' = Append(wdat_s1, Head(dat_rx)) /\ dat_rx' = Tail(dat_rx)
     ELSE UNCHANGED <<wdat_s1, dat_rx>>
  /\ UNCHANGED <<bufferVars, rdVars, rspVars, p2cVars, retryVars, req_rx, req_s1, uif_wr, fault, upVars>>

-----------------------------------------------------------------------------
(* dfi_clock_posedge, req_pop_s3: the request the arbiter picks goes to the
   controller *)

(* A read takes a tag and a credit. *)
PopRead(q) ==
  LET k == IF q = "HPR" THEN Head(hpr_queue) ELSE Head(lpr_queue) IN
  /\ allocate_info_tag
  /\ uif_rd' = [uif_rd EXCEPT ![Min(unused_buffer_id)] = @ + 1]
  /\ hpr_queue' = IF q = "HPR" THEN Tail(hpr_queue) ELSE hpr_queue
  /\ lpr_queue' = IF q = "LPR" THEN Tail(lpr_queue) ELSE lpr_queue
  /\ IF k.ordered /\ k.op = "READ_NO_SNP" THEN Insert(ReadReceiptQ, "ReadReceipt")
                                          ELSE UNCHANGED response_queues
  /\ credit_counter' = [credit_counter EXCEPT ![q] = @ - 1]
  /\ UpdateQueueAging(q)
  /\ fault' = fault
  /\ UNCHANGED <<bufferVars, winner_queue_index, tpw_queue, head_entry, retryVars, pipeVars, uif_wr,
                 rmw_sent, upVars>>

(* Mutant: the head stays empty when a write leaves it. *)
PopHeadOnly == head_entry' = NoHead /\ UNCHANGED tpw_queue

(* TpwQueue::PopRequest *)
PopHead ==
  LET next == Move2Head(tpw_queue, beat_count)
  IN head_entry' = next /\ tpw_queue' = tpw_queue \ {next}

(* is_rmw of the UIF request: SendUifRequest does not look at the opcode. *)
UifRmw(k) == ~k.be_full

(* A write takes a credit, and a read-modify-write one of the LPR queue too.  The
   controller splits a read-modify-write into a read and a write, and both have
   the cmd_id of the write (SplitTrans clones its UifExtension). *)
PopWrite ==
  /\ Insert(CompQ, "Comp")
  /\ uif_wr' = [uif_wr EXCEPT ![head_entry] = "req"]
  /\ uif_rd' = IF UifRmw(buffer_payload[head_entry]) THEN [uif_rd EXCEPT ![head_entry] = @ + 1] ELSE uif_rd
  /\ rmw_sent' = (rmw_sent \/ UifRmw(buffer_payload[head_entry]))
  /\ PopHead
  /\ credit_counter' = [q \in Queue |-> IF q = "TPW" \/ (q = "LPR" /\ IsRMWRequest)
                                        THEN credit_counter[q] - 1 ELSE credit_counter[q]]
  /\ UpdateQueueAging("TPW")
  /\ fault' = fault
  /\ UNCHANGED <<bufferVars, infoVars, winner_queue_index, hpr_queue, lpr_queue, retryVars, pipeVars, upVars>>

(* What stops the program when queue q has won. *)
PopFault(q) ==
  CASE q = "TPW" -> IF head_entry = NoHead THEN "no_head"        \* optional::value throws
                    ELSE IF ~HasCredit("TPW") THEN "tpw_credit"  \* assert in ConsumeCredit
                    ELSE IF IsRMWRequest /\ ~HasCredit("LPR") THEN "lpr_credit" ELSE "none"
    [] q \in {"HPR", "LPR"} -> IF unused_buffer_id = {} THEN "no_tag" ELSE "none"
    [] q = "NONE" -> "none"

req_pop_s3 ==
  LET s == UpdateState
      q == GetWinningQueue(s)
  IN
  /\ Goto("req_pop", "req_decision")
  /\ \/ /\ IsQueueEmpty
        /\ UNCHANGED <<bufferVars, rdVars, rspVars, p2cVars, retryVars, pipeVars, uif_wr, fault, upVars>>
     \/ /\ ~IsQueueEmpty /\ PopFault(q) = "none"
        /\ pa_state' = s
        /\ \/ q \in {"HPR", "LPR"} /\ PopRead(q)
           \/ q = "TPW" /\ PopWrite
           \/ /\ q = "NONE"
              /\ UNCHANGED <<bufferVars, rdVars, rspVars, hpr_queue, lpr_queue, tpw_queue, head_entry,
                             credit_counter, aging, retryVars, pipeVars, uif_wr, fault, upVars>>
     \/ ~IsQueueEmpty /\ PopFault(q) # "none" /\ Stop(PopFault(q))

-----------------------------------------------------------------------------
(* dfi_clock_posedge, req_decision_s2: accept, retry or drop *)

handle_WriteNoSnp == ~has_retry_cmd("TPW") /\ ~has_retry_cmd("GPW") /\ ~is_full("TPW")

handle_ReadNoSnp(c) ==
  CASE c = "HPR" -> /\ ~has_retry_cmd("HPR")
                    /\ ~is_gpr_expired_and_rd_queue_only_one_space
                    /\ ~is_full("HPR")
    [] c \in {"LPR", "GPR"} -> ~has_retry_cmd(c) /\ ~is_full("LGPR")

(* A request that may not be retried is always accepted. *)
Accepted(r) == \/ ~r.allow_retry
               \/ IF IsWrite(r.kind) THEN handle_WriteNoSnp
                                     ELSE handle_ReadNoSnp(GetQosLevel(r.kind))

Retry(k) ==
  /\ Insert(RetryAckQ, k)
  /\ cnt_inc(GetQosLevel(k), k.src)
  /\ UNCHANGED <<bufferVars, p2cVars, p_credit, arbitVars, fault>>

AcceptRead(k) ==
  /\ IF GetQosLevel(k) = "HPR" THEN hpr_queue' = Append(hpr_queue, k) /\ UNCHANGED lpr_queue
                               ELSE lpr_queue' = Append(lpr_queue, k) /\ UNCHANGED hpr_queue
  /\ UNCHANGED <<bufferVars, response_queues, retryVars, fault,
                 tpw_queue, head_entry, credit_counter, aging, pa_state>>

AcceptWrite(k) ==
  IF unallocated_dbid = {}
  THEN fault' = "no_dbid"          \* *unallocated_dbid.begin() of an empty set
       /\ UNCHANGED <<bufferVars, response_queues, p2cVars, retryVars>>
  ELSE LET d == Min(unallocated_dbid) IN
       /\ allocate_dbid(k, d)
       /\ Insert(DbidQ, d)
       /\ tpw_queue' = tpw_queue \union {d}
       /\ UNCHANGED <<hpr_queue, lpr_queue, head_entry, credit_counter, aging, pa_state, retryVars, fault>>

req_decision_s2 ==
  /\ Goto("req_decision", "resp_gen")
  /\ UNCHANGED <<rdVars, winner_queue_index, req_rx, dat_rx, wdat_s1, uif_wr, upVars>>
  /\ \/ /\ req_s1 = <<>>
        /\ UNCHANGED <<bufferVars, response_queues, p2cVars, retryVars, req_s1, fault>>
     \/ /\ req_s1 # <<>>
        /\ req_s1' = Tail(req_s1)
        /\ LET r == Head(req_s1)
               k == r.kind
           IN \/ (IsRead(k) \/ IsWrite(k)) /\ ~Accepted(r) /\ Retry(k)
              \/ IsRead(k) /\ Accepted(r) /\ AcceptRead(k)
              \/ IsWrite(k) /\ Accepted(r) /\ AcceptWrite(k)
              \/ /\ k.op \in {"PREFETCH_TGT", "CLEAN_SHARED_PERSIST"}   \* dropped
                 /\ UNCHANGED <<bufferVars, response_queues, p2cVars, retryVars, fault>>
              \/ /\ k.op = "UNSUPPORTED" /\ fault' = "opcode"           \* SC_REPORT_ERROR
                 /\ UNCHANGED <<bufferVars, response_queues, p2cVars, retryVars>>

-----------------------------------------------------------------------------
(* dfi_clock_posedge, the last two stages *)

resp_gen_pcrd ==
  /\ Goto("resp_gen", "req_decode")
  /\ IF is_need_to_send_pcrd_grant
     THEN GrantPcrd /\ Insert(PcrdGrantQ, "PcrdGrant")
     ELSE UNCHANGED <<retryVars, response_queues>>
  /\ UNCHANGED <<bufferVars, rdVars, winner_queue_index, p2cVars, pipeVars, uif_wr, fault, upVars>>

(* Mutant: the room in the RetryAck queue is not checked. *)
req_decode_s1_unchecked ==
  /\ Goto("req_decode", "idle")
  /\ IF req_rx # <<>>
     THEN req_s1' = Append(req_s1, Head(req_rx)) /\ req_rx' = Tail(req_rx)
     ELSE UNCHANGED <<req_s1, req_rx>>
  /\ UNCHANGED <<bufferVars, rdVars, rspVars, p2cVars, retryVars, dat_rx, wdat_s1, uif_wr, fault, upVars>>

req_decode_s1 ==
  /\ Goto("req_decode", "idle")
  /\ IF req_rx # <<>> /\ ~IsRetryAckFull
     THEN req_s1' = Append(req_s1, Head(req_rx)) /\ req_rx' = Tail(req_rx)
     ELSE UNCHANGED <<req_s1, req_rx>>
  /\ UNCHANGED <<bufferVars, rdVars, rspVars, p2cVars, retryVars, dat_rx, wdat_s1, uif_wr, fault, upVars>>

dfi_clock_posedge ==
  wdat_push_s2 \/ wdat_decode_s1 \/ req_pop_s3 \/ req_decision_s2 \/ resp_gen_pcrd \/ req_decode_s1

-----------------------------------------------------------------------------
(* noc_clock_posedge *)

(* A read whose data is there is answered; the unordered_map fixes no order. *)
rdat_arbit_s1 ==
  LET ready == {t \in Tag : rdata_info_buffer[t] = "ready"}
  IN IF ready = {} THEN UNCHANGED rdVars ELSE \E t \in ready : erase_entry(t) /\ UNCHANGED <<uif_rd, rmw_sent>>

(* One response leaves for upstream, which takes note of it. *)
resp_arbit_s1 ==
  IF ~HasRspPending THEN UNCHANGED <<rspVars, retried, grants, up_beats>>
  ELSE LET q == Arbiter
           flit == Head(response_queues[q])
       IN /\ winner_queue_index' = q
          /\ response_queues' = [response_queues EXCEPT ![q] = Tail(@)]
          /\ up_beats' = IF q = DbidQ THEN [up_beats EXCEPT ![flit] = Beats(buffer_payload[flit])]
                                      ELSE up_beats
          /\ retried' = IF q = RetryAckQ THEN [retried EXCEPT ![flit] = @ + 1] ELSE retried
          /\ grants' = IF q = PcrdGrantQ THEN grants + 1 ELSE grants

noc_clock_posedge ==
  /\ Idle
  /\ rdat_arbit_s1
  /\ resp_arbit_s1
  /\ UNCHANGED <<bufferVars, p2cVars, retryVars, pipeVars, uif_wr, sent, resent>>

-----------------------------------------------------------------------------
(* peqCallback: what the controller sends *)

UifCredit(S) ==
  /\ Idle
  /\ \A q \in S : credit_counter[q] < UifCredits[q]
  /\ credit_counter' = [q \in Queue |-> IF q \in S THEN credit_counter[q] + 1 ELSE credit_counter[q]]
  /\ UNCHANGED <<bufferVars, rdVars, rspVars, hpr_queue, lpr_queue, tpw_queue, head_entry, aging,
                 pa_state, retryVars, pipeVars, uif_wr, upVars>>

(* Something the controller does stops the program between two stages. *)
StopIdle(why) == stage = "idle" /\ fault = "none" /\ UNCHANGED stage /\ Stop(why)

(* The entry that UIF_RDAT_END names; the DBID of a read-modify-write names the
   entry of another read or none. *)
HasEntry(i) == i \in Tag /\ rdata_info_buffer[i] # "free"

(* UIF_RDAT_END with cmd_id i *)
UifRdatEnd(i) ==
  /\ Idle
  /\ uif_rd[i] > 0 /\ HasEntry(i)
  /\ set_entry_data_ready(i)
  /\ uif_rd' = [uif_rd EXCEPT ![i] = @ - 1]
  /\ UNCHANGED <<bufferVars, rmw_sent, rspVars, p2cVars, retryVars, pipeVars, uif_wr, upVars>>

(* Without an entry, at() throws. *)
UifRdatEndThrows(i) == uif_rd[i] > 0 /\ ~HasEntry(i) /\ StopIdle("no_entry")

(* The two parts of a read-modify-write have no StatisticExtension, which the
   scheduler writes to when it stores them, through a null pointer.  What happens
   is undefined: the program stops here or goes on. *)
RmwStored(d) == uif_wr[d] = "req" /\ UifRmw(buffer_payload[d]) /\ StopIdle("no_statistics")

(* SendUifRequest sets the data length to the CHI size field, log2 of the bytes. *)
DataLength(k) == k.size

UifWdatReq(d) ==
  /\ Idle
  /\ uif_wr[d] = "req"
  /\ uif_wr' = [uif_wr EXCEPT ![d] = IF DataLength(buffer_payload[d]) <= 32 THEN "end_now" ELSE "end_next"]
  /\ UNCHANGED <<bufferVars, rdVars, rspVars, p2cVars, retryVars, pipeVars, upVars>>

UifWdatEnd(d) ==
  /\ Idle
  /\ uif_wr[d] = "end_now"
  /\ uif_wr' = [uif_wr EXCEPT ![d] = "none"]
  /\ release_dbid(d)
  /\ UNCHANGED <<rdVars, rspVars, p2cVars, retryVars, pipeVars, upVars>>

-----------------------------------------------------------------------------
(* Upstream *)

UpSendReq(k) ==
  /\ Idle
  /\ sent < MaxReq /\ Len(req_rx) < LinkCredits
  /\ sent' = sent + 1
  /\ req_rx' = Append(req_rx, [kind |-> k, allow_retry |-> TRUE])
  /\ UNCHANGED <<bufferVars, rdVars, rspVars, p2cVars, retryVars, dat_rx, req_s1, wdat_s1, uif_wr,
                 resent, retried, grants, up_beats>>

UpResend(k) ==
  /\ Idle
  /\ resent < MaxResend /\ Len(req_rx) < LinkCredits
  /\ grants > 0 /\ retried[k] > 0
  /\ resent' = resent + 1
  /\ grants' = grants - 1
  /\ retried' = [retried EXCEPT ![k] = @ - 1]
  /\ req_rx' = Append(req_rx, [kind |-> k, allow_retry |-> FALSE])
  /\ UNCHANGED <<bufferVars, rdVars, rspVars, p2cVars, retryVars, dat_rx, req_s1, wdat_s1, uif_wr,
                 sent, up_beats>>

UpSendBeat(d) ==
  /\ Idle
  /\ up_beats[d] > 0 /\ Len(dat_rx) < LinkCredits
  /\ up_beats' = [up_beats EXCEPT ![d] = @ - 1]
  /\ dat_rx' = Append(dat_rx, d)
  /\ UNCHANGED <<bufferVars, rdVars, rspVars, p2cVars, retryVars, req_rx, req_s1, wdat_s1, uif_wr,
                 sent, resent, retried, grants>>

-----------------------------------------------------------------------------
Upstream == \/ \E k \in Kinds : UpSendReq(k) \/ UpResend(k)
            \/ \E d \in Dbid : UpSendBeat(d)

Controller == \/ \E S \in (SUBSET Queue) \ {{}} : UifCredit(S)
              \/ \E i \in CmdId : UifRdatEnd(i) \/ UifRdatEndThrows(i)
              \/ \E d \in Dbid : UifWdatReq(d) \/ UifWdatEnd(d) \/ RmwStored(d)

Next == dfi_clock_posedge \/ noc_clock_posedge \/ Controller \/ Upstream

Spec == Init /\ [][Next]_vars

(* SystemC time always moves on: no clock stops and everything that happens
   between two edges of the DFI clock gets its turn.  The controller serves
   what it was sent and returns its credits; upstream sends the data it was
   asked for.  These are enabled only between edges, hence strong fairness. *)
Fairness ==
  /\ WF_vars(dfi_clock_posedge)
  /\ SF_vars(noc_clock_posedge)
  /\ SF_vars(\E S \in (SUBSET Queue) \ {{}} : UifCredit(S))
  /\ SF_vars(\E i \in CmdId : UifRdatEnd(i))
  /\ SF_vars(\E d \in Dbid : UifWdatReq(d))
  /\ WF_vars(\E d \in Dbid : UifWdatEnd(d))
  /\ SF_vars(\E d \in Dbid : UpSendBeat(d))

FairSpec == Spec /\ Fairness

-----------------------------------------------------------------------------
Request == [kind : Kinds, allow_retry : BOOLEAN]

Fault == {"none", "no_buffer", "no_head", "tpw_credit", "lpr_credit", "no_tag", "no_dbid", "opcode",
          "no_entry", "no_statistics"}

PipesTypeOK ==
  /\ req_rx \in Seq(Request) /\ req_s1 \in Seq(Request)
  /\ dat_rx \in Seq(Dbid) /\ wdat_s1 \in Seq(Dbid)
  /\ stage \in Stage /\ fault \in Fault

PeersTypeOK ==
  /\ uif_wr \in [Dbid -> {"none", "req", "end_now", "end_next"}]
  /\ uif_rd \in [CmdId -> Nat] /\ rmw_sent \in BOOLEAN
  /\ sent \in 0 .. MaxReq /\ resent \in 0 .. MaxResend
  /\ retried \in [Kinds -> Nat] /\ grants \in Nat /\ up_beats \in [Dbid -> Nat]

TypeOK == BuffersTypeOK /\ P2cTypeOK /\ RetryTypeOK /\ PipesTypeOK /\ PeersTypeOK

(* The RetryAck queue never grows beyond its depth.  req_decode_s1 looks at the
   queue one cycle before the RetryAck is inserted, and inserts without looking
   again: this rests on at most one request being in between. *)
RetryAckBounded == Len(response_queues[RetryAckQ]) <= MaxRetryAck

(* A DBID is free, or it names a buffer, and then its write is in one place:
   in the TPW queue, at its head, or with the controller. *)
DbidsConserved ==
  \A d \in Dbid :
    /\ HasBuffer(d) <=> d \notin unallocated_dbid
    /\ HasBuffer(d) <=> d \in tpw_queue \/ head_entry = d \/ uif_wr[d] # "none"
    /\ d \in tpw_queue => head_entry # d /\ uif_wr[d] = "none"
    /\ head_entry = d => uif_wr[d] = "none"

(* How often x occurs in s. *)
Occurs(s, x) == Cardinality({i \in DOMAIN s : s[i] = x})

(* The beats a buffer waits for are exactly the beats still to come: asked for
   by a DBIDResp that has not left, not sent yet, or in the DAT pipeline.  So
   the uint16_t never wraps, no beat meets a buffer that is gone, and a DBID is
   not used again while beats of its previous write are under way. *)
BeatsConserved ==
  \A d \in Dbid :
    (IF HasBuffer(d) THEN beat_count[d] ELSE 0)
      = Occurs(response_queues[DbidQ], d) * (IF HasBuffer(d) THEN Beats(buffer_payload[d]) ELSE 1)
        + up_beats[d] + Occurs(dat_rx, d) + Occurs(wdat_s1, d)

(* No write with all its data is left behind: when the head is empty, no write
   of the TPW queue is ready.  Nothing polls the queue; the head is refilled
   only when a beat arrives or the head leaves. *)
NoReadyWriteStranded ==
  head_entry = NoHead => \A d \in tpw_queue : beat_count[d] # 0

(* A read tag is free exactly when no entry uses it: RdDataInfo keeps both and
   HasRequest tests the one, allocate_info_tag the other. *)
TagsConserved == \A t \in Tag : t \in unused_buffer_id <=> rdata_info_buffer[t] = "free"

(* No resource of the port is lost: neither DBIDs nor read tags. *)
IdsConserved == DbidsConserved /\ TagsConserved

(* An accepted write goes to the controller once and with all its data, and its
   DBID names another write only after that: the port, with its queues, its
   pipeline and the responses on their way, is an array of write buffers. *)
WriteOf == [d \in Dbid |-> IF HasBuffer(d) THEN buffer_payload[d] ELSE NoKind]
MissingBeats == [d \in Dbid |-> IF HasBuffer(d) THEN beat_count[d] ELSE 0]
IssuedWrites == {d \in Dbid : uif_wr[d] # "none"}
Writes == INSTANCE WriteBuffers WITH
            Request <- Kinds, NoRequest <- NoKind, Need <- [k \in Kinds |-> Beats(k)],
            write <- WriteOf, missing <- MissingBeats, issued <- IssuedWrites
WritesSpec == Writes!Spec

(* The counters of a matrix of classes and sources, as one function. *)
Cells(m) == [cs \in PortCmdType \X SrcId |-> m[cs[1]][cs[2]]]

(* Upstream gets one P-credit for every request that was retried, no more and
   no fewer: the RetryAcks it has not acted on are matched by the P-credits it
   has not used and the requests still in the matrix. *)
GrantsMatchRetries ==
  Len(response_queues[RetryAckQ]) + SumFunction(retried)
    = Len(response_queues[PcrdGrantQ]) + grants + SumFunction(Cells(retry_matrix))

(* What the program can be stopped by, and what must have come before it.  Fresh
   requests, however many, never exhaust what the port keeps for them: a write
   finds a DBID, a read a tag, the arbiter never pops an empty head or spends a
   TPW credit it does not have, and each beat finds its buffer; that takes a
   request sent again with its P-credit (req_decision_s2 looks at the buffers and
   the queues for fresh requests alone).  And the data of each read finds the
   entry of that read, until a read-modify-write went to the controller: its read
   comes back under a DBID and its parts have no statistics.  Left are an opcode
   the port does not know and a read-modify-write that finds no LPR credit
   (P2cFifo.cpp:24). *)
ExhaustionFault == {"no_buffer", "no_head", "tpw_credit", "no_tag", "no_dbid"}
RmwFault == {"no_entry", "no_statistics"}
StopsExplained ==
  /\ fault \in ExhaustionFault => resent > 0
  /\ fault \in RmwFault => rmw_sent

(* Every accepted write is carried out and its buffer freed. *)
WriteServed == \A d \in Dbid : HasBuffer(d) ~> ~HasBuffer(d)

(* Every accepted read leaves its queue. *)
ReadServed == /\ (hpr_queue # <<>>) ~> (hpr_queue = <<>>)
              /\ (lpr_queue # <<>>) ~> (lpr_queue = <<>>)
=============================================================================
