--------------------------- MODULE CHIPortProofs ---------------------------
(* Safety of the CHI port for every choice of the constants: any number of    *)
(* buffers, tags, requests, sources and QoS levels.                           *)
EXTENDS PortLemmas

(* The data beats of buffer d that upstream was asked for and that have not
   reached the buffer. *)
ToCome(d) == up_beats[d] + Occurs(dat_rx, d) + Occurs(wdat_s1, d)

(* A buffer's write is asked for all its data by one DBIDResp that has not
   left, or the buffer waits for the beats to come; without a buffer, neither
   a DBIDResp nor beats are on their way. *)
BeatsAccounted ==
  \A d \in Dbid :
    \/ ~HasBuffer(d) /\ Occurs(response_queues[DbidQ], d) = 0 /\ ToCome(d) = 0
    \/ /\ HasBuffer(d) /\ Occurs(response_queues[DbidQ], d) = 1 /\ ToCome(d) = 0
       /\ beat_count[d] = Beats(buffer_payload[d])
    \/ HasBuffer(d) /\ Occurs(response_queues[DbidQ], d) = 0 /\ beat_count[d] = ToCome(d)

(* A write at the head or with the controller has all its data. *)
WritesComplete ==
  \A d \in Dbid : head_entry = d \/ uif_wr[d] # "none" => beat_count[d] = 0

PayloadsKnown == \A d \in Dbid : HasBuffer(d) => buffer_payload[d] \in Kinds

(* The life of a write. *)
WriteInv ==
  /\ DbidsConserved
  /\ BeatsAccounted
  /\ WritesComplete
  /\ PayloadsKnown
  /\ NoReadyWriteStranded
  /\ fault # "no_buffer"

(* A request between the check of the RetryAck queue and its insertion keeps a
   place there, and there is at most one. *)
RetryAckReserved ==
  /\ Len(response_queues[RetryAckQ]) + Len(req_s1) <= MaxRetryAck
  /\ Len(req_s1) <= 1
  /\ stage \in {"resp_gen", "req_decode"} => req_s1 = <<>>

(* The inductive invariant. *)
PortInv ==
  /\ TypeOK
  /\ WriteInv
  /\ TagsConserved
  /\ RetryAckReserved

-----------------------------------------------------------------------------
(* Types *)

(* The retry manager changes when a request is retried and when a P-credit is
   granted. *)
LEMMA RetryTypeStep == TypeOK /\ [Next]_vars => RetryTypeOK'
<1> SUFFICES ASSUME TypeOK, [Next]_vars PROVE RetryTypeOK'
  OBVIOUS
<1>1. RetryTypeOK /\ BuffersTypeOK /\ P2cTypeOK /\ PipesTypeOK
  BY DEF TypeOK
<1>2. CASE UNCHANGED retryVars
  BY <1>1, <1>2 DEF RetryTypeOK, retryVars, arbitVars
<1>3. ASSUME NEW k \in Kinds, Retry(k) PROVE RetryTypeOK'
  <2>1. GetQosLevel(k) \in PortCmdType
    BY QosLevelIsClass
  <2>2. CASE k.src \in SrcId
    <3>1. retry_matrix[GetQosLevel(k)][k.src] \in Nat
      BY <1>1, <2>1, <2>2 DEF RetryTypeOK
    <3>2. retry_matrix' = [retry_matrix EXCEPT ![GetQosLevel(k)][k.src] = @ + 1]
      BY <1>3, <2>2 DEF Retry, cnt_inc
    <3>3. retry_matrix' \in [PortCmdType -> [SrcId -> Nat]]
      BY <1>1, <2>1, <2>2, <3>1, <3>2 DEF RetryTypeOK
    <3>4. QED
      BY <1>1, <1>3, <3>3 DEF RetryTypeOK, Retry, arbitVars
  <2>3. CASE k.src \notin SrcId
    BY <1>1, <1>3, <2>3 DEF RetryTypeOK, Retry, cnt_inc, arbitVars
  <2>4. QED
    BY <2>2, <2>3
<1>4. ASSUME is_need_to_send_pcrd_grant, GrantPcrd PROVE RetryTypeOK'
  <2> DEFINE c == SelectedCmdType
             s == SelectedSrcId(c)
  <2>1. c \in PortCmdType /\ has_retry_cmd(c) /\ (ExpiredWinner = "Invalid" => RoundRobinPos \in 0 .. 3)
    BY <1>1, <1>4, SelectedCmdTypeWaits
  <2>2. s \in SrcId /\ retry_matrix[c][s] \in Nat \ {0}
    BY <1>1, <2>1, SelectedSrcIdWaits
  <2>3. PoolOf(c) \in Pool
    BY <2>1 DEF PoolOf, Pool, PortCmdType
  <2>4. /\ UpdateArbiters
        /\ type_src_id_arbit_result' = [type_src_id_arbit_result EXCEPT ![c] = s]
        /\ retry_matrix' = [retry_matrix EXCEPT ![c][s] = @ - 1]
        /\ p_credit' = [p_credit EXCEPT ![PoolOf(c)] = @ + 1]
    BY <1>4 DEF GrantPcrd
  <2>5. /\ lpr_gpr_arbit_result' \in {0, 1} /\ tpw_gpw_arbit_result' \in {0, 1}
        /\ next_arbit_search_pos' \in -1 .. 3
    <3>1. CASE ExpiredWinner # "Invalid"
      BY <1>1, <2>4, <3>1 DEF UpdateArbiters, RetryTypeOK
    <3>2. CASE ExpiredWinner = "Invalid"
      <4>1. \A a, b, w, f : \A last \in {0, 1} : PairResult(a, b, w, f, last) \in {0, 1}
        BY DEF PairResult
      <4>2. QED
        BY <1>1, <2>1, <2>4, <3>2, <4>1 DEF UpdateArbiters, RetryTypeOK
    <3>3. QED
      BY <3>1, <3>2
  <2> HIDE DEF c, s
  <2>6. retry_matrix' \in [PortCmdType -> [SrcId -> Nat]]
    <3>1. retry_matrix[c][s] - 1 \in Nat
      BY <2>2
    <3>2. QED
      BY <1>1, <2>1, <2>2, <2>4, <3>1 DEF RetryTypeOK
  <2>7. p_credit' \in [Pool -> Nat]
    BY <1>1, <2>3, <2>4 DEF RetryTypeOK
  <2>8. type_src_id_arbit_result' \in [PortCmdType -> -1 .. SrcIdNum - 1]
    BY <1>1, <2>1, <2>2, <2>4, RetryAssumption DEF RetryTypeOK, SrcId
  <2>9. QED
    BY <2>5, <2>6, <2>7, <2>8 DEF RetryTypeOK
<1>5. CASE req_pop_s3
  BY <1>1, <1>2, <1>5, PopOutcome DEF OthersOfPop, P2cTypeOK
<1>6. CASE req_decision_s2
  <2>1. \/ UNCHANGED retryVars
        \/ \E k \in Kinds : Retry(k)
    BY <1>1, <1>6, DecisionOutcome DEF AcceptRead, AcceptWrite, PipesTypeOK
  <2>2. QED
    BY <1>2, <1>3, <2>1
<1>7. CASE resp_gen_pcrd
  BY <1>2, <1>4, <1>7 DEF resp_gen_pcrd
<1>8. CASE wdat_push_s2 \/ wdat_decode_s1 \/ req_decode_s1 \/ noc_clock_posedge \/ Controller \/ Upstream
           \/ UNCHANGED vars
  <2>1. UNCHANGED retryVars
    BY <1>8 DEF wdat_push_s2, wdat_decode_s1, req_decode_s1, noc_clock_posedge, Controller, Upstream,
      UifCredit, UifRdatEnd, UifRdatEndThrows, RmwStored, StopIdle, Stop, UifWdatReq, UifWdatEnd, UpSendReq,
      UpResend, UpSendBeat, vars
  <2>2. QED
    BY <1>2, <2>1
<1>9. QED
  BY <1>5, <1>6, <1>7, <1>8 DEF Next, dfi_clock_posedge
(* The queues and their arbiter. *)
LEMMA P2cTypeStep == TypeOK /\ [Next]_vars => P2cTypeOK'
<1> SUFFICES ASSUME TypeOK, [Next]_vars PROVE P2cTypeOK'
  OBVIOUS
<1>1. BuffersTypeOK /\ P2cTypeOK /\ PipesTypeOK
  BY DEF TypeOK
<1>a. /\ hpr_queue \in Seq(Kinds) /\ lpr_queue \in Seq(Kinds)
      /\ tpw_queue \in SUBSET Dbid /\ head_entry \in Dbid \union {NoHead}
      /\ credit_counter \in [Queue -> Nat]
      /\ aging \in [Queue -> 0 .. AgingNever]
      /\ pa_state \in {"IDLE", "RD", "WR"}
  BY <1>1 DEF P2cTypeOK
<1>2. CASE UNCHANGED p2cVars
  BY <1>1, <1>2 DEF P2cTypeOK, p2cVars
<1>3. ASSUME NEW bc, RefillHead(bc) PROVE tpw_queue' \subseteq Dbid /\ head_entry' \in Dbid \union {NoHead}
  <2>1. Move2Head(tpw_queue, bc) \in Dbid \union {NoHead}
    BY <1>a, Move2HeadPicks
  <2>2. QED
    BY <1>a, <1>3, <2>1 DEF RefillHead
<1>4. PortAgingInit \in 0 .. AgingNever
  BY P2cAssumption DEF AgingNever
<1>5. CASE wdat_push_s2
  <2>1. UNCHANGED <<hpr_queue, lpr_queue, credit_counter, pa_state>>
    BY <1>5 DEF wdat_push_s2
  <2>2. aging' \in [Queue -> 0 .. AgingNever]
    <3>1. \A q \in Queue : aging[q] \in 0 .. AgingNever
      BY <1>a
    <3>2. aging' = [q \in Queue |-> IF aging[q] \in 1 .. PortAgingInit THEN aging[q] - 1 ELSE aging[q]]
      BY <1>5 DEF wdat_push_s2, AgingTick
    <3>3. \A x \in 0 .. AgingNever : x \in 1 .. PortAgingInit => x - 1 \in 0 .. AgingNever
      BY P2cAssumption DEF AgingNever
    <3>4. QED
      BY <3>1, <3>2, <3>3
  <2>3. tpw_queue' \subseteq Dbid /\ head_entry' \in Dbid \union {NoHead}
    BY <1>a, <1>3, <1>5 DEF wdat_push_s2
  <2>4. QED
    BY <1>a, <2>1, <2>2, <2>3 DEF P2cTypeOK
<1>6. CASE req_pop_s3
  <2>1. pa_state' \in {"IDLE", "RD", "WR"}
    BY <1>a, <1>6, PopOutcome
  <2>2. ASSUME NEW q \in {"HPR", "LPR"}, Ready(q), PopRead(q) PROVE P2cTypeOK'
    <3>1. q \in Queue /\ credit_counter[q] \in Nat \ {0}
      BY <1>a, <2>2 DEF Queue, Ready, HasCredit
    <3>2. hpr_queue' \in Seq(Kinds) /\ lpr_queue' \in Seq(Kinds)
      <4>1. (q = "HPR" => hpr_queue # <<>>) /\ (q = "LPR" => lpr_queue # <<>>)
        BY <2>2 DEF Ready, HasRequest
      <4>2. (q = "HPR" => Tail(hpr_queue) \in Seq(Kinds)) /\ (q = "LPR" => Tail(lpr_queue) \in Seq(Kinds))
        BY <1>a, <4>1, HeadTailProperties
      <4>3. QED
        BY <1>a, <2>2, <4>2 DEF PopRead
    <3>3. credit_counter' \in [Queue -> Nat]
      <4>1. credit_counter[q] - 1 \in Nat
        BY <3>1
      <4>2. QED
        BY <1>a, <2>2, <3>1, <4>1 DEF PopRead
    <3>4. aging' \in [Queue -> 0 .. AgingNever]
      BY <1>a, <1>4, <2>2, <3>1 DEF PopRead, UpdateQueueAging
    <3>5. QED
      BY <1>a, <2>1, <2>2, <3>2, <3>3, <3>4 DEF P2cTypeOK, PopRead
  <2>3. ASSUME HasCredit("TPW"), IsRMWRequest => HasCredit("LPR"), PopWrite PROVE P2cTypeOK'
    <3>1. "TPW" \in Queue
      BY DEF Queue
    <3>2. credit_counter' \in [Queue -> Nat]
      <4>1. \A q \in Queue : q = "TPW" \/ (q = "LPR" /\ IsRMWRequest) => credit_counter[q] \in Nat \ {0}
        BY <1>a, <2>3 DEF HasCredit
      <4>2. \A q \in Queue : q = "TPW" \/ (q = "LPR" /\ IsRMWRequest) => credit_counter[q] - 1 \in Nat
        BY <4>1
      <4>3. \A q \in Queue : credit_counter[q] \in Nat
        BY <1>a
      <4>4. credit_counter' = [q \in Queue |-> IF q = "TPW" \/ (q = "LPR" /\ IsRMWRequest)
                                               THEN credit_counter[q] - 1 ELSE credit_counter[q]]
        BY <2>3 DEF PopWrite
      <4>5. QED
        BY <4>2, <4>3, <4>4
    <3>3. aging' \in [Queue -> 0 .. AgingNever]
      BY <1>a, <1>4, <2>3, <3>1 DEF PopWrite, UpdateQueueAging
    <3>4. tpw_queue' \subseteq Dbid /\ head_entry' \in Dbid \union {NoHead}
      <4>1. Move2Head(tpw_queue, beat_count) \in Dbid \union {NoHead}
        BY <1>a, Move2HeadPicks
      <4>2. QED
        BY <1>a, <2>3, <4>1 DEF PopWrite, PopHead
    <3>5. QED
      BY <1>a, <2>1, <2>3, <3>2, <3>3, <3>4 DEF P2cTypeOK, PopWrite
  <2>4. CASE UNCHANGED <<hpr_queue, lpr_queue, tpw_queue, head_entry, credit_counter, aging>>
    BY <1>a, <2>1, <2>4 DEF P2cTypeOK
  <2>5. QED
    BY <1>a, <1>6, <2>2, <2>3, <2>4, PopOutcome
<1>7. CASE req_decision_s2
  <2>1. ASSUME NEW k \in Kinds, AcceptRead(k) PROVE P2cTypeOK'
    <3>1. Append(hpr_queue, k) \in Seq(Kinds) /\ Append(lpr_queue, k) \in Seq(Kinds)
      BY <1>a, AppendProperties
    <3>2. QED
      BY <1>a, <2>1, <3>1 DEF AcceptRead, P2cTypeOK
  <2>2. ASSUME NEW k \in Kinds, AcceptWrite(k) PROVE P2cTypeOK'
    <3>1. CASE unallocated_dbid = {}
      BY <1>2, <2>2, <3>1 DEF AcceptWrite
    <3>2. CASE unallocated_dbid # {}
      <4>1. Min(unallocated_dbid) \in Dbid
        BY <1>1, <3>2, MinIsLeast, DbidNotNoHead DEF BuffersTypeOK
      <4>2. QED
        BY <1>a, <2>2, <3>2, <4>1 DEF AcceptWrite, P2cTypeOK
    <3>3. QED
      BY <3>1, <3>2
  <2>3. ASSUME NEW k \in Kinds, Retry(k) PROVE P2cTypeOK'
    BY <1>2, <2>3 DEF Retry
  <2>4. QED
    BY <1>1, <1>2, <1>7, <2>1, <2>2, <2>3, DecisionOutcome DEF PipesTypeOK
<1>8. ASSUME NEW S \in (SUBSET Queue) \ {{}}, UifCredit(S) PROVE P2cTypeOK'
  <2>1. \A q \in Queue : credit_counter[q] \in Nat
    BY <1>a
  <2>2. credit_counter' = [q \in Queue |-> IF q \in S THEN credit_counter[q] + 1 ELSE credit_counter[q]]
    BY <1>8 DEF UifCredit
  <2>3. credit_counter' \in [Queue -> Nat]
    BY <2>1, <2>2
  <2>4. QED
    BY <1>a, <1>8, <2>3 DEF UifCredit, P2cTypeOK
<1>9. CASE \/ wdat_decode_s1 \/ resp_gen_pcrd \/ req_decode_s1 \/ noc_clock_posedge \/ Upstream \/ UNCHANGED vars
           \/ \E i \in CmdId : UifRdatEnd(i) \/ UifRdatEndThrows(i)
           \/ \E d \in Dbid : UifWdatReq(d) \/ UifWdatEnd(d) \/ RmwStored(d)
  <2>1. UNCHANGED p2cVars
    BY <1>9 DEF wdat_decode_s1, resp_gen_pcrd, req_decode_s1, noc_clock_posedge, Upstream,
      UifRdatEnd, UifRdatEndThrows, RmwStored, StopIdle, Stop, UifWdatReq, UifWdatEnd, UpSendReq, UpResend,
      UpSendBeat, vars
  <2>2. QED
    BY <1>2, <2>1
<1>10. QED
  BY <1>5, <1>6, <1>7, <1>8, <1>9 DEF Next, dfi_clock_posedge, Controller

(* The pipeline registers and the link. *)
LEMMA PipesTypeStep == TypeOK /\ [Next]_vars => PipesTypeOK'
<1> SUFFICES ASSUME TypeOK, [Next]_vars PROVE PipesTypeOK'
  OBVIOUS
<1>1. BuffersTypeOK /\ P2cTypeOK /\ PipesTypeOK /\ PeersTypeOK
  BY DEF TypeOK
<1>a. /\ req_rx \in Seq(Request) /\ req_s1 \in Seq(Request)
      /\ dat_rx \in Seq(Dbid) /\ wdat_s1 \in Seq(Dbid)
      /\ stage \in Stage /\ fault \in Fault
  BY <1>1 DEF PipesTypeOK
<1>2. /\ req_rx # <<>> => Tail(req_rx) \in Seq(Request) /\ Head(req_rx) \in Request
      /\ req_s1 # <<>> => Tail(req_s1) \in Seq(Request)
      /\ dat_rx # <<>> => Tail(dat_rx) \in Seq(Dbid) /\ Head(dat_rx) \in Dbid
      /\ wdat_s1 # <<>> => Tail(wdat_s1) \in Seq(Dbid)
  BY <1>a, HeadTailProperties
<1>3. /\ \A d \in Dbid : Append(dat_rx, d) \in Seq(Dbid) /\ Append(wdat_s1, d) \in Seq(Dbid)
      /\ \A r \in Request : Append(req_rx, r) \in Seq(Request) /\ Append(req_s1, r) \in Seq(Request)
  BY <1>a, AppendProperties
<1>4. <<>> \in Seq(Request)
  BY EmptySeq
<1>5. CASE wdat_push_s2
  <2>1. UNCHANGED <<req_rx, dat_rx, req_s1>> /\ stage' = "wdat_decode"
    BY <1>5 DEF wdat_push_s2, Goto
  <2>2. wdat_s1' \in Seq(Dbid) /\ fault' \in Fault
    <3>1. CASE wdat_s1 = <<>>
      BY <1>5, <1>a, <3>1 DEF wdat_push_s2
    <3>2. CASE wdat_s1 # <<>>
      BY <1>5, <1>a, <1>2, <3>2 DEF wdat_push_s2, Fault
    <3>3. QED
      BY <3>1, <3>2
  <2>3. QED
    BY <1>a, <2>1, <2>2 DEF PipesTypeOK, Stage
<1>6. CASE wdat_decode_s1
  BY <1>6, <1>a, <1>2, <1>3 DEF wdat_decode_s1, Goto, PipesTypeOK, Stage
<1>7. CASE req_pop_s3
  <2>1. UNCHANGED pipeVars /\ stage' = "req_decision"
        /\ fault' \in {fault, "no_head", "tpw_credit", "lpr_credit", "no_tag"}
    BY <1>1, <1>7, PopOutcome DEF P2cTypeOK, OthersOfPop
  <2>2. QED
    BY <1>a, <2>1 DEF pipeVars, PipesTypeOK, Stage, Fault
<1>8. CASE req_decision_s2
  <2>1. fault' \in Fault
    BY <1>a, <1>8, DecisionOutcome DEF Retry, AcceptRead, AcceptWrite, Fault
  <2>2. req_s1' \in Seq(Request)
    BY <1>a, <1>2, <1>4, <1>8, DecisionOutcome
  <2>3. UNCHANGED <<req_rx, dat_rx, wdat_s1>> /\ stage' = "resp_gen"
    BY <1>a, <1>8, DecisionOutcome DEF OthersOfDecision
  <2>4. QED
    BY <1>a, <2>1, <2>2, <2>3 DEF PipesTypeOK, Stage
<1>9. CASE resp_gen_pcrd
  BY <1>9, <1>a DEF resp_gen_pcrd, Goto, pipeVars, PipesTypeOK, Stage
<1>10. CASE req_decode_s1
  BY <1>10, <1>a, <1>2, <1>3 DEF req_decode_s1, Goto, PipesTypeOK, Stage
<1>11. CASE noc_clock_posedge \/ Controller \/ UNCHANGED vars
  <2>1. UNCHANGED <<pipeVars, stage>> /\ fault' \in {fault, "no_entry", "no_statistics"}
    BY <1>11 DEF noc_clock_posedge, Controller, UifCredit, UifRdatEnd, UifRdatEndThrows, RmwStored, StopIdle,
      Stop, UifWdatReq, UifWdatEnd, Idle, vars
  <2>2. QED
    BY <1>a, <2>1 DEF pipeVars, PipesTypeOK, Fault
<1>12. ASSUME NEW k \in Kinds, UpSendReq(k) \/ UpResend(k) PROVE PipesTypeOK'
  <2>1. \A b \in BOOLEAN : [kind |-> k, allow_retry |-> b] \in Request
    BY DEF Request
  <2>2. TRUE \in BOOLEAN /\ FALSE \in BOOLEAN
    OBVIOUS
  <2>3. UNCHANGED <<dat_rx, req_s1, wdat_s1, stage, fault>>
    BY <1>12 DEF UpSendReq, UpResend, Idle
  <2>4. req_rx' \in Seq(Request)
    BY <1>12, <1>3, <2>1, <2>2 DEF UpSendReq, UpResend
  <2>5. QED
    BY <1>a, <2>3, <2>4 DEF PipesTypeOK
<1>13. ASSUME NEW d \in Dbid, UpSendBeat(d) PROVE PipesTypeOK'
  BY <1>13, <1>a, <1>3 DEF UpSendBeat, Idle, PipesTypeOK
<1>14. QED
  BY <1>5, <1>6, <1>7, <1>8, <1>9, <1>10, <1>11, <1>12, <1>13 DEF Next, dfi_clock_posedge, Upstream

(* The storage. *)
LEMMA InsertType ==
  ASSUME BuffersTypeOK, NEW q \in Rsp, NEW flit \in RspFlit(q), Insert(q, flit)
  PROVE  /\ response_queues' = [p \in Rsp |-> response_queues'[p]]
         /\ \A p \in Rsp : response_queues'[p] \in Seq(RspFlit(p))
         /\ response_queues'[q] = Append(response_queues[q], flit)
         /\ \A p \in Rsp \ {q} : response_queues'[p] = response_queues[p]
<1>1. /\ response_queues = [p \in Rsp |-> response_queues[p]]
      /\ \A p \in Rsp : response_queues[p] \in Seq(RspFlit(p))
  BY DEF BuffersTypeOK
<1>2. Append(response_queues[q], flit) \in Seq(RspFlit(q))
  BY <1>1, AppendProperties
<1>3. response_queues' = [response_queues EXCEPT ![q] = Append(response_queues[q], flit)]
  BY DEF Insert
<1>4. QED
  BY <1>1, <1>2, <1>3

LEMMA RspFlits ==
  /\ DbidQ \in Rsp /\ RetryAckQ \in Rsp /\ PcrdGrantQ \in Rsp /\ ReadReceiptQ \in Rsp /\ CompQ \in Rsp
  /\ RetryAckQ # DbidQ /\ PcrdGrantQ # DbidQ /\ ReadReceiptQ # DbidQ /\ CompQ # DbidQ
  /\ PcrdGrantQ # RetryAckQ /\ ReadReceiptQ # RetryAckQ /\ CompQ # RetryAckQ
  /\ DbidQ # PcrdGrantQ /\ ReadReceiptQ # PcrdGrantQ /\ CompQ # PcrdGrantQ
  /\ RspFlit(DbidQ) = Dbid /\ RspFlit(RetryAckQ) = Kinds /\ "PcrdGrant" \in RspFlit(PcrdGrantQ)
  /\ "ReadReceipt" \in RspFlit(ReadReceiptQ) /\ "Comp" \in RspFlit(CompQ)
BY DEF Rsp, RspFlit, DbidQ, RetryAckQ, PcrdGrantQ, ReadReceiptQ, CompQ

(* The parts of BuffersTypeOK. *)
BuffersArrayOK ==
  /\ unallocated_dbid \subseteq Dbid
  /\ beat_count \in [Dbid -> -1 .. MaxBeatCount]
  /\ buffer_payload \in [Dbid -> Kinds \union {NoKind}]

TagsTypeOK ==
  /\ unused_buffer_id \subseteq Tag
  /\ rdata_info_buffer \in [Tag -> {"free", "waiting", "ready"}]

ResponsesTypeOK ==
  /\ response_queues = [q \in Rsp |-> response_queues[q]]
  /\ \A q \in Rsp : response_queues[q] \in Seq(RspFlit(q))
  /\ winner_queue_index \in -1 .. 5

LEMMA BuffersParts == BuffersTypeOK <=> BuffersArrayOK /\ TagsTypeOK /\ ResponsesTypeOK
BY DEF BuffersTypeOK, BuffersArrayOK, TagsTypeOK, ResponsesTypeOK

LEMMA ArrayTypeStep == TypeOK /\ [Next]_vars => BuffersArrayOK'
<1> SUFFICES ASSUME TypeOK, [Next]_vars PROVE BuffersArrayOK'
  OBVIOUS
<1>1. BuffersTypeOK /\ P2cTypeOK /\ PipesTypeOK
  BY DEF TypeOK
<1>a. /\ unallocated_dbid \subseteq Dbid
      /\ beat_count \in [Dbid -> -1 .. MaxBeatCount]
      /\ buffer_payload \in [Dbid -> Kinds \union {NoKind}]
  BY <1>1 DEF BuffersTypeOK
<1>b. MaxBeatCount \in Nat \ {0}
  BY DEF MaxBeatCount
<1>2. CASE UNCHANGED bufferVars
  BY <1>a, <1>2 DEF BuffersArrayOK, bufferVars
<1>3. CASE wdat_push_s2
  <2>1. CASE wdat_s1 = <<>>
    BY <1>2, <1>3, <2>1 DEF wdat_push_s2
  <2>2. CASE wdat_s1 # <<>>
    <3> DEFINE d == Head(wdat_s1)
    <3>1. d \in Dbid
      BY <1>1, <2>2, HeadTailProperties DEF PipesTypeOK
    <3>2. CASE ~HasBuffer(d)
      BY <1>2, <1>3, <2>2, <3>2 DEF wdat_push_s2
    <3>3. CASE HasBuffer(d)
      <4> DEFINE left == (beat_count[d] + MaxBeatCount) % (MaxBeatCount + 1)
      <4>1. beat_count[d] \in -1 .. MaxBeatCount
        BY <1>a, <3>1
      <4>2. \A m \in Nat : \A x \in Int : x % (m + 1) \in 0 .. m
        OBVIOUS
      <4>3. beat_count[d] + MaxBeatCount \in Int
        BY <1>a, <1>b, <4>1
      <4>4. left \in 0 .. MaxBeatCount
        BY <1>a, <1>b, <4>2, <4>3
      <4>5. beat_count' = [beat_count EXCEPT ![d] = left] /\ UNCHANGED <<unallocated_dbid, buffer_payload>>
        BY <1>3, <2>2, <3>3 DEF wdat_push_s2, receive_wdata_flit
      <4> HIDE DEF left
      <4>6. left \in -1 .. MaxBeatCount
        BY <1>a, <1>b, <4>4
      <4>7. QED
        BY <1>a, <3>1, <4>5, <4>6 DEF BuffersArrayOK
    <3>4. QED
      BY <3>2, <3>3
  <2>3. QED
    BY <2>1, <2>2
<1>4. CASE req_decision_s2
  <2>1. ASSUME NEW k \in Kinds, AcceptWrite(k), unallocated_dbid # {} PROVE BuffersArrayOK'
    <3> DEFINE d == Min(unallocated_dbid)
    <3>1. d \in Dbid
      BY <1>a, <2>1, MinIsLeast, DbidNotNoHead
    <3>2. Beats(k) \in -1 .. MaxBeatCount
      BY <1>a, <1>b, BeatsBound
    <3>3. /\ unallocated_dbid' = unallocated_dbid \ {d}
          /\ beat_count' = [beat_count EXCEPT ![d] = Beats(k)]
          /\ buffer_payload' = [buffer_payload EXCEPT ![d] = k]
      BY <2>1 DEF AcceptWrite, allocate_dbid
    <3> HIDE DEF d
    <3>4. QED
      BY <1>a, <3>1, <3>2, <3>3 DEF BuffersArrayOK
  <2>2. QED
    BY <1>1, <1>2, <1>4, <2>1, DecisionOutcome DEF PipesTypeOK, Retry, AcceptRead, AcceptWrite
<1>5. ASSUME NEW d \in Dbid, UifWdatEnd(d) PROVE BuffersArrayOK'
  <2>1. NoEntry \in -1 .. MaxBeatCount
    BY <1>b DEF NoEntry
  <2>2. QED
    BY <1>a, <1>5, <2>1 DEF UifWdatEnd, release_dbid, BuffersArrayOK
<1>6. CASE req_pop_s3
  BY <1>1, <1>2, <1>6, PopOutcome DEF P2cTypeOK, OthersOfPop
<1>7. CASE \/ wdat_decode_s1 \/ resp_gen_pcrd \/ req_decode_s1 \/ noc_clock_posedge \/ Upstream \/ UNCHANGED vars
           \/ \E S \in (SUBSET Queue) \ {{}} : UifCredit(S)
           \/ \E i \in CmdId : UifRdatEnd(i) \/ UifRdatEndThrows(i)
           \/ \E d \in Dbid : UifWdatReq(d) \/ RmwStored(d)
  <2>1. UNCHANGED bufferVars
    BY <1>7 DEF wdat_decode_s1, resp_gen_pcrd, req_decode_s1, noc_clock_posedge, Upstream,
      UifCredit, UifRdatEnd, UifRdatEndThrows, RmwStored, StopIdle, Stop, UifWdatReq, UpSendReq, UpResend,
      UpSendBeat, vars
  <2>2. QED
    BY <1>2, <2>1
<1>8. QED
  BY <1>3, <1>4, <1>5, <1>6, <1>7 DEF Next, dfi_clock_posedge, Controller

LEMMA TagsTypeStep == TypeOK /\ [Next]_vars => TagsTypeOK'
<1> SUFFICES ASSUME TypeOK, [Next]_vars PROVE TagsTypeOK'
  OBVIOUS
<1>1. BuffersTypeOK /\ P2cTypeOK /\ PipesTypeOK
  BY DEF TypeOK
<1>a. unused_buffer_id \subseteq Tag /\ rdata_info_buffer \in [Tag -> {"free", "waiting", "ready"}]
  BY <1>1 DEF BuffersTypeOK
<1>2. CASE UNCHANGED infoVars
  BY <1>a, <1>2 DEF TagsTypeOK, infoVars
<1>3. CASE req_pop_s3
  <2>1. ASSUME unused_buffer_id # {}, allocate_info_tag PROVE TagsTypeOK'
    <3>1. Min(unused_buffer_id) \in Tag
      <4>1. unused_buffer_id \in SUBSET Nat
        BY <1>a, BuffersAssumption DEF Tag
      <4>2. QED
        BY <1>a, <2>1, <4>1, MinIsLeast
    <3>2. QED
      BY <1>a, <2>1, <3>1 DEF allocate_info_tag, TagsTypeOK
  <2>2. QED
    BY <1>1, <1>2, <1>3, <2>1, PopOutcome DEF P2cTypeOK, PopRead, PopWrite, rdVars
<1>4. CASE noc_clock_posedge
  BY <1>a, <1>2, <1>4 DEF noc_clock_posedge, rdat_arbit_s1, erase_entry, rdVars, TagsTypeOK
<1>5. ASSUME NEW i \in CmdId, UifRdatEnd(i) PROVE TagsTypeOK'
  BY <1>a, <1>5 DEF UifRdatEnd, HasEntry, set_entry_data_ready, TagsTypeOK
<1>6. CASE req_decision_s2
  BY <1>1, <1>2, <1>6, DecisionOutcome DEF PipesTypeOK, OthersOfDecision, rdVars
<1>7. CASE \/ wdat_push_s2 \/ wdat_decode_s1 \/ resp_gen_pcrd \/ req_decode_s1 \/ Upstream \/ UNCHANGED vars
           \/ \E S \in (SUBSET Queue) \ {{}} : UifCredit(S)
           \/ \E i \in CmdId : UifRdatEndThrows(i)
           \/ \E d \in Dbid : UifWdatReq(d) \/ UifWdatEnd(d) \/ RmwStored(d)
  <2>1. UNCHANGED infoVars
    BY <1>7 DEF wdat_push_s2, wdat_decode_s1, resp_gen_pcrd, req_decode_s1, Upstream,
      UifCredit, UifRdatEndThrows, RmwStored, StopIdle, Stop, UifWdatReq, UifWdatEnd, UpSendReq, UpResend,
      UpSendBeat, rdVars, vars
  <2>2. QED
    BY <1>2, <2>1
<1>8. QED
  BY <1>3, <1>4, <1>5, <1>6, <1>7 DEF Next, dfi_clock_posedge, Controller

LEMMA ResponsesTypeStep == TypeOK /\ [Next]_vars => ResponsesTypeOK'
<1> SUFFICES ASSUME TypeOK, [Next]_vars PROVE ResponsesTypeOK'
  OBVIOUS
<1>1. BuffersTypeOK /\ P2cTypeOK /\ PipesTypeOK /\ ResponsesTypeOK
  BY BuffersParts DEF TypeOK
<1>2. CASE UNCHANGED rspVars
  BY <1>1, <1>2 DEF ResponsesTypeOK, rspVars
<1>3. ASSUME NEW q \in Rsp, NEW flit \in RspFlit(q), Insert(q, flit), UNCHANGED winner_queue_index
      PROVE  ResponsesTypeOK'
  BY <1>1, <1>3, InsertType DEF ResponsesTypeOK
<1>4. CASE req_pop_s3
  <2>1. UNCHANGED winner_queue_index
    BY <1>1, <1>4, PopOutcome DEF P2cTypeOK, OthersOfPop
  <2>2. \/ UNCHANGED response_queues
        \/ Insert(ReadReceiptQ, "ReadReceipt")
        \/ Insert(CompQ, "Comp")
    BY <1>1, <1>4, PopOutcome DEF P2cTypeOK, PopRead, PopWrite, rspVars
  <2>3. QED
    BY <1>2, <1>3, <2>1, <2>2, RspFlits DEF rspVars
<1>5. CASE req_decision_s2
  <2>1. UNCHANGED winner_queue_index
    BY <1>1, <1>5, DecisionOutcome DEF PipesTypeOK, OthersOfDecision
  <2>2. \/ UNCHANGED response_queues
        \/ \E k \in Kinds : Insert(RetryAckQ, k)
        \/ unallocated_dbid # {} /\ Insert(DbidQ, Min(unallocated_dbid))
    BY <1>1, <1>5, DecisionOutcome DEF PipesTypeOK, Retry, AcceptRead, AcceptWrite
  <2>3. unallocated_dbid # {} => Min(unallocated_dbid) \in Dbid
    BY <1>1, MinIsLeast, DbidNotNoHead DEF BuffersTypeOK
  <2>4. QED
    BY <1>2, <1>3, <2>1, <2>2, <2>3, RspFlits DEF rspVars
<1>6. CASE resp_gen_pcrd
  BY <1>2, <1>3, <1>6, RspFlits DEF resp_gen_pcrd, rspVars
<1>7. CASE noc_clock_posedge
  <2>1. CASE ~HasRspPending
    BY <1>2, <1>7, <2>1 DEF noc_clock_posedge, resp_arbit_s1
  <2>2. CASE HasRspPending
    <3>1. Arbiter \in Rsp /\ response_queues[Arbiter] # <<>>
      BY <1>1, <2>2, ArbiterPicks DEF ResponsesTypeOK
    <3>2. /\ winner_queue_index' = Arbiter
          /\ response_queues' = [response_queues EXCEPT ![Arbiter] = Tail(response_queues[Arbiter])]
      BY <1>7, <2>2 DEF noc_clock_posedge, resp_arbit_s1
    <3>3. Tail(response_queues[Arbiter]) \in Seq(RspFlit(Arbiter))
      BY <1>1, <3>1, HeadTailProperties DEF ResponsesTypeOK
    <3>4. winner_queue_index' \in -1 .. 5
      BY <3>1, <3>2 DEF Rsp
    <3>5. QED
      BY <1>1, <3>1, <3>2, <3>3, <3>4 DEF ResponsesTypeOK
  <2>3. QED
    BY <2>1, <2>2
<1>8. CASE wdat_push_s2 \/ wdat_decode_s1 \/ req_decode_s1 \/ Controller \/ Upstream \/ UNCHANGED vars
  <2>1. UNCHANGED rspVars
    BY <1>8 DEF wdat_push_s2, wdat_decode_s1, req_decode_s1, Controller, Upstream,
      UifCredit, UifRdatEnd, UifRdatEndThrows, RmwStored, StopIdle, Stop, UifWdatReq, UifWdatEnd, UpSendReq,
      UpResend, UpSendBeat, vars
  <2>2. QED
    BY <1>2, <2>1
<1>9. QED
  BY <1>4, <1>5, <1>6, <1>7, <1>8 DEF Next, dfi_clock_posedge

-----------------------------------------------------------------------------
(* RetryAcks and read tags *)

LEMMA RetryAckStep == TypeOK /\ RetryAckReserved /\ [Next]_vars => RetryAckReserved'
<1> SUFFICES ASSUME TypeOK, RetryAckReserved, [Next]_vars PROVE RetryAckReserved'
  OBVIOUS
<1>1. BuffersTypeOK /\ P2cTypeOK /\ PipesTypeOK /\ ResponsesTypeOK
  BY BuffersParts DEF TypeOK
<1>a. /\ req_s1 \in Seq(Request) /\ Len(req_s1) \in Nat
      /\ response_queues[RetryAckQ] \in Seq(Kinds) /\ Len(response_queues[RetryAckQ]) \in Nat
      /\ MaxRetryAck \in Nat
  BY <1>1, RspFlits, LenProperties, BuffersAssumption DEF PipesTypeOK, ResponsesTypeOK
<1>b. /\ Len(response_queues[RetryAckQ]) + Len(req_s1) <= MaxRetryAck
      /\ Len(req_s1) <= 1
      /\ stage \in {"resp_gen", "req_decode"} => req_s1 = <<>>
  BY DEF RetryAckReserved
<1>2. ASSUME NEW q \in Rsp \ {RetryAckQ}, NEW flit \in RspFlit(q), Insert(q, flit)
      PROVE  response_queues'[RetryAckQ] = response_queues[RetryAckQ]
  BY <1>1, <1>2, InsertType, RspFlits
<1>3. CASE req_pop_s3
  <2>1. UNCHANGED req_s1 /\ stage' = "req_decision"
    BY <1>1, <1>3, PopOutcome DEF P2cTypeOK, OthersOfPop, pipeVars
  <2>2. \/ UNCHANGED response_queues
        \/ Insert(ReadReceiptQ, "ReadReceipt")
        \/ Insert(CompQ, "Comp")
    BY <1>1, <1>3, PopOutcome DEF P2cTypeOK, PopRead, PopWrite, rspVars
  <2>3. response_queues'[RetryAckQ] = response_queues[RetryAckQ]
    BY <1>2, <2>2, RspFlits
  <2>4. QED
    BY <1>b, <2>1, <2>3 DEF RetryAckReserved
<1>4. CASE req_decision_s2
  <2>1. stage' = "resp_gen" /\ req_s1' = IF req_s1 = <<>> THEN <<>> ELSE Tail(req_s1)
    BY <1>a, <1>4, DecisionOutcome
  <2>2. req_s1 # <<>> => Len(req_s1) = 1
    <3>1. req_s1 # <<>> => Len(req_s1) \in Nat \ {0}
      BY <1>a, EmptySeq
    <3>2. QED
      BY <1>b, <3>1
  <2>3. req_s1' = <<>> /\ Len(req_s1') = 0
    <3>1. req_s1 # <<>> => Tail(req_s1) = <<>>
      <4>1. req_s1 # <<>> => Tail(req_s1) \in Seq(Request) /\ Len(Tail(req_s1)) = 0
        BY <1>a, <2>2, HeadTailProperties
      <4>2. QED
        BY <4>1, EmptySeq
    <3>2. QED
      BY <2>1, <3>1, EmptySeq
  <2>4. CASE req_s1 # <<>> /\ \E k \in Kinds : Insert(RetryAckQ, k)
    <3>1. PICK k \in Kinds : Insert(RetryAckQ, k)
      BY <2>4
    <3>2. response_queues'[RetryAckQ] = Append(response_queues[RetryAckQ], k)
      BY <1>1, <3>1, InsertType, RspFlits
    <3>3. Len(response_queues'[RetryAckQ]) = Len(response_queues[RetryAckQ]) + 1
      BY <1>a, <3>2, AppendProperties
    <3>4. QED
      BY <1>a, <1>b, <2>1, <2>2, <2>3, <2>4, <3>3 DEF RetryAckReserved
  <2>5. CASE response_queues'[RetryAckQ] = response_queues[RetryAckQ]
    <3>1. Len(response_queues'[RetryAckQ]) = Len(response_queues[RetryAckQ])
      BY <2>5
    <3>2. Len(response_queues[RetryAckQ]) <= MaxRetryAck
      BY <1>a, <1>b
    <3>3. QED
      BY <1>a, <2>3, <3>1, <3>2 DEF RetryAckReserved
  <2>6. \/ UNCHANGED response_queues
        \/ req_s1 # <<>> /\ \E k \in Kinds : Insert(RetryAckQ, k)
        \/ unallocated_dbid # {} /\ Insert(DbidQ, Min(unallocated_dbid))
    BY <1>1, <1>4, DecisionOutcome DEF PipesTypeOK, Retry, AcceptRead, AcceptWrite
  <2>7. unallocated_dbid # {} => Min(unallocated_dbid) \in Dbid
    BY <1>1, MinIsLeast, DbidNotNoHead DEF BuffersTypeOK
  <2>8. QED
    BY <1>2, <2>4, <2>5, <2>6, <2>7, RspFlits
<1>5. CASE resp_gen_pcrd
  <2>1. UNCHANGED req_s1 /\ stage = "resp_gen" /\ stage' = "req_decode"
    BY <1>5 DEF resp_gen_pcrd, Goto, pipeVars
  <2>2. response_queues'[RetryAckQ] = response_queues[RetryAckQ]
    BY <1>2, <1>5, RspFlits DEF resp_gen_pcrd
  <2>3. QED
    BY <1>b, <2>1, <2>2 DEF RetryAckReserved
<1>6. CASE req_decode_s1
  <2>1. stage = "req_decode" /\ stage' = "idle" /\ UNCHANGED response_queues /\ req_s1 = <<>>
    BY <1>6, <1>b DEF req_decode_s1, Goto, rspVars
  <2>2. CASE UNCHANGED req_s1
    BY <1>b, <2>1, <2>2 DEF RetryAckReserved
  <2>3. CASE req_rx # <<>> /\ ~IsRetryAckFull /\ req_s1' = Append(req_s1, Head(req_rx))
    <3>1. Len(req_s1') = Len(req_s1) + 1
      BY <1>1, <1>a, <2>3, HeadTailProperties, AppendProperties DEF PipesTypeOK
    <3>2. Len(req_s1) = 0
      BY <2>1, EmptySeq
    <3>3. Len(response_queues[RetryAckQ]) < MaxRetryAck
      BY <1>a, <2>3 DEF IsRetryAckFull
    <3>4. QED
      BY <1>a, <2>1, <3>1, <3>2, <3>3 DEF RetryAckReserved
  <2>4. QED
    BY <1>6, <2>2, <2>3 DEF req_decode_s1
<1>7. CASE noc_clock_posedge
  <2>1. UNCHANGED <<req_s1, stage>>
    BY <1>7 DEF noc_clock_posedge, Idle, pipeVars
  <2>2. Len(response_queues'[RetryAckQ]) <= Len(response_queues[RetryAckQ])
        /\ Len(response_queues'[RetryAckQ]) \in Nat
    <3>1. CASE ~HasRspPending
      BY <1>a, <1>7, <3>1 DEF noc_clock_posedge, resp_arbit_s1, rspVars
    <3>2. CASE HasRspPending
      <4>1. Arbiter \in Rsp /\ response_queues[Arbiter] # <<>>
        BY <1>1, <3>2, ArbiterPicks DEF ResponsesTypeOK
      <4>2. response_queues' = [response_queues EXCEPT ![Arbiter] = Tail(response_queues[Arbiter])]
        BY <1>7, <3>2 DEF noc_clock_posedge, resp_arbit_s1
      <4>3. response_queues'[RetryAckQ] \in {response_queues[RetryAckQ], Tail(response_queues[RetryAckQ])}
            /\ (response_queues[RetryAckQ] = <<>> => response_queues'[RetryAckQ] = response_queues[RetryAckQ])
        BY <1>1, <4>1, <4>2, RspFlits DEF ResponsesTypeOK
      <4>4. response_queues[RetryAckQ] # <<>> =>
              Len(Tail(response_queues[RetryAckQ])) = Len(response_queues[RetryAckQ]) - 1
              /\ Len(response_queues[RetryAckQ]) \in Nat \ {0}
        BY <1>a, HeadTailProperties, EmptySeq
      <4>5. QED
        BY <1>a, <4>3, <4>4
    <3>3. QED
      BY <3>1, <3>2
  <2>3. QED
    BY <1>a, <1>b, <2>1, <2>2 DEF RetryAckReserved
<1>8. CASE wdat_push_s2 \/ wdat_decode_s1 \/ Controller \/ Upstream \/ UNCHANGED vars
  <2>1. UNCHANGED <<response_queues, req_s1>> /\ (stage' = stage \/ stage' \in {"wdat_decode", "req_pop"})
    BY <1>8 DEF wdat_push_s2, wdat_decode_s1, Controller, Upstream, Goto, Idle, pipeVars, rspVars,
      UifCredit, UifRdatEnd, UifRdatEndThrows, RmwStored, StopIdle, Stop, UifWdatReq, UifWdatEnd, UpSendReq,
      UpResend, UpSendBeat, vars
  <2>2. QED
    BY <1>b, <2>1 DEF RetryAckReserved
<1>9. QED
  BY <1>3, <1>4, <1>5, <1>6, <1>7, <1>8 DEF Next, dfi_clock_posedge

LEMMA TagsStep == TypeOK /\ TagsConserved /\ [Next]_vars => TagsConserved'
<1> SUFFICES ASSUME TypeOK, TagsConserved, [Next]_vars PROVE TagsConserved'
  OBVIOUS
<1>1. BuffersTypeOK /\ P2cTypeOK /\ PipesTypeOK
  BY DEF TypeOK
<1>a. /\ unused_buffer_id \subseteq Tag /\ rdata_info_buffer \in [Tag -> {"free", "waiting", "ready"}]
      /\ \A t \in Tag : t \in unused_buffer_id <=> rdata_info_buffer[t] = "free"
  BY <1>1 DEF BuffersTypeOK, TagsConserved
<1>2. CASE UNCHANGED infoVars
  BY <1>2, <1>a DEF TagsConserved, infoVars
<1>3. CASE req_pop_s3
  <2>1. ASSUME allocate_info_tag PROVE TagsConserved'
    BY <1>a, <2>1 DEF allocate_info_tag, TagsConserved
  <2>2. QED
    BY <1>1, <1>2, <1>3, <2>1, PopOutcome DEF P2cTypeOK, PopRead, PopWrite, rdVars
<1>4. CASE noc_clock_posedge
  BY <1>a, <1>2, <1>4 DEF noc_clock_posedge, rdat_arbit_s1, erase_entry, rdVars, TagsConserved
<1>5. ASSUME NEW i \in CmdId, UifRdatEnd(i) PROVE TagsConserved'
  BY <1>a, <1>5 DEF UifRdatEnd, HasEntry, set_entry_data_ready, TagsConserved
<1>6. CASE req_decision_s2
  BY <1>1, <1>2, <1>6, DecisionOutcome DEF PipesTypeOK, OthersOfDecision, rdVars
<1>7. CASE \/ wdat_push_s2 \/ wdat_decode_s1 \/ resp_gen_pcrd \/ req_decode_s1 \/ Upstream \/ UNCHANGED vars
           \/ \E S \in (SUBSET Queue) \ {{}} : UifCredit(S)
           \/ \E i \in CmdId : UifRdatEndThrows(i)
           \/ \E d \in Dbid : UifWdatReq(d) \/ UifWdatEnd(d) \/ RmwStored(d)
  <2>1. UNCHANGED infoVars
    BY <1>7 DEF wdat_push_s2, wdat_decode_s1, resp_gen_pcrd, req_decode_s1, Upstream,
      UifCredit, UifRdatEndThrows, RmwStored, StopIdle, Stop, UifWdatReq, UifWdatEnd, UpSendReq, UpResend,
      UpSendBeat, rdVars, vars
  <2>2. QED
    BY <1>2, <2>1
<1>8. QED
  BY <1>3, <1>4, <1>5, <1>6, <1>7 DEF Next, dfi_clock_posedge, Controller

-----------------------------------------------------------------------------
(* The life of a write *)

(* What a write is made of. *)
writeVars == <<bufferVars, tpw_queue, head_entry, uif_wr, response_queues[DbidQ],
               up_beats, dat_rx, wdat_s1>>

LEMMA WriteUnchanged ==
  ASSUME WriteInv, UNCHANGED writeVars, fault' # "no_buffer"
  PROVE  WriteInv'
BY DEF WriteInv, DbidsConserved, BeatsAccounted, WritesComplete, PayloadsKnown, NoReadyWriteStranded,
  ToCome, HasBuffer, writeVars, bufferVars

LEMMA WriteTypes ==
  ASSUME TypeOK
  PROVE  /\ BuffersArrayOK /\ ResponsesTypeOK /\ P2cTypeOK /\ PipesTypeOK /\ PeersTypeOK
         /\ tpw_queue \in SUBSET Dbid
         /\ response_queues[DbidQ] \in Seq(Dbid)
         /\ \A d \in Dbid : /\ beat_count[d] \in -1 .. MaxBeatCount
                            /\ up_beats[d] \in Nat
                            /\ Occurs(response_queues[DbidQ], d) \in Nat
                            /\ Occurs(dat_rx, d) \in Nat
                            /\ Occurs(wdat_s1, d) \in Nat
                            /\ ToCome(d) \in Nat
<1>1. /\ BuffersArrayOK /\ ResponsesTypeOK /\ P2cTypeOK /\ PipesTypeOK /\ PeersTypeOK
      /\ tpw_queue \in SUBSET Dbid
  BY BuffersParts DEF TypeOK, P2cTypeOK
<1>2. response_queues[DbidQ] \in Seq(Dbid) /\ dat_rx \in Seq(Dbid) /\ wdat_s1 \in Seq(Dbid)
  BY <1>1, RspFlits DEF ResponsesTypeOK, PipesTypeOK
<1>3. \A d \in Dbid : beat_count[d] \in -1 .. MaxBeatCount /\ up_beats[d] \in Nat
  BY <1>1 DEF BuffersArrayOK, PeersTypeOK
<1>4. \A d \in Dbid : /\ Occurs(response_queues[DbidQ], d) \in Nat
                      /\ Occurs(dat_rx, d) \in Nat
                      /\ Occurs(wdat_s1, d) \in Nat
  BY <1>2, OccursFinite
<1>5. QED
  BY <1>1, <1>2, <1>3, <1>4 DEF ToCome

(* A beat arrives at its buffer. *)
LEMMA WritePush == TypeOK /\ WriteInv /\ wdat_push_s2 => WriteInv'
<1> SUFFICES ASSUME TypeOK, WriteInv, wdat_push_s2 PROVE WriteInv'
  OBVIOUS
<1>1. /\ BuffersArrayOK /\ P2cTypeOK /\ PipesTypeOK /\ PeersTypeOK /\ tpw_queue \in SUBSET Dbid
      /\ \A d \in Dbid : /\ beat_count[d] \in -1 .. MaxBeatCount
                         /\ up_beats[d] \in Nat
                         /\ Occurs(dat_rx, d) \in Nat
                         /\ Occurs(wdat_s1, d) \in Nat
                         /\ ToCome(d) \in Nat
  BY WriteTypes
<1>2. DbidsConserved /\ BeatsAccounted /\ WritesComplete /\ PayloadsKnown /\ NoReadyWriteStranded
      /\ fault = "none"
  BY DEF WriteInv, wdat_push_s2, Goto
<1>3. UNCHANGED <<response_queues, up_beats, dat_rx, unallocated_dbid, buffer_payload>>
  BY DEF wdat_push_s2, bufferVars, rspVars, upVars
<1>4. \A d \in Dbid : uif_wr'[d] = "none" <=> uif_wr[d] = "none"
  BY DEF wdat_push_s2
<1>5. CASE wdat_s1 = <<>>
  <2>1. UNCHANGED <<beat_count, tpw_queue, head_entry, wdat_s1, fault>>
    BY <1>5 DEF wdat_push_s2, bufferVars
  <2>2. QED
    BY <1>2, <1>3, <1>4, <2>1 DEF WriteInv, DbidsConserved, BeatsAccounted, WritesComplete, PayloadsKnown,
      NoReadyWriteStranded, ToCome, HasBuffer
<1>6. CASE wdat_s1 # <<>>
  <2> DEFINE d == Head(wdat_s1)
  <2>1. d \in Dbid
    BY <1>1, <1>6, HeadTailProperties DEF PipesTypeOK
  <2>2. \A e \in Dbid : Occurs(wdat_s1, e) = Occurs(Tail(wdat_s1), e) + (IF d = e THEN 1 ELSE 0)
    BY <1>1, <1>6, OccursTail DEF PipesTypeOK
  <2>3. \A e \in Dbid : Occurs(Tail(wdat_s1), e) \in Nat
    <3>1. Tail(wdat_s1) \in Seq(Dbid)
      BY <1>1, <1>6, HeadTailProperties DEF PipesTypeOK
    <3>2. QED
      BY <3>1, OccursFinite
  <2>4. ToCome(d) \in Nat \ {0}
    BY <1>1, <2>1, <2>2, <2>3 DEF ToCome
  <2>5. HasBuffer(d) /\ Occurs(response_queues[DbidQ], d) = 0 /\ beat_count[d] = ToCome(d)
    BY <1>2, <2>1, <2>4 DEF BeatsAccounted
  <2> HIDE DEF d
  <2>6. beat_count[d] \in 1 .. MaxBeatCount
    BY <1>1, <2>1, <2>4, <2>5
  <2> DEFINE bc == [beat_count EXCEPT ![d] = beat_count[d] - 1]
  <2>7. receive_wdata_flit(d) = bc
    <3>1. \A m \in Nat : \A x \in 1 .. m : (x + m) % (m + 1) = x - 1
      OBVIOUS
    <3>2. MaxBeatCount \in Nat
      BY DEF MaxBeatCount
    <3>3. (beat_count[d] + MaxBeatCount) % (MaxBeatCount + 1) = beat_count[d] - 1
      BY <2>6, <3>1, <3>2
    <3>4. QED
      BY <3>3 DEF receive_wdata_flit
  <2>8. /\ beat_count' = bc /\ RefillHead(bc) /\ wdat_s1' = Tail(wdat_s1) /\ fault' = fault
    BY <1>6, <2>5, <2>7 DEF wdat_push_s2, d
  <2>9. /\ \A e \in Dbid : bc[e] = IF e = d THEN beat_count[d] - 1 ELSE beat_count[e]
        /\ bc[d] # NoEntry
    BY <1>1, <2>1, <2>6 DEF BuffersArrayOK, NoEntry
  <2>10. \A e \in Dbid : HasBuffer(e)' <=> HasBuffer(e)
    BY <2>5, <2>8, <2>9 DEF HasBuffer
  <2>11. \A e \in Dbid : ToCome(e)' = ToCome(e) - (IF e = d THEN 1 ELSE 0)
    <3>1. \A e \in Dbid : Occurs(wdat_s1', e) = Occurs(Tail(wdat_s1), e)
      BY <2>8
    <3>2. QED
      BY <1>1, <1>3, <2>2, <2>3, <3>1 DEF ToCome
  <2>12. BeatsAccounted'
    <3> SUFFICES ASSUME NEW e \in Dbid
                 PROVE  \/ ~HasBuffer(e)' /\ Occurs(response_queues[DbidQ]', e) = 0 /\ ToCome(e)' = 0
                        \/ /\ HasBuffer(e)' /\ Occurs(response_queues[DbidQ]', e) = 1 /\ ToCome(e)' = 0
                           /\ beat_count'[e] = Beats(buffer_payload[e])'
                        \/ /\ HasBuffer(e)' /\ Occurs(response_queues[DbidQ]', e) = 0
                           /\ beat_count'[e] = ToCome(e)'
      BY DEF BeatsAccounted
    <3>1. Occurs(response_queues[DbidQ]', e) = Occurs(response_queues[DbidQ], e)
          /\ Beats(buffer_payload[e])' = Beats(buffer_payload[e])
      BY <1>3
    <3>2. CASE e = d
      BY <1>1, <2>1, <2>5, <2>8, <2>9, <2>10, <2>11, <3>1, <3>2
    <3>3. CASE e # d
      BY <1>1, <1>2, <2>8, <2>9, <2>10, <2>11, <3>1, <3>3 DEF BeatsAccounted
    <3>4. QED
      BY <3>2, <3>3
  <2>13. /\ head_entry # d /\ uif_wr[d] = "none"
    BY <1>2, <2>1, <2>6 DEF WritesComplete
  <2>14. CASE head_entry = NoHead /\ HasEntryReady(bc)
    <3> DEFINE h == Move2Head(tpw_queue, bc)
    <3>1. head_entry' = h /\ tpw_queue' = tpw_queue \ {h}
      BY <2>8, <2>14 DEF RefillHead
    <3>2. \/ h \in tpw_queue /\ bc[h] = 0
          \/ h = NoHead /\ \A e \in tpw_queue : bc[e] # 0
      BY <1>1, Move2HeadPicks
    <3>3. \A e \in Dbid : e # NoHead
      BY DbidNotNoHead
    <3> HIDE DEF h, bc
    <3>4. DbidsConserved'
      BY <1>1, <1>2, <1>3, <1>4, <2>10, <2>14, <3>1, <3>2, <3>3 DEF DbidsConserved
    <3>5. WritesComplete'
      <4>1. ASSUME NEW e \in Dbid, head_entry' = e \/ uif_wr'[e] # "none" PROVE beat_count'[e] = 0
        <5>1. CASE head_entry' = e
          BY <2>8, <3>1, <3>2, <3>3, <5>1
        <5>2. CASE uif_wr'[e] # "none"
          <6>1. uif_wr[e] # "none" /\ e # d
            BY <1>4, <2>13, <5>2
          <6>2. QED
            BY <1>2, <2>8, <2>9, <6>1 DEF WritesComplete
        <5>3. QED
          BY <4>1, <5>1, <5>2
      <4>2. QED
        BY <4>1 DEF WritesComplete
    <3>6. NoReadyWriteStranded'
      BY <1>1, <2>8, <3>1, <3>2, <3>3 DEF NoReadyWriteStranded
    <3>7. QED
      BY <1>2, <1>3, <2>8, <2>10, <2>12, <3>4, <3>5, <3>6 DEF WriteInv, PayloadsKnown
  <2>15. CASE ~(head_entry = NoHead /\ HasEntryReady(bc))
    <3>1. UNCHANGED <<tpw_queue, head_entry>>
      BY <2>8, <2>15 DEF RefillHead
    <3>2. DbidsConserved'
      BY <1>2, <1>3, <1>4, <2>10, <3>1 DEF DbidsConserved
    <3>3. WritesComplete'
      BY <1>2, <1>4, <2>8, <2>9, <2>13, <3>1 DEF WritesComplete
    <3>4. NoReadyWriteStranded'
      <4>1. head_entry = NoHead => \A e \in Dbid : bc[e] # 0
        BY <2>15 DEF HasEntryReady
      <4>2. QED
        BY <1>1, <2>8, <3>1, <4>1 DEF NoReadyWriteStranded
    <3>5. QED
      BY <1>2, <1>3, <2>8, <2>10, <2>12, <3>2, <3>3, <3>4 DEF WriteInv, PayloadsKnown
  <2>16. QED
    BY <2>14, <2>15
<1>7. QED
  BY <1>5, <1>6

(* Steps that move a beat towards its buffer: what is to come stays the same. *)
LEMMA WriteBeatsMove ==
  ASSUME WriteInv, UNCHANGED <<bufferVars, tpw_queue, head_entry, uif_wr, response_queues[DbidQ], fault>>,
         \A d \in Dbid : ToCome(d)' = ToCome(d)
  PROVE  WriteInv'
<1>1. DbidsConserved' /\ WritesComplete' /\ PayloadsKnown' /\ NoReadyWriteStranded' /\ fault' # "no_buffer"
  BY DEF WriteInv, DbidsConserved, WritesComplete, PayloadsKnown, NoReadyWriteStranded, HasBuffer, bufferVars
<1>2. BeatsAccounted'
  <2>1. \A d \in Dbid : HasBuffer(d)' = HasBuffer(d) /\ beat_count'[d] = beat_count[d]
                        /\ Beats(buffer_payload[d])' = Beats(buffer_payload[d])
                        /\ Occurs(response_queues[DbidQ]', d) = Occurs(response_queues[DbidQ], d)
    BY DEF HasBuffer, bufferVars
  <2>2. QED
    BY <2>1 DEF WriteInv, BeatsAccounted
<1>3. QED
  BY <1>1, <1>2 DEF WriteInv

LEMMA WriteDecode == TypeOK /\ WriteInv /\ wdat_decode_s1 => WriteInv'
<1> SUFFICES ASSUME TypeOK, WriteInv, wdat_decode_s1 PROVE WriteInv'
  OBVIOUS
<1>1. PipesTypeOK /\ \A d \in Dbid : /\ up_beats[d] \in Nat
                                     /\ Occurs(dat_rx, d) \in Nat
                                     /\ Occurs(wdat_s1, d) \in Nat
  BY WriteTypes
<1>2. UNCHANGED <<bufferVars, tpw_queue, head_entry, uif_wr, response_queues[DbidQ], fault>>
      /\ UNCHANGED up_beats
  BY DEF wdat_decode_s1, p2cVars, rspVars, upVars
<1>3. CASE dat_rx = <<>>
  <2>1. \A d \in Dbid : ToCome(d)' = ToCome(d)
    BY <1>2, <1>3 DEF wdat_decode_s1, ToCome
  <2>2. QED
    BY <1>2, <2>1, WriteBeatsMove
<1>4. CASE dat_rx # <<>>
  <2> DEFINE b == Head(dat_rx)
  <2>1. b \in Dbid /\ Tail(dat_rx) \in Seq(Dbid) /\ wdat_s1 \in Seq(Dbid) /\ dat_rx \in Seq(Dbid)
    BY <1>1, <1>4, HeadTailProperties DEF PipesTypeOK
  <2>2. wdat_s1' = Append(wdat_s1, b) /\ dat_rx' = Tail(dat_rx)
    BY <1>4 DEF wdat_decode_s1
  <2>3. \A d \in Dbid : /\ Occurs(Append(wdat_s1, b), d) = Occurs(wdat_s1, d) + (IF b = d THEN 1 ELSE 0)
                        /\ Occurs(dat_rx, d) = Occurs(Tail(dat_rx), d) + (IF b = d THEN 1 ELSE 0)
                        /\ Occurs(Tail(dat_rx), d) \in Nat
    <3>1. \A d \in Dbid : Occurs(Append(wdat_s1, b), d) = Occurs(wdat_s1, d) + (IF b = d THEN 1 ELSE 0)
      BY <2>1, OccursAppend
    <3>2. \A d \in Dbid : Occurs(dat_rx, d) = Occurs(Tail(dat_rx), d) + (IF b = d THEN 1 ELSE 0)
      BY <1>4, <2>1, OccursTail
    <3>3. \A d \in Dbid : Occurs(Tail(dat_rx), d) \in Nat
      BY <2>1, OccursFinite
    <3>4. QED
      BY <3>1, <3>2, <3>3
  <2>4. \A d \in Dbid : Occurs(wdat_s1', d) = Occurs(Append(wdat_s1, b), d)
                        /\ Occurs(dat_rx', d) = Occurs(Tail(dat_rx), d)
    BY <2>2
  <2> HIDE DEF b
  <2>5. \A d \in Dbid : ToCome(d)' = ToCome(d)
    BY <1>1, <1>2, <2>3, <2>4 DEF ToCome
  <2>6. QED
    BY <1>2, <2>5, WriteBeatsMove
<1>5. QED
  BY <1>3, <1>4

(* Upstream sends a beat. *)
LEMMA WriteSendBeat == \A d \in Dbid : TypeOK /\ WriteInv /\ UpSendBeat(d) => WriteInv'
<1> SUFFICES ASSUME NEW b \in Dbid, TypeOK, WriteInv, UpSendBeat(b) PROVE WriteInv'
  OBVIOUS
<1>1. /\ PipesTypeOK /\ PeersTypeOK
      /\ \A d \in Dbid : /\ up_beats[d] \in Nat
                         /\ Occurs(dat_rx, d) \in Nat
                         /\ Occurs(wdat_s1, d) \in Nat
  BY WriteTypes
<1>2. /\ UNCHANGED <<bufferVars, tpw_queue, head_entry, uif_wr, response_queues[DbidQ], fault>>
      /\ UNCHANGED wdat_s1
  BY DEF UpSendBeat, Idle, p2cVars, rspVars
<1>3. dat_rx \in Seq(Dbid)
  BY <1>1 DEF PipesTypeOK
<1>4. up_beats' = [up_beats EXCEPT ![b] = @ - 1] /\ dat_rx' = Append(dat_rx, b)
  BY DEF UpSendBeat
<1>5. \A d \in Dbid : Occurs(Append(dat_rx, b), d) = Occurs(dat_rx, d) + (IF b = d THEN 1 ELSE 0)
  BY <1>3, OccursAppend
<1>6. \A d \in Dbid : up_beats'[d] = IF b = d THEN up_beats[d] - 1 ELSE up_beats[d]
  BY <1>1, <1>4 DEF PeersTypeOK
<1>7. \A d \in Dbid : Occurs(dat_rx', d) = Occurs(Append(dat_rx, b), d)
                      /\ Occurs(wdat_s1', d) = Occurs(wdat_s1, d)
  BY <1>2, <1>4
<1>8. \A d \in Dbid : ToCome(d)' = ToCome(d)
  BY <1>1, <1>5, <1>6, <1>7 DEF ToCome
<1>9. QED
  BY <1>2, <1>8, WriteBeatsMove

(* The head leaves for the controller, and the next write moves up. *)
LEMMA WritePop == TypeOK /\ WriteInv /\ req_pop_s3 => WriteInv'
<1> SUFFICES ASSUME TypeOK, WriteInv, req_pop_s3 PROVE WriteInv'
  OBVIOUS
<1>1. /\ ResponsesTypeOK /\ BuffersTypeOK /\ P2cTypeOK /\ PeersTypeOK /\ tpw_queue \in SUBSET Dbid
      /\ pa_state \in {"IDLE", "RD", "WR"} /\ head_entry \in Dbid \union {NoHead}
  BY WriteTypes DEF TypeOK, P2cTypeOK
<1>2. DbidsConserved /\ BeatsAccounted /\ WritesComplete /\ PayloadsKnown /\ NoReadyWriteStranded
      /\ fault = "none"
  BY DEF WriteInv, req_pop_s3, Goto
<1>3. fault' # "no_buffer"
  BY <1>1, <1>2, PopOutcome
<1>4. UNCHANGED <<bufferVars, up_beats, dat_rx, wdat_s1>>
  BY <1>1, PopOutcome DEF OthersOfPop, upVars, pipeVars
<1>5. ASSUME NEW q \in {ReadReceiptQ, CompQ}, NEW flit \in RspFlit(q), Insert(q, flit)
      PROVE  response_queues'[DbidQ] = response_queues[DbidQ]
  BY <1>1, <1>5, InsertType, RspFlits
<1>6. ASSUME NEW q \in {"HPR", "LPR"}, PopRead(q) PROVE WriteInv'
  <2>1. response_queues'[DbidQ] = response_queues[DbidQ]
    BY <1>5, <1>6, RspFlits DEF PopRead
  <2>2. UNCHANGED <<tpw_queue, head_entry, uif_wr>>
    BY <1>6 DEF PopRead
  <2>3. QED
    BY <1>3, <1>4, <2>1, <2>2, WriteUnchanged DEF writeVars
<1>7. ASSUME head_entry # NoHead, PopWrite PROVE WriteInv'
  <2> DEFINE h == Move2Head(tpw_queue, beat_count)
  <2>1. response_queues'[DbidQ] = response_queues[DbidQ]
    BY <1>5, <1>7, RspFlits DEF PopWrite
  <2>2. head_entry' = h /\ tpw_queue' = tpw_queue \ {h} /\ uif_wr' = [uif_wr EXCEPT ![head_entry] = "req"]
    BY <1>7 DEF PopWrite, PopHead
  <2>3. \/ h \in tpw_queue /\ beat_count[h] = 0
        \/ h = NoHead /\ \A e \in tpw_queue : beat_count[e] # 0
    BY <1>1, Move2HeadPicks
  <2>4. head_entry \in Dbid /\ \A e \in Dbid : e # NoHead
    BY <1>1, <1>7, DbidNotNoHead
  <2>5. \A e \in Dbid : uif_wr'[e] = IF e = head_entry THEN "req" ELSE uif_wr[e]
    BY <1>1, <2>2, <2>4 DEF PeersTypeOK
  <2> HIDE DEF h
  <2>6. \A e \in Dbid : HasBuffer(e)' <=> HasBuffer(e)
    BY <1>4 DEF HasBuffer, bufferVars
  <2>7. UNCHANGED <<unallocated_dbid, beat_count, buffer_payload>>
    BY <1>4 DEF bufferVars
  <2>8. DbidsConserved'
    BY <1>1, <1>2, <2>2, <2>3, <2>4, <2>5, <2>6, <2>7 DEF DbidsConserved
  <2>9. WritesComplete'
    BY <1>2, <2>2, <2>3, <2>4, <2>5, <2>7 DEF WritesComplete
  <2>10. NoReadyWriteStranded'
    BY <1>1, <2>2, <2>3, <2>4, <2>7 DEF NoReadyWriteStranded
  <2>11. BeatsAccounted' /\ PayloadsKnown'
    BY <1>2, <1>4, <2>1, <2>7 DEF BeatsAccounted, PayloadsKnown, ToCome, HasBuffer
  <2>12. QED
    BY <1>3, <2>8, <2>9, <2>10, <2>11 DEF WriteInv
<1>8. CASE UNCHANGED <<rspVars, tpw_queue, head_entry, uif_wr>>
  BY <1>3, <1>4, <1>8, WriteUnchanged DEF writeVars, rspVars
<1>9. QED
  BY <1>1, <1>6, <1>7, <1>8, PopOutcome

(* A write is accepted: it takes the lowest free DBID. *)
LEMMA WriteAccepted ==
  ASSUME TypeOK, WriteInv, NEW k \in Kinds, AcceptWrite(k), unallocated_dbid # {},
         UNCHANGED <<uif_wr, up_beats, dat_rx, wdat_s1>>
  PROVE  WriteInv'
<1>0. PICK d : d = Min(unallocated_dbid)
  OBVIOUS
<1>1. /\ BuffersArrayOK /\ BuffersTypeOK /\ tpw_queue \in SUBSET Dbid
      /\ response_queues[DbidQ] \in Seq(Dbid)
      /\ \A e \in Dbid : /\ Occurs(response_queues[DbidQ], e) \in Nat
                         /\ ToCome(e) \in Nat
  BY WriteTypes DEF TypeOK
<1>2. DbidsConserved /\ BeatsAccounted /\ WritesComplete /\ PayloadsKnown /\ NoReadyWriteStranded
      /\ fault # "no_buffer"
  BY DEF WriteInv
<1>3. d \in Dbid /\ d \in unallocated_dbid
  BY <1>0, <1>1, MinIsLeast, DbidNotNoHead DEF BuffersArrayOK
<1>4. /\ unallocated_dbid' = unallocated_dbid \ {d}
      /\ beat_count' = [beat_count EXCEPT ![d] = Beats(k)]
      /\ buffer_payload' = [buffer_payload EXCEPT ![d] = k]
      /\ Insert(DbidQ, d)
      /\ tpw_queue' = tpw_queue \union {d}
      /\ head_entry' = head_entry /\ fault' = fault
  BY <1>0 DEF AcceptWrite, allocate_dbid
<1>5. response_queues'[DbidQ] = Append(response_queues[DbidQ], d)
  BY <1>1, <1>3, <1>4, InsertType, RspFlits
<1>6. \A e \in Dbid : Occurs(response_queues'[DbidQ], e)
                        = Occurs(response_queues[DbidQ], e) + (IF d = e THEN 1 ELSE 0)
  <2>1. \A e \in Dbid : Occurs(Append(response_queues[DbidQ], d), e)
                          = Occurs(response_queues[DbidQ], e) + (IF d = e THEN 1 ELSE 0)
    BY <1>1, <1>3, OccursAppend
  <2>2. QED
    BY <1>5, <2>1
<1>7. ~HasBuffer(d) /\ d \notin tpw_queue /\ head_entry # d /\ uif_wr[d] = "none"
  BY <1>2, <1>3 DEF DbidsConserved
<1>8. Occurs(response_queues[DbidQ], d) = 0 /\ ToCome(d) = 0
  BY <1>2, <1>3, <1>7 DEF BeatsAccounted
<1>9. Beats(k) # 0 /\ Beats(k) # NoEntry
  <2>1. Beats(k) \in 1 .. MaxBeatCount /\ MaxBeatCount \in Nat
    <3>1. MaxBeatCount \in Nat
      BY DEF MaxBeatCount
    <3>2. QED
      BY <3>1, BeatsBound
  <2>2. QED
    BY <2>1 DEF NoEntry
<1>10. \A e \in Dbid : /\ beat_count'[e] = IF e = d THEN Beats(k) ELSE beat_count[e]
                       /\ buffer_payload'[e] = IF e = d THEN k ELSE buffer_payload[e]
  BY <1>1, <1>3, <1>4 DEF BuffersArrayOK
<1>11. \A e \in Dbid : HasBuffer(e)' <=> e = d \/ HasBuffer(e)
  BY <1>9, <1>10 DEF HasBuffer
<1>12. \A e \in Dbid : ToCome(e)' = ToCome(e)
  BY DEF ToCome
<1>13. DbidsConserved'
  BY <1>2, <1>4, <1>7, <1>11 DEF DbidsConserved
<1>14. BeatsAccounted'
  <2>1. \A e \in Dbid \ {d} : Occurs(response_queues[DbidQ]', e) = Occurs(response_queues[DbidQ], e)
    BY <1>1, <1>6
  <2>2. Occurs(response_queues[DbidQ]', d) = 1
    BY <1>3, <1>6, <1>8
  <2>3. \A e \in Dbid \ {d} : Beats(buffer_payload[e])' = Beats(buffer_payload[e])
    BY <1>10
  <2>4. Beats(buffer_payload[d])' = Beats(k)
    BY <1>3, <1>10
  <2>5. \A e \in Dbid \ {d} : (HasBuffer(e)' <=> HasBuffer(e)) /\ beat_count'[e] = beat_count[e]
    BY <1>10, <1>11
  <2>6. HasBuffer(d)' /\ beat_count'[d] = Beats(k) /\ ToCome(d)' = 0
    BY <1>3, <1>8, <1>10, <1>11, <1>12
  <2>7. QED
    BY <1>2, <1>12, <2>1, <2>2, <2>3, <2>4, <2>5, <2>6 DEF BeatsAccounted
<1>15. WritesComplete'
  BY <1>2, <1>4, <1>7, <1>10 DEF WritesComplete
<1>16. PayloadsKnown'
  BY <1>2, <1>10, <1>11 DEF PayloadsKnown
<1>17. NoReadyWriteStranded'
  <2>1. \A e \in tpw_queue' : e = d \/ e \in tpw_queue
    BY <1>4
  <2>2. \A e \in tpw_queue' : e \in Dbid
    BY <1>1, <1>3, <2>1
  <2>3. head_entry' = NoHead => \A e \in tpw_queue' : beat_count'[e] # 0
    BY <1>2, <1>4, <1>9, <1>10, <2>1, <2>2 DEF NoReadyWriteStranded
  <2>4. QED
    BY <2>3 DEF NoReadyWriteStranded
<1>18. QED
  BY <1>2, <1>4, <1>13, <1>14, <1>15, <1>16, <1>17 DEF WriteInv

LEMMA WriteDecision == TypeOK /\ WriteInv /\ req_decision_s2 => WriteInv'
<1> SUFFICES ASSUME TypeOK, WriteInv, req_decision_s2 PROVE WriteInv'
  OBVIOUS
<1>1. BuffersTypeOK /\ req_s1 \in Seq(Request)
  BY DEF TypeOK, PipesTypeOK
<1>2. UNCHANGED <<uif_wr, up_beats, dat_rx, wdat_s1>>
  BY <1>1, DecisionOutcome DEF OthersOfDecision, upVars
<1>3. fault # "no_buffer"
  BY DEF WriteInv
<1>4. CASE UNCHANGED <<bufferVars, response_queues, p2cVars, retryVars>> /\ fault' \in {fault, "opcode"}
  BY <1>2, <1>3, <1>4, WriteUnchanged DEF writeVars, p2cVars
<1>5. ASSUME NEW k \in Kinds, Retry(k) PROVE WriteInv'
  <2>1. response_queues'[DbidQ] = response_queues[DbidQ]
    BY <1>1, <1>5, InsertType, RspFlits DEF Retry
  <2>2. QED
    BY <1>2, <1>3, <1>5, <2>1, WriteUnchanged DEF Retry, writeVars, p2cVars
<1>6. ASSUME NEW k \in Kinds, AcceptRead(k) PROVE WriteInv'
  BY <1>2, <1>3, <1>6, WriteUnchanged DEF AcceptRead, writeVars
<1>7. ASSUME NEW k \in Kinds, AcceptWrite(k) PROVE WriteInv'
  <2>1. CASE unallocated_dbid = {}
    BY <1>2, <1>3, <1>7, <2>1, WriteUnchanged DEF AcceptWrite, writeVars, p2cVars
  <2>2. QED
    BY <1>2, <1>7, <2>1, WriteAccepted
<1>8. QED
  BY <1>1, <1>4, <1>5, <1>6, <1>7, DecisionOutcome

(* A DBIDResp leaves: its beats are now for upstream to send. *)
LEMMA WriteResponse == TypeOK /\ WriteInv /\ noc_clock_posedge => WriteInv' /\ up_beats' \in [Dbid -> Nat]
<1> SUFFICES ASSUME TypeOK, WriteInv, noc_clock_posedge PROVE WriteInv' /\ up_beats' \in [Dbid -> Nat]
  OBVIOUS
<1>1. /\ ResponsesTypeOK /\ PeersTypeOK
      /\ response_queues[DbidQ] \in Seq(Dbid)
      /\ \A d \in Dbid : /\ up_beats[d] \in Nat
                         /\ Occurs(response_queues[DbidQ], d) \in Nat
                         /\ Occurs(dat_rx, d) \in Nat
                         /\ Occurs(wdat_s1, d) \in Nat
                         /\ ToCome(d) \in Nat
  BY WriteTypes
<1>2. UNCHANGED <<bufferVars, tpw_queue, head_entry, uif_wr, dat_rx, wdat_s1>> /\ fault' # "no_buffer"
  BY DEF noc_clock_posedge, Idle, p2cVars, pipeVars, WriteInv
<1>3. CASE ~HasRspPending \/ Arbiter # DbidQ
  <2>1. UNCHANGED up_beats
    BY <1>3 DEF noc_clock_posedge, resp_arbit_s1
  <2>2. response_queues'[DbidQ] = response_queues[DbidQ]
    <3>1. CASE ~HasRspPending
      BY <3>1 DEF noc_clock_posedge, resp_arbit_s1, rspVars
    <3>2. CASE HasRspPending
      <4>1. Arbiter \in Rsp
        BY <1>1, <3>2, ArbiterPicks DEF ResponsesTypeOK
      <4>2. response_queues' = [response_queues EXCEPT ![Arbiter] = Tail(response_queues[Arbiter])]
        BY <3>2 DEF noc_clock_posedge, resp_arbit_s1
      <4>3. QED
        BY <1>1, <1>3, <3>2, <4>1, <4>2, RspFlits DEF ResponsesTypeOK
    <3>3. QED
      BY <3>1, <3>2
  <2>3. up_beats' \in [Dbid -> Nat]
    BY <1>1, <2>1 DEF PeersTypeOK
  <2>4. QED
    BY <1>2, <2>1, <2>2, <2>3, WriteUnchanged DEF writeVars
<1>4. CASE HasRspPending /\ Arbiter = DbidQ
  <2>0. PICK d : d = Head(response_queues[DbidQ])
    OBVIOUS
  <2>1. response_queues[DbidQ] # <<>>
    BY <1>1, <1>4, ArbiterPicks DEF ResponsesTypeOK
  <2>2. d \in Dbid /\ Tail(response_queues[DbidQ]) \in Seq(Dbid)
    BY <1>1, <2>0, <2>1, HeadTailProperties
  <2>3. /\ response_queues' = [response_queues EXCEPT ![DbidQ] = Tail(response_queues[DbidQ])]
        /\ up_beats' = [up_beats EXCEPT ![d] = Beats(buffer_payload[d])]
    BY <1>4, <2>0 DEF noc_clock_posedge, resp_arbit_s1
  <2>4. response_queues'[DbidQ] = Tail(response_queues[DbidQ])
    BY <1>1, <2>3, RspFlits DEF ResponsesTypeOK
  <2>5. \A e \in Dbid : /\ Occurs(response_queues[DbidQ], e)
                             = Occurs(Tail(response_queues[DbidQ]), e) + (IF d = e THEN 1 ELSE 0)
                        /\ Occurs(Tail(response_queues[DbidQ]), e) \in Nat
    <3>1. \A e \in Dbid : Occurs(response_queues[DbidQ], e)
                             = Occurs(Tail(response_queues[DbidQ]), e) + (IF d = e THEN 1 ELSE 0)
      BY <1>1, <2>0, <2>1, OccursTail
    <3>2. \A e \in Dbid : Occurs(Tail(response_queues[DbidQ]), e) \in Nat
      BY <2>2, OccursFinite
    <3>3. QED
      BY <3>1, <3>2
  <2>6. \A e \in Dbid : Occurs(response_queues'[DbidQ], e) = Occurs(Tail(response_queues[DbidQ]), e)
    BY <2>4
  <2>7. Occurs(response_queues[DbidQ], d) \in Nat \ {0}
    BY <2>2, <2>5
  <2>8. /\ HasBuffer(d) /\ Occurs(response_queues[DbidQ], d) = 1 /\ ToCome(d) = 0
        /\ beat_count[d] = Beats(buffer_payload[d])
    BY <2>2, <2>7 DEF WriteInv, BeatsAccounted
  <2>9. Beats(buffer_payload[d]) \in Nat
    <3>1. buffer_payload[d] \in Kinds
      BY <2>2, <2>8 DEF WriteInv, PayloadsKnown
    <3>2. Beats(buffer_payload[d]) \in 1 .. MaxBeatCount
      BY <3>1, BeatsBound
    <3>3. MaxBeatCount \in Nat
      BY DEF MaxBeatCount
    <3>4. QED
      BY <3>2, <3>3
  <2>10. up_beats' \in [Dbid -> Nat]
    BY <1>1, <2>2, <2>3, <2>9 DEF PeersTypeOK
  <2>11. \A e \in Dbid : up_beats'[e] = IF e = d THEN Beats(buffer_payload[d]) ELSE up_beats[e]
    BY <1>1, <2>2, <2>3 DEF PeersTypeOK
  <2>12. \A e \in Dbid : Occurs(dat_rx', e) = Occurs(dat_rx, e) /\ Occurs(wdat_s1', e) = Occurs(wdat_s1, e)
    BY <1>2
  <2>13. \A e \in Dbid \ {d} : ToCome(e)' = ToCome(e)
    BY <2>11, <2>12 DEF ToCome
  <2>14. ToCome(d)' = Beats(buffer_payload[d])
    <3>1. Occurs(dat_rx, d) = 0 /\ Occurs(wdat_s1, d) = 0
      BY <1>1, <2>2, <2>8 DEF ToCome
    <3>2. ToCome(d)' = up_beats'[d] + Occurs(dat_rx', d) + Occurs(wdat_s1', d)
      BY DEF ToCome
    <3>3. up_beats'[d] = Beats(buffer_payload[d]) /\ Occurs(dat_rx', d) = 0 /\ Occurs(wdat_s1', d) = 0
      BY <2>2, <2>11, <2>12, <3>1
    <3>4. QED
      BY <2>9, <3>2, <3>3
  <2>15. BeatsAccounted'
    <3>1. \A e \in Dbid : (HasBuffer(e)' <=> HasBuffer(e)) /\ beat_count'[e] = beat_count[e]
                          /\ Beats(buffer_payload[e])' = Beats(buffer_payload[e])
      BY <1>2 DEF HasBuffer, bufferVars
    <3>2. \A e \in Dbid \ {d} : Occurs(response_queues[DbidQ]', e) = Occurs(response_queues[DbidQ], e)
      BY <1>1, <2>5, <2>6
    <3>3. Occurs(response_queues[DbidQ]', d) = 0
      BY <2>2, <2>5, <2>6, <2>8
    <3>4. BeatsAccounted
      BY DEF WriteInv
    <3>5. QED
      BY <2>2, <2>8, <2>13, <2>14, <3>1, <3>2, <3>3, <3>4 DEF BeatsAccounted
  <2>16. DbidsConserved' /\ WritesComplete' /\ PayloadsKnown' /\ NoReadyWriteStranded'
    BY <1>2 DEF WriteInv, DbidsConserved, WritesComplete, PayloadsKnown, NoReadyWriteStranded,
      HasBuffer, bufferVars
  <2>17. QED
    BY <1>2, <2>10, <2>15, <2>16 DEF WriteInv
<1>5. QED
  BY <1>3, <1>4

(* The controller asks for the data of a write. *)
LEMMA WriteRequested == \A d \in Dbid : TypeOK /\ WriteInv /\ UifWdatReq(d) => WriteInv'
<1> SUFFICES ASSUME NEW d \in Dbid, TypeOK, WriteInv, UifWdatReq(d) PROVE WriteInv'
  OBVIOUS
<1>1. PeersTypeOK
  BY DEF TypeOK
<1>2. UNCHANGED <<bufferVars, tpw_queue, head_entry, response_queues, up_beats, dat_rx, wdat_s1>>
      /\ fault' # "no_buffer"
  BY DEF UifWdatReq, Idle, p2cVars, rspVars, pipeVars, upVars, WriteInv
<1>3. \A e \in Dbid : uif_wr'[e] = "none" <=> uif_wr[e] = "none"
  BY <1>1 DEF UifWdatReq, PeersTypeOK
<1>4. QED
  BY <1>2, <1>3 DEF WriteInv, DbidsConserved, BeatsAccounted, WritesComplete, PayloadsKnown,
    NoReadyWriteStranded, ToCome, HasBuffer, bufferVars

(* The controller has the data: the buffer is freed. *)
LEMMA WriteReleased == \A d \in Dbid : TypeOK /\ WriteInv /\ UifWdatEnd(d) => WriteInv'
<1> SUFFICES ASSUME NEW d \in Dbid, TypeOK, WriteInv, UifWdatEnd(d) PROVE WriteInv'
  OBVIOUS
<1>1. BuffersArrayOK /\ PeersTypeOK /\ tpw_queue \in SUBSET Dbid
  BY WriteTypes
<1>2. DbidsConserved /\ BeatsAccounted /\ WritesComplete /\ PayloadsKnown /\ NoReadyWriteStranded
      /\ fault # "no_buffer"
  BY DEF WriteInv
<1>3. UNCHANGED <<tpw_queue, head_entry, response_queues, up_beats, dat_rx, wdat_s1, fault>>
  BY DEF UifWdatEnd, Idle, p2cVars, rspVars, pipeVars, upVars
<1>4. /\ unallocated_dbid' = unallocated_dbid \union {d}
      /\ \A e \in Dbid : /\ beat_count'[e] = IF e = d THEN NoEntry ELSE beat_count[e]
                         /\ buffer_payload'[e] = IF e = d THEN NoKind ELSE buffer_payload[e]
                         /\ uif_wr'[e] = IF e = d THEN "none" ELSE uif_wr[e]
  BY <1>1 DEF UifWdatEnd, release_dbid, BuffersArrayOK, PeersTypeOK
<1>5. uif_wr[d] # "none" /\ beat_count[d] = 0 /\ HasBuffer(d) /\ d \notin tpw_queue /\ head_entry # d
  BY <1>2 DEF UifWdatEnd, WritesComplete, DbidsConserved
<1>6. \A e \in Dbid : HasBuffer(e)' <=> HasBuffer(e) /\ e # d
  BY <1>4 DEF HasBuffer
<1>7. Occurs(response_queues[DbidQ], d) = 0 /\ ToCome(d) = 0
  <2>1. Beats(buffer_payload[d]) # 0
    <3>1. Beats(buffer_payload[d]) \in 1 .. MaxBeatCount
      BY <1>2, <1>5, BeatsBound DEF PayloadsKnown
    <3>2. MaxBeatCount \in Nat
      BY DEF MaxBeatCount
    <3>3. QED
      BY <3>1, <3>2
  <2>2. QED
    BY <1>2, <1>5, <2>1 DEF BeatsAccounted
<1>8. DbidsConserved'
  BY <1>2, <1>3, <1>4, <1>5, <1>6 DEF DbidsConserved
<1>9. BeatsAccounted'
  <2>1. \A e \in Dbid : ToCome(e)' = ToCome(e)
                        /\ Occurs(response_queues[DbidQ]', e) = Occurs(response_queues[DbidQ], e)
    BY <1>3 DEF ToCome
  <2>2. \A e \in Dbid \ {d} : beat_count'[e] = beat_count[e]
                              /\ Beats(buffer_payload[e])' = Beats(buffer_payload[e])
    BY <1>4
  <2>3. QED
    BY <1>2, <1>6, <1>7, <2>1, <2>2 DEF BeatsAccounted
<1>10. WritesComplete' /\ PayloadsKnown'
  BY <1>2, <1>3, <1>4, <1>5, <1>6 DEF WritesComplete, PayloadsKnown
<1>11. NoReadyWriteStranded'
  BY <1>1, <1>2, <1>3, <1>4, <1>5 DEF NoReadyWriteStranded
<1>12. QED
  BY <1>2, <1>3, <1>8, <1>9, <1>10, <1>11 DEF WriteInv

(* Every step. *)
LEMMA WriteStep == TypeOK /\ WriteInv /\ [Next]_vars => WriteInv'
<1> SUFFICES ASSUME TypeOK, WriteInv, [Next]_vars PROVE WriteInv'
  OBVIOUS
<1>1. CASE resp_gen_pcrd
  <2>1. BuffersTypeOK
    BY DEF TypeOK
  <2>2. response_queues'[DbidQ] = response_queues[DbidQ]
    BY <1>1, <2>1, InsertType, RspFlits DEF resp_gen_pcrd
  <2>3. QED
    BY <1>1, <2>2, WriteUnchanged DEF resp_gen_pcrd, writeVars, p2cVars, pipeVars, upVars, WriteInv
<1>2. CASE \/ req_decode_s1 \/ UNCHANGED vars
           \/ \E S \in (SUBSET Queue) \ {{}} : UifCredit(S)
           \/ \E i \in CmdId : UifRdatEnd(i) \/ UifRdatEndThrows(i)
           \/ \E d \in Dbid : RmwStored(d)
           \/ \E k \in Kinds : UpSendReq(k) \/ UpResend(k)
  <2>1. UNCHANGED <<bufferVars, tpw_queue, head_entry, uif_wr, rspVars, up_beats, dat_rx, wdat_s1>>
        /\ fault' \in {fault, "no_entry", "no_statistics"}
    BY <1>2 DEF req_decode_s1, UifCredit, UifRdatEnd, UifRdatEndThrows, RmwStored, StopIdle, Stop, UpSendReq,
      UpResend, Idle,
      p2cVars, pipeVars, upVars, vars
  <2>2. QED
    BY <2>1, WriteUnchanged DEF writeVars, rspVars, WriteInv
<1>3. QED
  BY <1>1, <1>2, WritePush, WriteDecode, WritePop, WriteDecision, WriteResponse, WriteRequested,
    WriteReleased, WriteSendBeat DEF Next, dfi_clock_posedge, Controller, Upstream

(* The reads of the controller. *)
LEMMA ReadsTypeStep == TypeOK /\ [Next]_vars => uif_rd' \in [CmdId -> Nat] /\ rmw_sent' \in BOOLEAN
<1> SUFFICES ASSUME TypeOK, [Next]_vars PROVE uif_rd' \in [CmdId -> Nat] /\ rmw_sent' \in BOOLEAN
  OBVIOUS
<1>1. P2cTypeOK /\ PipesTypeOK /\ uif_rd \in [CmdId -> Nat] /\ rmw_sent \in BOOLEAN
  BY DEF TypeOK, PeersTypeOK
<1>2. CASE UNCHANGED <<uif_rd, rmw_sent>>
  BY <1>1, <1>2
<1>3. ASSUME NEW i \in CmdId PROVE [uif_rd EXCEPT ![i] = @ + 1] \in [CmdId -> Nat]
  <2>1. uif_rd[i] + 1 \in Nat
    BY <1>1
  <2>2. QED
    BY <1>1, <2>1
<1>4. CASE req_pop_s3
  <2>1. ASSUME NEW q \in {"HPR", "LPR"}, unused_buffer_id # {}, PopRead(q)
        PROVE  uif_rd' \in [CmdId -> Nat] /\ rmw_sent' = rmw_sent
    <3>1. Min(unused_buffer_id) \in CmdId
      <4>1. unused_buffer_id \subseteq Tag
        BY DEF TypeOK, BuffersTypeOK
      <4>2. unused_buffer_id \in SUBSET Nat
        BY <4>1, BuffersAssumption DEF Tag
      <4>3. QED
        BY <2>1, <4>1, <4>2, MinIsLeast DEF CmdId
    <3>2. QED
      BY <1>3, <2>1, <3>1 DEF PopRead
  <2>2. ASSUME head_entry # NoHead, PopWrite PROVE uif_rd' \in [CmdId -> Nat] /\ rmw_sent' \in BOOLEAN
    <3>1. head_entry \in CmdId
      BY <1>1, <2>2 DEF P2cTypeOK, CmdId
    <3>2. uif_rd' \in [CmdId -> Nat]
      BY <1>1, <1>3, <2>2, <3>1 DEF PopWrite
    <3>3. rmw_sent' \in BOOLEAN
      BY <2>2, Zenon DEF PopWrite
    <3>4. QED
      BY <3>2, <3>3
  <2>3. QED
    BY <1>1, <1>2, <1>4, <2>1, <2>2, PopOutcome DEF P2cTypeOK, rdVars
<1>5. CASE req_decision_s2
  BY <1>1, <1>2, <1>5, DecisionOutcome DEF PipesTypeOK, OthersOfDecision, rdVars
<1>6. CASE noc_clock_posedge
  BY <1>2, <1>6 DEF noc_clock_posedge, rdat_arbit_s1, rdVars
<1>7. ASSUME NEW i \in CmdId, UifRdatEnd(i) PROVE uif_rd' \in [CmdId -> Nat] /\ rmw_sent' \in BOOLEAN
  BY <1>1, <1>7 DEF UifRdatEnd
<1>8. CASE \/ wdat_push_s2 \/ wdat_decode_s1 \/ resp_gen_pcrd \/ req_decode_s1 \/ Upstream \/ UNCHANGED vars
           \/ \E S \in (SUBSET Queue) \ {{}} : UifCredit(S)
           \/ \E i \in CmdId : UifRdatEndThrows(i)
           \/ \E d \in Dbid : UifWdatReq(d) \/ UifWdatEnd(d) \/ RmwStored(d)
  <2>1. UNCHANGED <<uif_rd, rmw_sent>>
    BY <1>8 DEF wdat_push_s2, wdat_decode_s1, resp_gen_pcrd, req_decode_s1, Upstream,
      UifCredit, UifRdatEndThrows, RmwStored, StopIdle, Stop, UifWdatReq, UifWdatEnd, UpSendReq, UpResend,
      UpSendBeat, rdVars, vars
  <2>2. QED
    BY <1>2, <2>1
<1>9. QED
  BY <1>4, <1>5, <1>6, <1>7, <1>8 DEF Next, dfi_clock_posedge, Controller

(* The state of the controller and of upstream. *)
LEMMA PeersTypeStep == TypeOK /\ WriteInv /\ [Next]_vars => PeersTypeOK'
<1> SUFFICES ASSUME TypeOK, WriteInv, [Next]_vars PROVE PeersTypeOK'
  OBVIOUS
<1>1. BuffersTypeOK /\ ResponsesTypeOK /\ P2cTypeOK /\ PipesTypeOK
  BY BuffersParts DEF TypeOK
<1>a. /\ uif_wr \in [Dbid -> {"none", "req", "end_now", "end_next"}]
      /\ sent \in 0 .. MaxReq /\ resent \in 0 .. MaxResend
      /\ retried \in [Kinds -> Nat] /\ grants \in Nat /\ up_beats \in [Dbid -> Nat]
  BY DEF TypeOK, PeersTypeOK
<1>b. uif_rd' \in [CmdId -> Nat] /\ rmw_sent' \in BOOLEAN
  BY ReadsTypeStep
<1>2. CASE wdat_push_s2
  <2>1. UNCHANGED upVars
    BY <1>2 DEF wdat_push_s2
  <2>2. uif_wr' \in [Dbid -> {"none", "req", "end_now", "end_next"}]
    BY <1>a, <1>2 DEF wdat_push_s2
  <2>3. QED
    BY <1>a, <1>b, <2>1, <2>2 DEF PeersTypeOK, upVars
<1>3. CASE req_pop_s3
  <2>1. UNCHANGED upVars
    BY <1>1, <1>3, PopOutcome DEF P2cTypeOK, OthersOfPop
  <2>2. uif_wr' \in [Dbid -> {"none", "req", "end_now", "end_next"}]
    BY <1>1, <1>a, <1>3, PopOutcome DEF P2cTypeOK, PopRead, PopWrite
  <2>3. QED
    BY <1>a, <1>b, <2>1, <2>2 DEF PeersTypeOK, upVars
<1>4. CASE req_decision_s2
  BY <1>1, <1>a, <1>b, <1>4, DecisionOutcome DEF PipesTypeOK, OthersOfDecision, PeersTypeOK, upVars
<1>5. CASE noc_clock_posedge
  <2>1. up_beats' \in [Dbid -> Nat]
    BY <1>5, WriteResponse
  <2>2. UNCHANGED <<uif_wr, sent, resent>>
    BY <1>5 DEF noc_clock_posedge
  <2>3. retried' \in [Kinds -> Nat] /\ grants' \in Nat
    <3>1. CASE ~HasRspPending
      BY <1>a, <1>5, <3>1 DEF noc_clock_posedge, resp_arbit_s1
    <3>2. CASE HasRspPending
      <4>1. grants' \in {grants, grants + 1}
        BY <1>5, <3>2 DEF noc_clock_posedge, resp_arbit_s1
      <4>2. CASE Arbiter # RetryAckQ
        BY <1>a, <1>5, <3>2, <4>1, <4>2 DEF noc_clock_posedge, resp_arbit_s1
      <4>3. CASE Arbiter = RetryAckQ
        <5>1. response_queues[RetryAckQ] # <<>> /\ response_queues[RetryAckQ] \in Seq(Kinds)
          BY <1>1, <3>2, <4>3, ArbiterPicks, RspFlits DEF ResponsesTypeOK
        <5>2. Head(response_queues[RetryAckQ]) \in Kinds
          BY <5>1, HeadTailProperties
        <5>3. retried' = [retried EXCEPT ![Head(response_queues[RetryAckQ])] = @ + 1]
          BY <1>5, <3>2, <4>3 DEF noc_clock_posedge, resp_arbit_s1
        <5>4. retried[Head(response_queues[RetryAckQ])] + 1 \in Nat
          BY <1>a, <5>2
        <5>5. QED
          BY <1>a, <4>1, <5>2, <5>3, <5>4
      <4>4. QED
        BY <4>2, <4>3
    <3>3. QED
      BY <3>1, <3>2
  <2>4. QED
    BY <1>a, <1>b, <2>1, <2>2, <2>3 DEF PeersTypeOK
<1>6. ASSUME NEW d \in Dbid, UifWdatReq(d) \/ UifWdatEnd(d) PROVE PeersTypeOK'
  <2>1. UNCHANGED upVars
    BY <1>6 DEF UifWdatReq, UifWdatEnd
  <2>2. uif_wr' \in [Dbid -> {"none", "req", "end_now", "end_next"}]
    BY <1>a, <1>6 DEF UifWdatReq, UifWdatEnd
  <2>3. QED
    BY <1>a, <1>b, <2>1, <2>2 DEF PeersTypeOK, upVars
<1>7. ASSUME NEW k \in Kinds, UpSendReq(k) PROVE PeersTypeOK'
  <2>1. sent' = sent + 1 /\ sent < MaxReq /\ UNCHANGED <<uif_wr, resent, retried, grants, up_beats>>
    BY <1>7 DEF UpSendReq
  <2>2. sent' \in 0 .. MaxReq
    BY <1>a, <2>1, PortAssumption
  <2>3. QED
    BY <1>a, <1>b, <2>1, <2>2 DEF PeersTypeOK
<1>8. ASSUME NEW k \in Kinds, UpResend(k) PROVE PeersTypeOK'
  <2>1. /\ resent' = resent + 1 /\ resent < MaxResend
        /\ grants > 0 /\ retried[k] > 0 /\ grants' = grants - 1
        /\ retried' = [retried EXCEPT ![k] = retried[k] - 1]
        /\ UNCHANGED <<uif_wr, sent, up_beats>>
    BY <1>8 DEF UpResend
  <2>2. resent' \in 0 .. MaxResend /\ grants' \in Nat
    BY <1>a, <2>1, PortAssumption
  <2>3. retried[k] - 1 \in Nat
    <3>1. retried[k] \in Nat
      BY <1>a
    <3>2. QED
      BY <2>1, <3>1
  <2>4. retried' \in [Kinds -> Nat]
    BY <1>a, <2>1, <2>3
  <2>5. QED
    BY <1>a, <1>b, <2>1, <2>2, <2>4 DEF PeersTypeOK
<1>9. ASSUME NEW d \in Dbid, UpSendBeat(d) PROVE PeersTypeOK'
  <2>1. /\ up_beats[d] > 0 /\ up_beats' = [up_beats EXCEPT ![d] = up_beats[d] - 1]
        /\ UNCHANGED <<uif_wr, sent, resent, retried, grants>>
    BY <1>9 DEF UpSendBeat
  <2>2. up_beats[d] - 1 \in Nat
    <3>1. up_beats[d] \in Nat
      BY <1>a
    <3>2. QED
      BY <2>1, <3>1
  <2>3. up_beats' \in [Dbid -> Nat]
    BY <1>a, <2>1, <2>2
  <2>4. QED
    BY <1>a, <1>b, <2>1, <2>3 DEF PeersTypeOK
<1>10. CASE \/ wdat_decode_s1 \/ resp_gen_pcrd \/ req_decode_s1 \/ UNCHANGED vars
            \/ \E S \in (SUBSET Queue) \ {{}} : UifCredit(S)
            \/ \E i \in CmdId : UifRdatEnd(i) \/ UifRdatEndThrows(i)
            \/ \E d \in Dbid : RmwStored(d)
  <2>1. UNCHANGED <<uif_wr, upVars>>
    BY <1>10 DEF wdat_decode_s1, resp_gen_pcrd, req_decode_s1, UifCredit, UifRdatEnd, UifRdatEndThrows,
      RmwStored, StopIdle, Stop, vars
  <2>2. QED
    BY <1>a, <1>b, <2>1 DEF PeersTypeOK, upVars
<1>11. QED
  BY <1>2, <1>3, <1>4, <1>5, <1>6, <1>7, <1>8, <1>9, <1>10
  DEF Next, dfi_clock_posedge, Controller, Upstream

-----------------------------------------------------------------------------
(* The invariant *)

LEMMA PortInit == Init => PortInv
<1> SUFFICES ASSUME Init PROVE PortInv
  OBVIOUS
<1>1. BuffersInit /\ P2cInit /\ RetryInit
  BY DEF Init
<1>2. <<>> \in Seq(Kinds) /\ <<>> \in Seq(Request) /\ <<>> \in Seq(Dbid)
      /\ (\A q \in Rsp : <<>> \in Seq(RspFlit(q))) /\ Len(<<>>) = 0
  BY EmptySeq
<1>3. MaxBeatCount \in Nat
  BY DEF MaxBeatCount
<1>4. BuffersTypeOK
  BY <1>1, <1>2, <1>3 DEF BuffersInit, BuffersTypeOK
<1>5. P2cTypeOK
  <2>1. AgingNever \in 0 .. AgingNever
    BY P2cAssumption DEF AgingNever
  <2>2. QED
    BY <1>1, <1>2, <2>1 DEF P2cInit, P2cTypeOK
<1>6. RetryTypeOK
  BY <1>1, RetryAssumption DEF RetryInit, RetryTypeOK
<1>7. PipesTypeOK
  BY <1>2 DEF Init, PipesTypeOK, Stage, Fault
<1>8. PeersTypeOK
  <2>1. uif_rd = [i \in CmdId |-> 0] /\ rmw_sent = FALSE
    BY DEF Init
  <2>2. uif_rd \in [CmdId -> Nat] /\ rmw_sent \in BOOLEAN
    BY <2>1
  <2>3. QED
    BY PortAssumption, <2>2 DEF Init, PeersTypeOK
<1>9. WriteInv
  <2>1. \A d \in Dbid : ~HasBuffer(d) /\ beat_count[d] = -1 /\ d \in unallocated_dbid /\ d \notin tpw_queue
                        /\ uif_wr[d] = "none" /\ up_beats[d] = 0 /\ head_entry # d
    BY <1>1, DbidNotNoHead DEF Init, BuffersInit, P2cInit, HasBuffer, NoEntry
  <2>2. DbidsConserved /\ WritesComplete /\ PayloadsKnown /\ NoReadyWriteStranded /\ fault # "no_buffer"
    BY <1>1, <2>1 DEF DbidsConserved, WritesComplete, PayloadsKnown, NoReadyWriteStranded, Init, P2cInit
  <2>3. response_queues[DbidQ] = <<>> /\ dat_rx = <<>> /\ wdat_s1 = <<>>
    BY <1>1, RspFlits DEF Init, BuffersInit
  <2>4. BeatsAccounted
    BY <2>1, <2>3, OccursEmpty DEF BeatsAccounted, ToCome
  <2>5. QED
    BY <2>2, <2>4 DEF WriteInv
<1>10. TagsConserved
  BY <1>1 DEF BuffersInit, TagsConserved
<1>11. RetryAckReserved
  BY <1>1, <1>2, RspFlits, BuffersAssumption DEF Init, BuffersInit, RetryAckReserved
<1>12. QED
  BY <1>4, <1>5, <1>6, <1>7, <1>8, <1>9, <1>10, <1>11 DEF TypeOK, PortInv

LEMMA PortStep == PortInv /\ [Next]_vars => PortInv'
<1> SUFFICES ASSUME PortInv, [Next]_vars PROVE PortInv'
  OBVIOUS
<1>1. TypeOK /\ WriteInv /\ TagsConserved /\ RetryAckReserved
  BY DEF PortInv
<1>2. BuffersTypeOK'
  BY <1>1, ArrayTypeStep, TagsTypeStep, ResponsesTypeStep
  DEF BuffersTypeOK, BuffersArrayOK, TagsTypeOK, ResponsesTypeOK
<1>3. TypeOK'
  BY <1>1, <1>2, P2cTypeStep, RetryTypeStep, PipesTypeStep, PeersTypeStep DEF TypeOK
<1>4. QED
  BY <1>1, <1>3, WriteStep, TagsStep, RetryAckStep DEF PortInv

(* The inductive invariant of the CHI port holds: its types, the life of every
   write, the read tags and the place of every RetryAck. *)
THEOREM PortInvariant == Spec => []PortInv
<1>1. Init => PortInv
  BY PortInit
<1>2. PortInv /\ [Next]_vars => PortInv'
  BY PortStep
<1>3. QED
  BY <1>1, <1>2, PTL DEF Spec

(* Every variable of the port keeps its type: in particular the P-credit and
   UIF credit counters and the retry matrix never go below zero. *)
THEOREM PortTypeCorrect == Spec => []TypeOK
<1>1. PortInv => TypeOK
  BY DEF PortInv
<1>2. QED
  BY <1>1, PortInvariant, PTL

(* The RetryAck queue never exceeds RSP1_FIFO_DEPTH, although the check in
   req_decode_s1 and the insertion in req_decision_s2 are a cycle apart. *)
THEOREM RetryAckNeverOverflows == Spec => []RetryAckBounded
<1>1. PortInv => RetryAckBounded
  <2> SUFFICES ASSUME PortInv PROVE RetryAckBounded
    OBVIOUS
  <2>1. ResponsesTypeOK /\ PipesTypeOK
    BY BuffersParts DEF PortInv, TypeOK
  <2>2. Len(response_queues[RetryAckQ]) \in Nat
    BY <2>1, RspFlits, LenProperties DEF ResponsesTypeOK
  <2>3. Len(req_s1) \in Nat
    BY <2>1, LenProperties DEF PipesTypeOK
  <2>4. Len(response_queues[RetryAckQ]) + Len(req_s1) <= MaxRetryAck /\ MaxRetryAck \in Nat
    BY BuffersAssumption DEF PortInv, RetryAckReserved
  <2>5. QED
    BY <2>2, <2>3, <2>4 DEF RetryAckBounded
<1>2. QED
  BY <1>1, PortInvariant, PTL

(* No resource is lost: through allocate_dbid, Move2Head, PopRequest and
   release_dbid a DBID is in one place, and the free list of the read tags agrees
   with their table. *)
THEOREM IdsNeverLost == Spec => []IdsConserved
<1>1. PortInv => IdsConserved
  BY DEF PortInv, WriteInv, IdsConserved
<1>2. QED
  BY <1>1, PortInvariant, PTL

(* The beats a buffer waits for are the beats still to come: beat_count never
   wraps, and a DBID is not used again while beats of its last write are under
   way. *)
THEOREM BeatsNeverLost == Spec => []BeatsConserved
<1>1. PortInv => BeatsConserved
  <2> SUFFICES ASSUME PortInv, NEW d \in Dbid
               PROVE  (IF HasBuffer(d) THEN beat_count[d] ELSE 0)
                        = Occurs(response_queues[DbidQ], d) * (IF HasBuffer(d) THEN Beats(buffer_payload[d]) ELSE 1)
                          + up_beats[d] + Occurs(dat_rx, d) + Occurs(wdat_s1, d)
    BY DEF BeatsConserved
  <2> DEFINE b == IF HasBuffer(d) THEN Beats(buffer_payload[d]) ELSE 1
             a == Occurs(response_queues[DbidQ], d)
  <2>1. /\ up_beats[d] \in Nat /\ Occurs(dat_rx, d) \in Nat /\ Occurs(wdat_s1, d) \in Nat
        /\ beat_count[d] \in -1 .. MaxBeatCount
    BY WriteTypes DEF PortInv
  <2>2. b \in Nat
    <3>1. HasBuffer(d) => Beats(buffer_payload[d]) \in 1 .. MaxBeatCount
      BY BeatsBound DEF PortInv, WriteInv, PayloadsKnown
    <3>2. MaxBeatCount \in Nat
      BY DEF MaxBeatCount
    <3>3. QED
      BY <3>1, <3>2
  <2>3. /\ a = 0 => a * b = 0
        /\ a = 1 => a * b = b
    BY <2>2
  <2>4. ToCome(d) = up_beats[d] + Occurs(dat_rx, d) + Occurs(wdat_s1, d)
    BY DEF ToCome
  <2>5. \/ ~HasBuffer(d) /\ a = 0 /\ ToCome(d) = 0
        \/ HasBuffer(d) /\ a = 1 /\ ToCome(d) = 0 /\ beat_count[d] = b
        \/ HasBuffer(d) /\ a = 0 /\ beat_count[d] = ToCome(d)
    BY DEF PortInv, WriteInv, BeatsAccounted
  <2>6. (IF HasBuffer(d) THEN beat_count[d] ELSE 0) = a * b + ToCome(d)
    <3>1. ToCome(d) \in Nat
      BY <2>1, <2>4
    <3> HIDE DEF a, b
    <3>2. QED
      BY <2>2, <2>3, <2>5, <3>1
  <2> HIDE DEF a, b
  <2>7. a * b \in Nat
    BY <2>2, <2>3, <2>5
  <2>8. (IF HasBuffer(d) THEN beat_count[d] ELSE 0)
          = a * b + up_beats[d] + Occurs(dat_rx, d) + Occurs(wdat_s1, d)
    BY <2>1, <2>4, <2>6, <2>7
  <2>9. QED
    BY <2>8 DEF a, b
<1>2. QED
  BY <1>1, PortInvariant, PTL

(* No write that has all its data is left in the TPW queue while the head is
   empty. *)
THEOREM ReadyWritesMoveUp == Spec => []NoReadyWriteStranded
<1>1. PortInv => NoReadyWriteStranded
  BY DEF PortInv, WriteInv
<1>2. QED
  BY <1>1, PortInvariant, PTL

(* No data beat ever meets a buffer that is gone, so the at() of
   receive_wdata_flit never throws. *)
THEOREM BeatsFindTheirBuffer == Spec => [](fault # "no_buffer")
<1>1. PortInv => fault # "no_buffer"
  BY DEF PortInv, WriteInv
<1>2. QED
  BY <1>1, PortInvariant, PTL

-----------------------------------------------------------------------------
(* The port as an array of write buffers *)

buffersView == <<WriteOf, MissingBeats, IssuedWrites>>

LEMMA ViewStays ==
  ASSUME UNCHANGED <<beat_count, buffer_payload>>,
         \A d \in Dbid : uif_wr'[d] = "none" <=> uif_wr[d] = "none"
  PROVE  UNCHANGED buffersView
BY Zenon DEF buffersView, WriteOf, MissingBeats, IssuedWrites, HasBuffer

(* What the view shows of one buffer. *)
LEMMA ViewOf ==
  ASSUME PortInv, NEW d \in Dbid
  PROVE  /\ Writes!Free(d) <=> ~HasBuffer(d)
         /\ HasBuffer(d) => MissingBeats[d] = beat_count[d] /\ WriteOf[d] = buffer_payload[d]
         /\ d \in IssuedWrites <=> uif_wr[d] # "none"
         /\ uif_wr[d] # "none" => HasBuffer(d) /\ beat_count[d] = 0
<1>1. HasBuffer(d) => buffer_payload[d] # NoKind
  BY BuffersAssumption DEF PortInv, WriteInv, PayloadsKnown
<1>2. uif_wr[d] # "none" => HasBuffer(d) /\ beat_count[d] = 0
  BY DEF PortInv, WriteInv, DbidsConserved, WritesComplete
<1>3. QED
  BY <1>1, <1>2 DEF Writes!Free, WriteOf, MissingBeats, IssuedWrites

(* A beat arrives, or there was none. *)
LEMMA PushReceives ==
  PortInv /\ wdat_push_s2 => UNCHANGED buffersView \/ \E d \in Dbid : Writes!Receive(d)
<1> SUFFICES ASSUME PortInv, wdat_push_s2
             PROVE  UNCHANGED buffersView \/ \E d \in Dbid : Writes!Receive(d)
  OBVIOUS
<1>1. TypeOK /\ BeatsAccounted /\ fault = "none"
  BY DEF PortInv, WriteInv, wdat_push_s2, Goto
<1>2. /\ BuffersArrayOK /\ PipesTypeOK
      /\ \A d \in Dbid : /\ beat_count[d] \in -1 .. MaxBeatCount
                         /\ up_beats[d] \in Nat /\ Occurs(dat_rx, d) \in Nat /\ Occurs(wdat_s1, d) \in Nat
  BY <1>1, WriteTypes
<1>3. buffer_payload' = buffer_payload /\ \A d \in Dbid : uif_wr'[d] = "none" <=> uif_wr[d] = "none"
  BY DEF wdat_push_s2, bufferVars
<1>4. CASE beat_count' = beat_count
  BY <1>3, <1>4, ViewStays
<1>5. CASE beat_count' # beat_count
  <2> DEFINE d == Head(wdat_s1)
  <2>1. wdat_s1 # <<>> /\ HasBuffer(d) /\ beat_count' = receive_wdata_flit(d)
    BY <1>5 DEF wdat_push_s2, bufferVars
  <2>2. d \in Dbid
    BY <1>2, <2>1, HeadTailProperties DEF PipesTypeOK
  <2>3. ToCome(d) > 0
    <3>1. Occurs(wdat_s1, d) = Occurs(Tail(wdat_s1), d) + 1
      BY <1>2, <2>1, <2>2, OccursTail DEF PipesTypeOK
    <3>2. Tail(wdat_s1) \in Seq(Dbid)
      BY <1>2, <2>1, HeadTailProperties DEF PipesTypeOK
    <3>3. Occurs(Tail(wdat_s1), d) \in Nat
      BY <2>2, <3>2, OccursFinite
    <3>4. QED
      BY <1>2, <2>2, <3>1, <3>3 DEF ToCome
  <2>4. beat_count[d] \in 1 .. MaxBeatCount
    <3>1. beat_count[d] = ToCome(d)
      BY <1>1, <2>1, <2>2, <2>3 DEF BeatsAccounted
    <3>2. QED
      BY <1>2, <2>2, <2>3, <3>1
  <2> HIDE DEF d
  <2>5. beat_count' = [beat_count EXCEPT ![d] = beat_count[d] - 1]
    <3>1. \A m \in Nat : \A x \in 1 .. m : (x + m) % (m + 1) = x - 1
      OBVIOUS
    <3>2. MaxBeatCount \in Nat
      BY DEF MaxBeatCount
    <3>3. (beat_count[d] + MaxBeatCount) % (MaxBeatCount + 1) = beat_count[d] - 1
      BY <2>4, <3>1, <3>2
    <3>4. QED
      BY <2>1, <3>3 DEF receive_wdata_flit
  <2>6. \A e \in Dbid : beat_count'[e] = IF e = d THEN beat_count[d] - 1 ELSE beat_count[e]
    BY <1>2, <2>2, <2>5 DEF BuffersArrayOK
  <2>7. beat_count[d] > 0 /\ beat_count[d] - 1 # NoEntry
    BY <2>4 DEF NoEntry
  <2>8. \A e \in Dbid : HasBuffer(e)' <=> HasBuffer(e)
    BY <2>1, <2>6, <2>7 DEF HasBuffer
  <2>9. UNCHANGED <<WriteOf, IssuedWrites>>
    BY <1>3, <2>8, Zenon DEF WriteOf, IssuedWrites
  <2>10. MissingBeats' = [MissingBeats EXCEPT ![d] = MissingBeats[d] - 1]
    BY <2>1, <2>2, <2>6, <2>8 DEF MissingBeats
  <2>11. ~Writes!Free(d) /\ MissingBeats[d] > 0
    BY <2>1, <2>2, <2>7, ViewOf
  <2>12. Writes!Receive(d)
    BY <2>9, <2>10, <2>11 DEF Writes!Receive
  <2>13. QED
    BY <2>2, <2>12
<1>6. QED
  BY <1>4, <1>5

(* The head goes to the controller. *)
LEMMA PopIssues ==
  PortInv /\ req_pop_s3 => UNCHANGED buffersView \/ \E d \in Dbid : Writes!Issue(d)
<1> SUFFICES ASSUME PortInv, req_pop_s3
             PROVE  UNCHANGED buffersView \/ \E d \in Dbid : Writes!Issue(d)
  OBVIOUS
<1>1. /\ DbidsConserved /\ WritesComplete
      /\ pa_state \in {"IDLE", "RD", "WR"} /\ head_entry \in Dbid \union {NoHead}
      /\ DOMAIN uif_wr = Dbid
  BY DEF PortInv, WriteInv, TypeOK, P2cTypeOK, PeersTypeOK
<1>2. UNCHANGED <<beat_count, buffer_payload>>
  BY <1>1, PopOutcome DEF OthersOfPop, bufferVars
<1>3. CASE uif_wr' = uif_wr
  BY <1>2, <1>3, ViewStays
<1>4. CASE head_entry # NoHead /\ PopWrite
  <2>1. head_entry \in Dbid /\ uif_wr' = [uif_wr EXCEPT ![head_entry] = "req"]
    BY <1>1, <1>4 DEF PopWrite
  <2>2. HasBuffer(head_entry) /\ uif_wr[head_entry] = "none" /\ beat_count[head_entry] = 0
    BY <1>1, <2>1 DEF DbidsConserved, WritesComplete
  <2>3. ~Writes!Free(head_entry) /\ MissingBeats[head_entry] = 0 /\ head_entry \notin IssuedWrites
    BY <2>1, <2>2, ViewOf
  <2>4. UNCHANGED <<WriteOf, MissingBeats>>
    BY <1>2, Zenon DEF WriteOf, MissingBeats, HasBuffer
  <2>5. IssuedWrites' = IssuedWrites \union {head_entry}
    BY <1>1, <2>1 DEF IssuedWrites
  <2>6. Writes!Issue(head_entry)
    BY <2>3, <2>4, <2>5 DEF Writes!Issue
  <2>7. QED
    BY <2>1, <2>6
<1>5. ASSUME NEW q \in {"HPR", "LPR"}, PopRead(q) PROVE uif_wr' = uif_wr
  BY <1>5 DEF PopRead
<1>6. QED
  BY <1>1, <1>3, <1>4, <1>5, PopOutcome

(* A write is accepted. *)
LEMMA DecisionAccepts ==
  PortInv /\ req_decision_s2
    => UNCHANGED buffersView \/ \E d \in Dbid, k \in Kinds : Writes!Accept(d, k)
<1> SUFFICES ASSUME PortInv, req_decision_s2
             PROVE  UNCHANGED buffersView \/ \E d \in Dbid, k \in Kinds : Writes!Accept(d, k)
  OBVIOUS
<1>1. DbidsConserved /\ BuffersArrayOK /\ req_s1 \in Seq(Request)
  BY BuffersParts DEF PortInv, WriteInv, TypeOK, PipesTypeOK
<1>2. uif_wr' = uif_wr
  BY <1>1, DecisionOutcome DEF OthersOfDecision
<1>3. CASE UNCHANGED bufferVars
  BY <1>2, <1>3, ViewStays DEF bufferVars
<1>4. ASSUME NEW k \in Kinds, AcceptWrite(k), unallocated_dbid # {}
      PROVE  \E d \in Dbid : Writes!Accept(d, k)
  <2>0. PICK d : d = Min(unallocated_dbid)
    OBVIOUS
  <2>1. d \in Dbid /\ d \in unallocated_dbid
    BY <1>1, <1>4, <2>0, MinIsLeast, DbidNotNoHead DEF BuffersArrayOK
  <2>2. /\ beat_count' = [beat_count EXCEPT ![d] = Beats(k)]
        /\ buffer_payload' = [buffer_payload EXCEPT ![d] = k]
    BY <1>4, <2>0 DEF AcceptWrite, allocate_dbid
  <2>3. \A e \in Dbid : /\ beat_count'[e] = IF e = d THEN Beats(k) ELSE beat_count[e]
                        /\ buffer_payload'[e] = IF e = d THEN k ELSE buffer_payload[e]
    BY <1>1, <2>1, <2>2 DEF BuffersArrayOK
  <2>4. Beats(k) # NoEntry
    <3>1. MaxBeatCount \in Nat
      BY DEF MaxBeatCount
    <3>2. Beats(k) \in 1 .. MaxBeatCount
      BY BeatsBound
    <3>3. QED
      BY <3>1, <3>2 DEF NoEntry
  <2>5. \A e \in Dbid : HasBuffer(e)' <=> e = d \/ HasBuffer(e)
    BY <2>3, <2>4 DEF HasBuffer
  <2>6. Writes!Free(d)
    BY <1>1, <2>1, ViewOf DEF DbidsConserved
  <2>7. WriteOf' = [WriteOf EXCEPT ![d] = k]
    BY <2>1, <2>3, <2>5 DEF WriteOf
  <2>8. MissingBeats' = [MissingBeats EXCEPT ![d] = Beats(k)]
    BY <2>1, <2>3, <2>5 DEF MissingBeats
  <2>9. UNCHANGED IssuedWrites
    BY <1>2 DEF IssuedWrites
  <2>10. Writes!Accept(d, k)
    BY <2>6, <2>7, <2>8, <2>9 DEF Writes!Accept
  <2>11. QED
    BY <2>1, <2>10
<1>5. ASSUME NEW k \in Kinds, Retry(k) \/ AcceptRead(k) \/ (AcceptWrite(k) /\ unallocated_dbid = {})
      PROVE  UNCHANGED bufferVars
  BY <1>5 DEF Retry, AcceptRead, AcceptWrite
<1>6. QED
  BY <1>1, <1>3, <1>4, <1>5, DecisionOutcome

(* The controller has the data. *)
LEMMA EndReleases ==
  ASSUME PortInv, NEW d \in Dbid, UifWdatEnd(d)
  PROVE  Writes!Release(d)
<1>1. BuffersArrayOK /\ PeersTypeOK
  BY BuffersParts DEF PortInv, TypeOK
<1>2. \A e \in Dbid : /\ beat_count'[e] = IF e = d THEN NoEntry ELSE beat_count[e]
                      /\ buffer_payload'[e] = IF e = d THEN NoKind ELSE buffer_payload[e]
                      /\ uif_wr'[e] = IF e = d THEN "none" ELSE uif_wr[e]
  BY <1>1 DEF UifWdatEnd, release_dbid, BuffersArrayOK, PeersTypeOK
<1>3. d \in IssuedWrites /\ HasBuffer(d) /\ beat_count[d] = 0
  BY ViewOf DEF UifWdatEnd
<1>4. \A e \in Dbid : HasBuffer(e)' <=> HasBuffer(e) /\ e # d
  BY <1>2 DEF HasBuffer
<1>5. IssuedWrites' = IssuedWrites \ {d}
  <2>1. \A e \in Dbid : uif_wr'[e] # "none" <=> uif_wr[e] # "none" /\ e # d
    BY <1>2
  <2>2. QED
    BY <2>1, Zenon DEF IssuedWrites
<1>6. WriteOf' = [WriteOf EXCEPT ![d] = NoKind]
  <2>1. \A e \in Dbid : (IF HasBuffer(e)' THEN buffer_payload'[e] ELSE NoKind)
                         = IF e = d THEN NoKind ELSE WriteOf[e]
    BY <1>2, <1>4 DEF WriteOf
  <2>2. WriteOf' = [e \in Dbid |-> IF HasBuffer(e)' THEN buffer_payload'[e] ELSE NoKind]
    BY DEF WriteOf
  <2>3. WriteOf' = [e \in Dbid |-> IF e = d THEN NoKind ELSE WriteOf[e]]
    BY <2>1, <2>2
  <2>4. QED
    BY <2>3 DEF WriteOf
<1>7. UNCHANGED MissingBeats
  BY <1>2, <1>3, <1>4 DEF MissingBeats
<1>8. QED
  BY <1>3, <1>5, <1>6, <1>7 DEF Writes!Release

(* All other steps leave the writes in their buffers. *)
LEMMA OtherStepsStay ==
  ASSUME PortInv,
         \/ wdat_decode_s1 \/ resp_gen_pcrd \/ req_decode_s1 \/ noc_clock_posedge \/ UNCHANGED vars
         \/ \E S \in (SUBSET Queue) \ {{}} : UifCredit(S)
         \/ \E i \in CmdId : UifRdatEnd(i) \/ UifRdatEndThrows(i)
         \/ \E d \in Dbid : UifWdatReq(d) \/ RmwStored(d)
         \/ Upstream
  PROVE  UNCHANGED buffersView
<1>1. UNCHANGED bufferVars
  BY Zenon DEF wdat_decode_s1, resp_gen_pcrd, req_decode_s1, noc_clock_posedge, UifCredit, UifRdatEnd,
    UifRdatEndThrows, RmwStored, StopIdle, Stop,
    UifWdatReq, Upstream, UpSendReq, UpResend, UpSendBeat, vars
<1>2. ASSUME NEW d \in Dbid, UifWdatReq(d)
      PROVE  \A e \in Dbid : uif_wr'[e] = "none" <=> uif_wr[e] = "none"
  BY <1>2 DEF UifWdatReq, PortInv, TypeOK, PeersTypeOK
<1>3. UNCHANGED uif_wr \/ \E d \in Dbid : UifWdatReq(d)
  BY Zenon DEF wdat_decode_s1, resp_gen_pcrd, req_decode_s1, noc_clock_posedge, UifCredit, UifRdatEnd,
    UifRdatEndThrows, RmwStored, StopIdle, Stop,
    Upstream, UpSendReq, UpResend, UpSendBeat, vars
<1>4. QED
  BY <1>1, <1>2, <1>3, ViewStays DEF bufferVars

LEMMA ViewInit == Init => Writes!Init
<1> SUFFICES ASSUME Init PROVE Writes!Init
  OBVIOUS
<1>1. /\ \A d \in Dbid : ~HasBuffer(d)
      /\ uif_wr = [d \in Dbid |-> "none"]
  BY DEF Init, BuffersInit, HasBuffer, NoEntry
<1>2. QED
  BY <1>1 DEF Writes!Init, WriteOf, MissingBeats, IssuedWrites

LEMMA ViewStep == PortInv /\ [Next]_vars => [Writes!Next]_buffersView
<1> SUFFICES ASSUME PortInv, [Next]_vars PROVE Writes!Next \/ UNCHANGED buffersView
  OBVIOUS
<1>1. ASSUME NEW d \in Dbid, \/ Writes!Receive(d) \/ Writes!Issue(d) \/ Writes!Release(d)
                              \/ \E k \in Kinds : Writes!Accept(d, k)
      PROVE  Writes!Next
  BY <1>1, Zenon DEF Writes!Next
<1>2. CASE wdat_push_s2
  BY <1>1, <1>2, PushReceives, Zenon
<1>3. CASE req_pop_s3
  BY <1>1, <1>3, PopIssues, Zenon
<1>4. CASE req_decision_s2
  BY <1>1, <1>4, DecisionAccepts, Zenon
<1>5. ASSUME NEW d \in Dbid, UifWdatEnd(d) PROVE Writes!Next
  BY <1>1, <1>5, EndReleases, Zenon
<1>6. QED
  BY <1>2, <1>3, <1>4, <1>5, OtherStepsStay, Zenon DEF Next, dfi_clock_posedge, Controller

(* The port is an array of write buffers: a write is accepted into a free buffer,
   waits for exactly its beats, goes to the controller once, with all of them,
   and its buffer is given to another write only when the controller has the
   data.  The queues, the head of TpwQueue, the responses on their way and the
   pipeline registers of CHIPort.cpp make no difference to that. *)
THEOREM PortImplementsWrites == Spec => WritesSpec
<1>1. Init => Writes!Init
  BY ViewInit
<1>2. PortInv /\ [Next]_vars => [Writes!Next]_<<WriteOf, MissingBeats, IssuedWrites>>
  BY ViewStep DEF buffersView
<1>3. QED
  BY <1>1, <1>2, PortInvariant, PTL DEF Spec, WritesSpec, Writes!Spec

-----------------------------------------------------------------------------
(* Retries and P-credits *)

(* The RetryAcks upstream has not acted on, the PcrdGrants it has not used, the
   requests in the matrix and the P-credits counted against the queues. *)
Acked == Len(response_queues[RetryAckQ]) + SumFunction(retried)
Granted == Len(response_queues[PcrdGrantQ]) + grants
InMatrix == SumFunction(Cells(retry_matrix))
Promised == p_credit["HPR"] + p_credit["LGPR"] + p_credit["TPW"] + p_credit["CMO"]

(* A P-credit stays counted against its queue after the request it was for has
   been sent again: send_upstream_p_credit_dec has no caller. *)
GrantsStayCounted == Promised = Granted + resent

(* The matrix has a place for every source that sends requests. *)
SourcesKnown == \A k \in Kinds : k.src \in SrcId

(* The books: nothing, a retry, a grant, or a resend. *)
BooksUnchanged == /\ Acked' = Acked /\ Granted' = Granted /\ InMatrix' = InMatrix
                  /\ Promised' = Promised /\ resent' = resent
BooksRetry == /\ Acked' = Acked + 1 /\ Granted' = Granted /\ InMatrix' = InMatrix + 1
              /\ Promised' = Promised /\ resent' = resent
BooksGrant == /\ Acked' = Acked /\ Granted' = Granted + 1 /\ InMatrix' = InMatrix - 1
              /\ Promised' = Promised + 1 /\ resent' = resent
BooksResend == /\ Acked' = Acked - 1 /\ Granted' = Granted - 1 /\ InMatrix' = InMatrix
               /\ Promised' = Promised /\ resent' = resent + 1

LEMMA BooksType ==
  ASSUME SourcesKnown, TypeOK
  PROVE  /\ Len(response_queues[RetryAckQ]) \in Nat /\ Len(response_queues[PcrdGrantQ]) \in Nat
         /\ SumFunction(retried) \in Nat /\ grants \in Nat /\ resent \in Nat
         /\ InMatrix \in Nat /\ Promised \in Nat
<1>1. ResponsesTypeOK /\ RetryTypeOK /\ PeersTypeOK
  BY BuffersParts DEF TypeOK
<1>2. Len(response_queues[RetryAckQ]) \in Nat /\ Len(response_queues[PcrdGrantQ]) \in Nat
  <2>1. response_queues[RetryAckQ] \in Seq(RspFlit(RetryAckQ))
        /\ response_queues[PcrdGrantQ] \in Seq(RspFlit(PcrdGrantQ))
    BY <1>1, RspFlits DEF ResponsesTypeOK
  <2>2. QED
    BY <2>1, LenProperties
<1>3. SumFunction(retried) \in Nat
  BY <1>1, KindsFinite, SumType DEF SourcesKnown, PeersTypeOK
<1>4. InMatrix \in Nat
  <2>1. Cells(retry_matrix) \in [PortCmdType \X SrcId -> Nat]
    BY <1>1 DEF Cells, RetryTypeOK
  <2>2. QED
    BY <2>1, CellsFinite, SumType DEF InMatrix
<1>5. Promised \in Nat
  <2>1. p_credit["HPR"] \in Nat /\ p_credit["LGPR"] \in Nat /\ p_credit["TPW"] \in Nat
        /\ p_credit["CMO"] \in Nat
    BY <1>1 DEF RetryTypeOK, Pool
  <2>2. QED
    BY <2>1 DEF Promised
<1>6. grants \in Nat /\ resent \in Nat
  BY <1>1, PortAssumption DEF PeersTypeOK
<1>7. QED
  BY <1>2, <1>3, <1>4, <1>5, <1>6

(* Retry: one RetryAck, one request in the matrix. *)
LEMMA RetryBooks ==
  ASSUME SourcesKnown, TypeOK, NEW k \in Kinds, Retry(k), UNCHANGED upVars
  PROVE  BooksRetry
<1>1. BuffersTypeOK /\ ResponsesTypeOK /\ RetryTypeOK
  BY BuffersParts DEF TypeOK
<1>2. GetQosLevel(k) \in PortCmdType /\ k.src \in SrcId
  BY QosLevelIsClass DEF SourcesKnown
<1>3. Len(response_queues'[RetryAckQ]) = Len(response_queues[RetryAckQ]) + 1
      /\ response_queues'[PcrdGrantQ] = response_queues[PcrdGrantQ]
  <2>1. Insert(RetryAckQ, k)
    BY DEF Retry
  <2>2. response_queues'[RetryAckQ] = Append(response_queues[RetryAckQ], k)
        /\ response_queues'[PcrdGrantQ] = response_queues[PcrdGrantQ]
    BY <1>1, <2>1, InsertType, RspFlits
  <2>3. response_queues[RetryAckQ] \in Seq(Kinds)
    BY <1>1, RspFlits DEF ResponsesTypeOK
  <2>4. QED
    BY <2>2, <2>3, AppendProperties
<1>4. InMatrix' = InMatrix + 1
  <2> DEFINE v == retry_matrix[GetQosLevel(k)][k.src] + 1
  <2>1. retry_matrix' = SetCell(retry_matrix, GetQosLevel(k), k.src, v)
    BY <1>2 DEF Retry, cnt_inc, SetCell
  <2>2. retry_matrix[GetQosLevel(k)][k.src] \in Nat /\ v \in Nat
    BY <1>1, <1>2 DEF RetryTypeOK
  <2>3. retry_matrix \in Matrix /\ retry_matrix' \in Matrix
    BY <1>1, <1>2, <2>1, <2>2 DEF RetryTypeOK, SetCell, Matrix
  <2> HIDE DEF v
  <2>4. SumsDiffer(retry_matrix, retry_matrix', v, retry_matrix[GetQosLevel(k)][k.src])
    BY <1>2, <2>1, <2>2, <2>3, CellsUpdate, Zenon
  <2>5. SumFunction(Cells(retry_matrix')) = SumFunction(Cells(retry_matrix)) + 1
    BY <2>2, <2>4 DEF v, SumsDiffer
  <2>6. QED
    BY <2>5 DEF InMatrix, Cells
<1>5. UNCHANGED <<retried, grants, resent, p_credit>>
  BY DEF Retry, upVars
<1>6. Len(response_queues[RetryAckQ]) \in Nat /\ SumFunction(retried) \in Nat
  BY BooksType
<1>7. Acked' = Acked + 1
  BY <1>3, <1>5, <1>6 DEF Acked
<1>8. QED
  BY <1>3, <1>4, <1>5, <1>7 DEF BooksRetry, Granted, Promised

(* GrantPcrd: one request leaves the matrix for one PcrdGrant. *)
LEMMA GrantBooks ==
  ASSUME SourcesKnown, TypeOK, is_need_to_send_pcrd_grant, GrantPcrd, Insert(PcrdGrantQ, "PcrdGrant"),
         UNCHANGED upVars
  PROVE  BooksGrant
<1> DEFINE c == SelectedCmdType
           s == SelectedSrcId(c)
           v == retry_matrix[c][s] - 1
<1>1. BuffersTypeOK /\ ResponsesTypeOK /\ RetryTypeOK
  BY BuffersParts DEF TypeOK
<1>2. c \in PortCmdType /\ has_retry_cmd(c)
  BY <1>1, SelectedCmdTypeWaits
<1>3. s \in SrcId /\ retry_matrix[c][s] \in Nat \ {0}
  BY <1>1, <1>2, SelectedSrcIdWaits
<1>4. PoolOf(c) \in {"HPR", "LGPR", "TPW", "CMO"}
  BY <1>2 DEF PoolOf, PortCmdType
<1>5. /\ retry_matrix' = SetCell(retry_matrix, c, s, v)
      /\ p_credit' = [p_credit EXCEPT ![PoolOf(c)] = p_credit[PoolOf(c)] + 1]
  BY DEF GrantPcrd, SetCell
<1>6. Len(response_queues'[PcrdGrantQ]) = Len(response_queues[PcrdGrantQ]) + 1
      /\ response_queues'[RetryAckQ] = response_queues[RetryAckQ]
  <2>1. response_queues'[PcrdGrantQ] = Append(response_queues[PcrdGrantQ], "PcrdGrant")
        /\ response_queues'[RetryAckQ] = response_queues[RetryAckQ]
    BY <1>1, InsertType, RspFlits
  <2>2. response_queues[PcrdGrantQ] \in Seq(RspFlit(PcrdGrantQ))
    BY <1>1, RspFlits DEF ResponsesTypeOK
  <2>3. QED
    BY <2>1, <2>2, RspFlits, AppendProperties
<1> HIDE DEF c, s
<1>7. InMatrix' = InMatrix - 1
  <2>1. v \in Nat
    BY <1>3
  <2>2. retry_matrix \in Matrix /\ retry_matrix' \in Matrix
    BY <1>1, <1>2, <1>3, <1>5, <2>1 DEF RetryTypeOK, SetCell, Matrix
  <2> HIDE DEF v
  <2>3. SumsDiffer(retry_matrix, retry_matrix', v, retry_matrix[c][s])
    BY <1>2, <1>3, <1>5, <2>1, <2>2, CellsUpdate, Zenon
  <2>4. SumFunction(Cells(retry_matrix')) = SumFunction(Cells(retry_matrix)) - 1
    BY <1>3, <2>3 DEF v, SumsDiffer
  <2>5. QED
    BY <2>4 DEF InMatrix, Cells
<1>8. Promised' = Promised + 1
  <2>1. p_credit["HPR"] \in Nat /\ p_credit["LGPR"] \in Nat /\ p_credit["TPW"] \in Nat
        /\ p_credit["CMO"] \in Nat /\ DOMAIN p_credit = {"HPR", "LGPR", "TPW", "CMO"}
    BY <1>1 DEF RetryTypeOK, Pool
  <2>2. \A p \in {"HPR", "LGPR", "TPW", "CMO"} :
          p_credit'[p] = IF p = PoolOf(c) THEN p_credit[p] + 1 ELSE p_credit[p]
    BY <1>5, <2>1
  <2>3. QED
    BY <1>4, <2>1, <2>2 DEF Promised
<1>9. UNCHANGED <<retried, grants, resent>>
  BY DEF upVars
<1>10. Len(response_queues[PcrdGrantQ]) \in Nat /\ grants \in Nat
  BY BooksType
<1>11. Granted' = Granted + 1
  BY <1>6, <1>9, <1>10 DEF Granted
<1>12. QED
  BY <1>6, <1>7, <1>8, <1>9, <1>11 DEF BooksGrant, Acked

(* resp_arbit_s1: a flit moves from its queue to upstream. *)
LEMMA ResponseBooks ==
  ASSUME SourcesKnown, TypeOK, noc_clock_posedge
  PROVE  BooksUnchanged
<1>1. ResponsesTypeOK /\ PeersTypeOK
  BY BuffersParts DEF TypeOK
<1>2. resp_arbit_s1 /\ UNCHANGED <<retry_matrix, p_credit, resent>>
  BY DEF noc_clock_posedge, retryVars
<1>3. SumFunction(retried) \in Nat /\ grants \in Nat
      /\ Len(response_queues[RetryAckQ]) \in Nat /\ Len(response_queues[PcrdGrantQ]) \in Nat
  BY BooksType
<1>4. Acked' = Acked /\ Granted' = Granted
  <2>1. CASE ~HasRspPending
    BY <1>2, <2>1 DEF resp_arbit_s1, rspVars, Acked, Granted
  <2>2. CASE HasRspPending
    <3> DEFINE q == Arbiter
               flit == Head(response_queues[q])
    <3>1. q \in Rsp /\ response_queues[q] # <<>> /\ response_queues[q] \in Seq(RspFlit(q))
      BY <1>1, <2>2, ArbiterPicks DEF ResponsesTypeOK
    <3>2. /\ response_queues' = [response_queues EXCEPT ![q] = Tail(response_queues[q])]
          /\ retried' = IF q = RetryAckQ THEN [retried EXCEPT ![flit] = retried[flit] + 1] ELSE retried
          /\ grants' = IF q = PcrdGrantQ THEN grants + 1 ELSE grants
      BY <1>2, <2>2 DEF resp_arbit_s1
    <3>3. flit \in RspFlit(q) /\ Len(response_queues[q]) \in Nat
          /\ Len(Tail(response_queues[q])) = Len(response_queues[q]) - 1
      BY <3>1, HeadTailProperties, LenProperties
    <3>4. \A p \in Rsp : response_queues'[p] = IF p = q THEN Tail(response_queues[q]) ELSE response_queues[p]
      BY <1>1, <3>1, <3>2 DEF ResponsesTypeOK
    <3> HIDE DEF q, flit
    <3>5. Granted' = Granted
      <4>1. response_queues'[PcrdGrantQ] = IF PcrdGrantQ = q THEN Tail(response_queues[q])
                                           ELSE response_queues[PcrdGrantQ]
        BY <3>4, RspFlits
      <4>2. CASE PcrdGrantQ = q
        <5>1. Len(response_queues'[PcrdGrantQ]) = Len(response_queues[PcrdGrantQ]) - 1
              /\ grants' = grants + 1
          BY <3>2, <3>3, <4>1, <4>2
        <5>2. Granted' = Len(response_queues'[PcrdGrantQ]) + grants'
          BY DEF Granted
        <5>3. Len(response_queues'[PcrdGrantQ]) + grants' = Len(response_queues[PcrdGrantQ]) + grants
          <6>1. \A m, n \in Nat : (m - 1) + (n + 1) = m + n
            OBVIOUS
          <6>2. QED
            BY <1>3, <5>1, <6>1
        <5>4. QED
          BY <5>2, <5>3 DEF Granted
      <4>3. CASE PcrdGrantQ # q
        <5>1. response_queues'[PcrdGrantQ] = response_queues[PcrdGrantQ] /\ grants' = grants
          BY <3>2, <4>1, <4>3
        <5>2. QED
          BY <5>1 DEF Granted
      <4>4. QED
        BY <4>2, <4>3
    <3>6. CASE q = RetryAckQ
      <4>1. flit \in Kinds /\ retried \in [Kinds -> Nat] /\ retried[flit] \in Nat
        BY <1>1, <3>3, <3>6, RspFlits DEF PeersTypeOK
      <4>2. retried' = [retried EXCEPT ![flit] = retried[flit] + 1]
        BY <3>2, <3>6
      <4>3. retried' \in [Kinds -> Nat] /\ retried'[flit] = retried[flit] + 1
            /\ EqualBut(retried, retried', Kinds, flit)
        BY <4>1, <4>2 DEF EqualBut
      <4>4. SumFunction(retried') + retried[flit] = SumFunction(retried) + retried'[flit]
        <5>1. IsFiniteSet(Kinds)
          BY KindsFinite DEF SourcesKnown
        <5>2. QED
          BY <4>1, <4>3, <5>1, SumUpdate
      <4>5. SumFunction(retried') \in Nat
        BY <4>3, KindsFinite, SumType DEF SourcesKnown
      <4>6. SumFunction(retried') = SumFunction(retried) + 1
        BY <1>3, <4>1, <4>3, <4>4, <4>5
      <4>7. Len(response_queues'[RetryAckQ]) = Len(response_queues[RetryAckQ]) - 1
        BY <3>3, <3>4, <3>6, RspFlits
      <4>8. SumFunction(retried)' = SumFunction(retried')
        OBVIOUS
      <4>9. QED
        BY <1>3, <3>5, <4>6, <4>7, <4>8 DEF Acked
    <3>7. CASE q # RetryAckQ
      <4>1. response_queues'[RetryAckQ] = response_queues[RetryAckQ] /\ retried' = retried
        BY <3>2, <3>4, <3>7, RspFlits
      <4>2. QED
        BY <3>5, <4>1 DEF Acked
    <3>8. QED
      BY <3>6, <3>7
  <2>3. QED
    BY <2>1, <2>2
<1>5. InMatrix' = InMatrix /\ Promised' = Promised
  BY <1>2 DEF InMatrix, Promised
<1>6. QED
  BY <1>2, <1>4, <1>5 DEF BooksUnchanged

(* UpResend: a RetryAck and a PcrdGrant are used up together. *)
LEMMA ResendBooks ==
  ASSUME SourcesKnown, TypeOK, NEW k \in Kinds, UpResend(k)
  PROVE  BooksResend
<1>1. /\ resent' = resent + 1 /\ grants' = grants - 1 /\ grants > 0 /\ retried[k] > 0
      /\ retried' = [retried EXCEPT ![k] = retried[k] - 1]
      /\ UNCHANGED <<response_queues, retry_matrix, p_credit>>
  BY DEF UpResend, rspVars, retryVars
<1>2. retried \in [Kinds -> Nat] /\ retried[k] \in Nat
  BY DEF TypeOK, PeersTypeOK
<1>3. /\ SumFunction(retried) \in Nat /\ grants \in Nat
      /\ Len(response_queues[RetryAckQ]) \in Nat /\ Len(response_queues[PcrdGrantQ]) \in Nat
  BY BooksType
<1>4. retried[k] - 1 \in Nat
  BY <1>1, <1>2
<1>5. retried' \in [Kinds -> Nat] /\ retried'[k] = retried[k] - 1
      /\ EqualBut(retried, retried', Kinds, k)
  BY <1>1, <1>2, <1>4 DEF EqualBut
<1>6. SumFunction(retried') + retried[k] = SumFunction(retried) + retried'[k]
  <2>1. IsFiniteSet(Kinds)
    BY KindsFinite DEF SourcesKnown
  <2>2. QED
    BY <1>2, <1>5, <2>1, SumUpdate, Zenon
<1>7. SumFunction(retried') \in Nat
  BY <1>5, KindsFinite, SumType DEF SourcesKnown
<1>8. SumFunction(retried') = SumFunction(retried) - 1
  BY <1>2, <1>3, <1>5, <1>6, <1>7
<1>9. Acked' = Acked - 1
  BY <1>1, <1>3, <1>8 DEF Acked
<1>10. Granted' = Granted - 1
  BY <1>1, <1>3 DEF Granted
<1>11. QED
  BY <1>1, <1>9, <1>10 DEF BooksResend, InMatrix, Promised

(* Every step. *)
LEMMA BooksStep ==
  ASSUME SourcesKnown, TypeOK, [Next]_vars
  PROVE  BooksUnchanged \/ BooksRetry \/ BooksGrant \/ BooksResend
<1>1. BuffersTypeOK /\ P2cTypeOK /\ PipesTypeOK
  BY DEF TypeOK
<1>2. ASSUME response_queues'[RetryAckQ] = response_queues[RetryAckQ],
             response_queues'[PcrdGrantQ] = response_queues[PcrdGrantQ],
             UNCHANGED <<retried, grants, resent, retry_matrix, p_credit>>
      PROVE  BooksUnchanged
  BY <1>2 DEF BooksUnchanged, Acked, Granted, InMatrix, Promised
<1>3. ASSUME NEW q \in Rsp \ {RetryAckQ, PcrdGrantQ}, NEW flit \in RspFlit(q), Insert(q, flit)
      PROVE  /\ response_queues'[RetryAckQ] = response_queues[RetryAckQ]
             /\ response_queues'[PcrdGrantQ] = response_queues[PcrdGrantQ]
  BY <1>1, <1>3, InsertType, RspFlits
<1>4. CASE req_pop_s3
  <2>1. UNCHANGED <<retried, grants, resent, retry_matrix, p_credit>>
    BY <1>1, <1>4, PopOutcome DEF P2cTypeOK, OthersOfPop, upVars, retryVars
  <2>2. \/ UNCHANGED response_queues
        \/ Insert(ReadReceiptQ, "ReadReceipt")
        \/ Insert(CompQ, "Comp")
    BY <1>1, <1>4, PopOutcome DEF P2cTypeOK, PopRead, PopWrite, rspVars
  <2>3. /\ response_queues'[RetryAckQ] = response_queues[RetryAckQ]
        /\ response_queues'[PcrdGrantQ] = response_queues[PcrdGrantQ]
    <3>1. CASE UNCHANGED response_queues
      BY <3>1
    <3>2. CASE Insert(ReadReceiptQ, "ReadReceipt")
      BY <1>3, <3>2, RspFlits
    <3>3. CASE Insert(CompQ, "Comp")
      BY <1>3, <3>3, RspFlits
    <3>4. QED
      BY <2>2, <3>1, <3>2, <3>3
  <2>4. QED
    BY <1>2, <2>1, <2>3
<1>5. CASE req_decision_s2
  <2>1. UNCHANGED upVars
    BY <1>5 DEF req_decision_s2
  <2>2. \/ UNCHANGED <<response_queues, retryVars>>
        \/ \E k \in Kinds : Retry(k)
        \/ unallocated_dbid # {} /\ Insert(DbidQ, Min(unallocated_dbid)) /\ UNCHANGED retryVars
    BY <1>1, <1>5, DecisionOutcome DEF PipesTypeOK, AcceptRead, AcceptWrite
  <2>3. CASE UNCHANGED <<response_queues, retryVars>>
    BY <1>2, <2>1, <2>3 DEF upVars, retryVars
  <2>4. CASE \E k \in Kinds : Retry(k)
    BY <2>1, <2>4, RetryBooks
  <2>5. CASE unallocated_dbid # {} /\ Insert(DbidQ, Min(unallocated_dbid)) /\ UNCHANGED retryVars
    <3>1. Min(unallocated_dbid) \in Dbid
      BY <1>1, <2>5, MinIsLeast, DbidNotNoHead DEF BuffersTypeOK
    <3>2. /\ response_queues'[RetryAckQ] = response_queues[RetryAckQ]
          /\ response_queues'[PcrdGrantQ] = response_queues[PcrdGrantQ]
      BY <1>3, <2>5, <3>1, RspFlits
    <3>3. QED
      BY <1>2, <2>1, <2>5, <3>2 DEF upVars, retryVars
  <2>6. QED
    BY <2>2, <2>3, <2>4, <2>5
<1>6. CASE resp_gen_pcrd
  <2>1. UNCHANGED upVars
    BY <1>6 DEF resp_gen_pcrd
  <2>2. CASE is_need_to_send_pcrd_grant
    BY <1>6, <2>1, <2>2, GrantBooks DEF resp_gen_pcrd
  <2>3. CASE ~is_need_to_send_pcrd_grant
    BY <1>2, <1>6, <2>1, <2>3 DEF resp_gen_pcrd, upVars, retryVars
  <2>4. QED
    BY <2>2, <2>3
<1>7. CASE \/ wdat_push_s2 \/ wdat_decode_s1 \/ req_decode_s1 \/ Controller \/ UNCHANGED vars
           \/ (\E k \in Kinds : UpSendReq(k)) \/ (\E d \in Dbid : UpSendBeat(d))
  <2>1. UNCHANGED <<response_queues, retried, grants, resent, retryVars>>
    BY <1>7 DEF wdat_push_s2, wdat_decode_s1, req_decode_s1, Controller, UifCredit, UifRdatEnd,
      UifRdatEndThrows, RmwStored, StopIdle, Stop,
      UifWdatReq, UifWdatEnd, UpSendReq, UpSendBeat, rspVars, upVars, vars
  <2>2. QED
    BY <1>2, <2>1 DEF retryVars
<1>8. QED
  BY <1>4, <1>5, <1>6, <1>7, ResponseBooks, ResendBooks DEF Next, dfi_clock_posedge, Upstream

LEMMA BooksBalanceStep ==
  ASSUME SourcesKnown, TypeOK, TypeOK', GrantsMatchRetries, GrantsStayCounted, [Next]_vars
  PROVE  GrantsMatchRetries' /\ GrantsStayCounted'
<1>1. GrantsMatchRetries <=> Acked = Granted + InMatrix
  BY DEF GrantsMatchRetries, Acked, Granted, InMatrix
<1>2. GrantsMatchRetries' <=> Acked' = Granted' + InMatrix'
  BY DEF GrantsMatchRetries, Acked, Granted, InMatrix
<1>3. Acked \in Nat /\ Granted \in Nat /\ InMatrix \in Nat /\ Promised \in Nat /\ resent \in Nat
  BY BooksType DEF Acked, Granted
<1>4. Acked' = Granted' + InMatrix' /\ Promised' = Granted' + resent'
  <2>1. Acked = Granted + InMatrix /\ Promised = Granted + resent
    BY <1>1 DEF GrantsStayCounted
  <2>2. BooksUnchanged \/ BooksRetry \/ BooksGrant \/ BooksResend
    BY BooksStep
  <2>3. QED
    BY <1>3, <2>1, <2>2 DEF BooksUnchanged, BooksRetry, BooksGrant, BooksResend
<1>5. QED
  BY <1>2, <1>4 DEF GrantsStayCounted

LEMMA BooksInit == SourcesKnown /\ Init => GrantsMatchRetries /\ GrantsStayCounted
<1> SUFFICES ASSUME SourcesKnown, Init PROVE GrantsMatchRetries /\ GrantsStayCounted
  OBVIOUS
<1>1. response_queues[RetryAckQ] = <<>> /\ response_queues[PcrdGrantQ] = <<>>
  BY RspFlits DEF Init, BuffersInit
<1>2. Len(response_queues[RetryAckQ]) = 0 /\ Len(response_queues[PcrdGrantQ]) = 0
  BY <1>1, EmptySeq
<1>3. SumFunction(retried) = 0
  BY KindsFinite, SumZero DEF Init, SourcesKnown
<1>4. SumFunction(Cells(retry_matrix)) = 0
  <2>1. Cells(retry_matrix) \in [PortCmdType \X SrcId -> Nat]
        /\ \A x \in PortCmdType \X SrcId : Cells(retry_matrix)[x] = 0
    BY DEF Init, RetryInit, Cells
  <2>2. QED
    BY <2>1, CellsFinite, SumZero
<1>5. grants = 0 /\ resent = 0
  BY DEF Init
<1>6. Promised = 0
  BY DEF Init, RetryInit, Promised, Pool
<1>7. QED
  BY <1>2, <1>3, <1>4, <1>5, <1>6 DEF GrantsMatchRetries, GrantsStayCounted, Granted

(* No P-credit is lost or given twice, whatever the number of sources, classes and
   requests: as long as the matrix has a place for every source, the RetryAcks
   upstream has not acted on are matched by the P-credits it has not used and the
   requests still in the matrix.  (cnt_inc forgets a request of any other source:
   its RetryAck would never be followed by a PcrdGrant.) *)
THEOREM GrantsAlwaysMatchRetries ==
  ASSUME SourcesKnown
  PROVE  Spec => []GrantsMatchRetries
<1>1. Init => GrantsMatchRetries /\ GrantsStayCounted
  BY BooksInit
<1>2. PortInv /\ PortInv' /\ GrantsMatchRetries /\ GrantsStayCounted /\ [Next]_vars
        => GrantsMatchRetries' /\ GrantsStayCounted'
  BY BooksBalanceStep DEF PortInv
<1>3. QED
  BY <1>1, <1>2, PortInvariant, PTL DEF Spec

(* A P-credit once promised is counted for ever: the four counters that is_full
   adds to the queues are the PcrdGrants upstream holds or will receive plus every
   request that was ever sent again.  Nothing calls send_upstream_p_credit_dec. *)
THEOREM GrantsNeverForgotten ==
  ASSUME SourcesKnown
  PROVE  Spec => []GrantsStayCounted
<1>1. Init => GrantsMatchRetries /\ GrantsStayCounted
  BY BooksInit
<1>2. PortInv /\ PortInv' /\ GrantsMatchRetries /\ GrantsStayCounted /\ [Next]_vars
        => GrantsMatchRetries' /\ GrantsStayCounted'
  BY BooksBalanceStep DEF PortInv
<1>3. QED
  BY <1>1, <1>2, PortInvariant, PTL DEF Spec

(* The queue of a pool of P-credits. *)
PoolQueue(p) == CASE p = "HPR" -> "HPR" [] p = "LGPR" -> "LPR" [] p = "TPW" -> "TPW"

(* As many P-credits were promised as the queue has places. *)
UsedUp(p) == p_credit[p] >= MaxQueueDepth(PoolQueue(p))

LEMMA CreditsOnlyGrow ==
  ASSUME TypeOK, [Next]_vars, NEW p \in Pool
  PROVE  p_credit[p] \in Nat /\ p_credit'[p] \in Nat /\ p_credit'[p] >= p_credit[p]
<1>1. BuffersTypeOK /\ P2cTypeOK /\ PipesTypeOK /\ RetryTypeOK
  BY DEF TypeOK
<1>2. p_credit \in [Pool -> Nat] /\ p_credit[p] \in Nat
  BY <1>1 DEF RetryTypeOK
<1>3. UNCHANGED p_credit \/ \E r \in Pool : p_credit' = [p_credit EXCEPT ![r] = p_credit[r] + 1]
  <2>1. CASE req_pop_s3
    BY <1>1, <2>1, PopOutcome DEF P2cTypeOK, OthersOfPop, retryVars
  <2>2. CASE req_decision_s2
    BY <1>1, <2>2, DecisionOutcome DEF PipesTypeOK, Retry, AcceptRead, AcceptWrite, retryVars
  <2>3. CASE resp_gen_pcrd
    <3>1. CASE is_need_to_send_pcrd_grant
      <4>1. PoolOf(SelectedCmdType) \in Pool
        BY <1>1, <3>1, SelectedCmdTypeWaits DEF PoolOf, Pool, PortCmdType
      <4>2. p_credit' = [p_credit EXCEPT ![PoolOf(SelectedCmdType)] = p_credit[PoolOf(SelectedCmdType)] + 1]
        BY <2>3, <3>1 DEF resp_gen_pcrd, GrantPcrd
      <4>3. QED
        BY <4>1, <4>2
    <3>2. CASE ~is_need_to_send_pcrd_grant
      BY <2>3, <3>2 DEF resp_gen_pcrd, retryVars
    <3>3. QED
      BY <3>1, <3>2
  <2>4. CASE \/ wdat_push_s2 \/ wdat_decode_s1 \/ req_decode_s1 \/ noc_clock_posedge \/ Controller
             \/ Upstream \/ UNCHANGED vars
    BY <2>4 DEF wdat_push_s2, wdat_decode_s1, req_decode_s1, noc_clock_posedge, Controller, Upstream,
      UifCredit, UifRdatEnd, UifRdatEndThrows, RmwStored, StopIdle, Stop, UifWdatReq, UifWdatEnd, UpSendReq,
      UpResend, UpSendBeat, retryVars, vars
  <2>5. QED
    BY <2>1, <2>2, <2>3, <2>4 DEF Next, dfi_clock_posedge
<1>4. QED
  BY <1>2, <1>3

(* Sets of DBIDs, and so the queues, are finite. *)
LEMMA DbidsFinite == \A S \in SUBSET Dbid : IsFiniteSet(S) /\ Cardinality(S) \in Nat
<1>1. IsFiniteSet(Dbid)
  BY FS_Interval, BuffersAssumption DEF Dbid
<1>2. QED
  BY <1>1, FS_Subset, FS_CardinalityType

LEMMA SizesType ==
  ASSUME P2cTypeOK
  PROVE  \A q \in Queue : GetQueueSize(q) \in Nat /\ MaxQueueDepth(q) \in Nat
<1>1. Len(hpr_queue) \in Nat /\ Len(lpr_queue) \in Nat
  BY LenProperties DEF P2cTypeOK
<1>2. Cardinality(tpw_queue) \in Nat
  BY DbidsFinite DEF P2cTypeOK
<1>3. \A q \in Queue : GetQueueSize(q) \in Nat
  BY <1>1, <1>2 DEF GetQueueSize, Queue
<1>4. \A q \in Queue : MaxQueueDepth(q) \in Nat
  BY P2cAssumption DEF MaxQueueDepth, Queue
<1>5. QED
  BY <1>3, <1>4

LEMMA SizesTypes ==
  ASSUME TypeOK, TypeOK', NEW q \in Queue
  PROVE  GetQueueSize(q) \in Nat /\ MaxQueueDepth(q) \in Nat /\ GetQueueSize(q)' \in Nat
<1>1. P2cTypeOK /\ P2cTypeOK'
  BY DEF TypeOK
<1>2. Len(hpr_queue') \in Nat /\ Len(lpr_queue') \in Nat
  BY <1>1, LenProperties DEF P2cTypeOK
<1>3. Cardinality(tpw_queue') \in Nat
  BY <1>1, DbidsFinite DEF P2cTypeOK
<1>4. GetQueueSize(q)' \in Nat
  BY <1>2, <1>3 DEF GetQueueSize, Queue
<1>5. QED
  BY <1>1, <1>4, SizesType

LEMMA UsedUpIsFull ==
  ASSUME TypeOK, NEW p \in {"HPR", "LGPR", "TPW"}, UsedUp(p)
  PROVE  is_full(p)
<1>1. P2cTypeOK /\ RetryTypeOK
  BY DEF TypeOK
<1>2. p_credit[p] \in Nat
  BY <1>1 DEF RetryTypeOK, Pool
<1>3. GetQueueSize(PoolQueue(p)) \in Nat
  BY <1>1, SizesType DEF PoolQueue, Queue
<1>4. MaxQueueDepth(PoolQueue(p)) \in Int
  BY P2cAssumption DEF MaxQueueDepth, PoolQueue
<1>5. QueueFull(PoolQueue(p), p)
  BY <1>2, <1>3, <1>4 DEF UsedUp, QueueFull
<1>6. QED
  BY <1>5 DEF is_full, PoolQueue

(* Once a class has been promised as many P-credits as its queue has places, it is
   full for good, however empty the queue: is_hpr_full, is_lgpr_full or is_tpw_full
   holds in every later state, so that handle_ReadNoSnp and handle_WriteNoSnp turn
   every fresh request of the class away. *)
THEOREM UsedUpForGood ==
  ASSUME NEW p \in {"HPR", "LGPR", "TPW"}
  PROVE  Spec => [](UsedUp(p) => []is_full(p))
<1>1. PortInv /\ UsedUp(p) /\ [Next]_vars => UsedUp(p)'
  <2> SUFFICES ASSUME PortInv, UsedUp(p), [Next]_vars PROVE UsedUp(p)'
    OBVIOUS
  <2>1. p_credit[p] \in Nat /\ p_credit'[p] \in Nat /\ p_credit'[p] >= p_credit[p]
    BY CreditsOnlyGrow DEF PortInv, Pool
  <2>2. MaxQueueDepth(PoolQueue(p)) \in Int
    BY P2cAssumption DEF MaxQueueDepth, PoolQueue
  <2>3. p_credit'[p] >= MaxQueueDepth(PoolQueue(p))
    BY <2>1, <2>2 DEF UsedUp
  <2>4. QED
    BY <2>3 DEF UsedUp, MaxQueueDepth
<1>2. PortInv /\ UsedUp(p) => is_full(p)
  BY UsedUpIsFull DEF PortInv
<1>3. QED
  BY <1>1, <1>2, PortInvariant, PTL DEF Spec

-----------------------------------------------------------------------------
(* Fresh traffic *)

(* What has not been sent again may be retried. *)
FreshOnly == resent = 0 => /\ \A i \in DOMAIN req_rx : req_rx[i].allow_retry
                           /\ \A i \in DOMAIN req_s1 : req_s1[i].allow_retry

(* is_full and allocate_dbid look at two different sets: the buffers and the free
   DBIDs. *)
LEMMA FreeDbidLeft == DbidsConserved /\ ~IsArrayFull => unallocated_dbid # {}
<1> SUFFICES ASSUME DbidsConserved, unallocated_dbid = {} PROVE IsArrayFull
  OBVIOUS
<1>1. {d \in Dbid : HasBuffer(d)} = 0 .. WrDatBufferDepth - 1
  BY DEF DbidsConserved, Dbid
<1>2. Cardinality(0 .. WrDatBufferDepth - 1) = WrDatBufferDepth
  BY FS_Interval, BuffersAssumption
<1>3. Cardinality({d \in Dbid : HasBuffer(d)}) = WrDatBufferDepth
  BY <1>1, <1>2
<1>4. WrDatBufferDepth >= WrDatBufferDepth
  BY BuffersAssumption
<1>5. QED
  BY <1>3, <1>4 DEF IsArrayFull

(* HasRequest tests the table of read tags, allocate_info_tag takes a free one. *)
LEMMA FreeTagLeft == TypeOK /\ TagsConserved /\ ~RdInfoFull => unused_buffer_id # {}
<1> SUFFICES ASSUME TagsConserved, unused_buffer_id = {} PROVE RdInfoFull
  OBVIOUS
<1>1. {t \in Tag : rdata_info_buffer[t] # "free"} = 0 .. RdDatInfoDepth - 1
  BY DEF TagsConserved, Tag
<1>2. Cardinality(0 .. RdDatInfoDepth - 1) = RdDatInfoDepth
  BY FS_Interval, BuffersAssumption
<1>3. Cardinality({t \in Tag : rdata_info_buffer[t] # "free"}) = RdDatInfoDepth
  BY <1>1, <1>2
<1>4. RdDatInfoDepth >= RdDatInfoDepth
  BY BuffersAssumption
<1>5. QED
  BY <1>3, <1>4 DEF RdInfoFull

(* With PA_RDWR_SWITCH_FAST the arbiter turns to the writes only for a write that
   has a credit, and a read that wins finds a tag. *)
LEMMA PopFindsAll ==
  ASSUME SwitchFast, PortInv, req_pop_s3
  PROVE  fault' \in {fault, "lpr_credit"}
<1> DEFINE s == UpdateState
           q == GetWinningQueue(s)
<1>1. pa_state \in {"IDLE", "RD", "WR"}
  BY DEF PortInv, TypeOK, P2cTypeOK
<1>2. s \in {"IDLE", "RD", "WR"} /\ (s = "WR" => Ready("TPW"))
  BY <1>1 DEF UpdateState, HasWrRequest, IsHighPriority, IsWrHold
<1> HIDE DEF s
<1>3. q \in {"HPR", "LPR", "TPW", "NONE"} /\ (q # "NONE" => Ready(q))
  BY <1>2 DEF GetWinningQueue, IsHighPriority
<1> HIDE DEF q
<1>4. q \in {"HPR", "LPR"} => unused_buffer_id # {}
  BY <1>3, FreeTagLeft DEF Ready, HasRequest, PortInv
<1>5. q = "TPW" => head_entry # NoHead /\ HasCredit("TPW")
  BY <1>3 DEF Ready, HasRequest
<1>6. PopFault(q) \in {"none", "lpr_credit"}
  BY <1>3, <1>4, <1>5 DEF PopFault
<1>7. QED
  BY <1>6 DEF req_pop_s3, q, s, PopRead, PopWrite, Stop

(* A fresh write is accepted only when a DBID is free. *)
LEMMA FreshDecision ==
  ASSUME PortInv, FreshOnly, resent = 0, req_decision_s2
  PROVE  fault' \in {fault, "opcode"}
<1>1. req_s1 \in Seq(Request)
  BY DEF PortInv, TypeOK, PipesTypeOK
<1>2. CASE req_s1 = <<>>
  BY <1>2 DEF req_decision_s2
<1>3. CASE req_s1 # <<>>
  <2> DEFINE r == Head(req_s1)
             k == r.kind
  <2>1. r = req_s1[1] /\ 1 \in DOMAIN req_s1
    BY <1>1, <1>3, HeadTailProperties, EmptySeq
  <2>2. r.allow_retry
    BY <2>1 DEF FreshOnly
  <2> HIDE DEF r
  <2>3. CASE (IsRead(k) \/ IsWrite(k)) /\ Retry(k)
    BY <2>3 DEF Retry
  <2>4. CASE IsRead(k) /\ AcceptRead(k)
    BY <2>4 DEF AcceptRead
  <2>5. CASE IsWrite(k) /\ Accepted(r) /\ AcceptWrite(k)
    <3>1. ~is_full("TPW")
      BY <2>2, <2>5 DEF Accepted, handle_WriteNoSnp
    <3>2. ~IsArrayFull
      BY <3>1 DEF is_full
    <3>3. unallocated_dbid # {}
      BY <3>2, FreeDbidLeft DEF PortInv, WriteInv
    <3>4. QED
      BY <2>5, <3>3 DEF AcceptWrite
  <2>6. QED
    BY <1>3, <2>3, <2>4, <2>5 DEF req_decision_s2, r
<1>4. QED
  BY <1>2, <1>3

(* Only a resend brings a request that may not be retried. *)
LEMMA FreshStep == PortInv /\ FreshOnly /\ [Next]_vars => FreshOnly'
<1> SUFFICES ASSUME PortInv, FreshOnly, [Next]_vars, resent' = 0
             PROVE  /\ \A i \in DOMAIN req_rx' : req_rx'[i].allow_retry
                    /\ \A i \in DOMAIN req_s1' : req_s1'[i].allow_retry
  BY DEF FreshOnly
<1> DEFINE Fresh(s) == \A i \in DOMAIN s : s[i].allow_retry
<1>1. req_rx \in Seq(Request) /\ req_s1 \in Seq(Request) /\ resent \in Nat
  BY PortAssumption DEF PortInv, TypeOK, PipesTypeOK, PeersTypeOK
<1>2. ASSUME NEW s \in Seq(Request), NEW r \in Request, Fresh(s), r.allow_retry
      PROVE  Fresh(Append(s, r))
  BY <1>2, AppendProperties
<1>3. ASSUME NEW s \in Seq(Request), Fresh(s), s # <<>>
      PROVE  Fresh(Tail(s)) /\ Head(s) \in Request /\ Head(s).allow_retry
  <2>1. Len(s) \in Nat \ {0} /\ DOMAIN s = 1 .. Len(s)
    BY <1>3, EmptySeq, LenProperties
  <2>2. Head(s) \in Request /\ Head(s) = s[1]
    BY <1>3, HeadTailProperties
  <2>3. DOMAIN Tail(s) = 1 .. Len(s) - 1 /\ \A i \in 1 .. Len(s) - 1 : Tail(s)[i] = s[i + 1]
    BY <1>3, HeadTailProperties
  <2>4. \A i \in 1 .. Len(s) - 1 : i + 1 \in DOMAIN s
    BY <2>1
  <2>5. QED
    BY <1>3, <2>1, <2>2, <2>3, <2>4
<1>4. ASSUME NEW k \in Kinds, UpResend(k) PROVE FALSE
  BY <1>1, <1>4 DEF UpResend
<1>5. ASSUME NEW k \in Kinds, UpSendReq(k) PROVE resent = 0 /\ Fresh(req_rx') /\ Fresh(req_s1')
  <2>1. resent = 0 /\ req_s1' = req_s1
    BY <1>5 DEF UpSendReq
  <2>2. [kind |-> k, allow_retry |-> TRUE] \in Request
    BY DEF Request
  <2>3. req_rx' = Append(req_rx, [kind |-> k, allow_retry |-> TRUE])
    BY <1>5 DEF UpSendReq
  <2>4. QED
    BY <1>1, <1>2, <2>1, <2>2, <2>3 DEF FreshOnly
<1>6. CASE req_decode_s1
  <2>1. resent = 0
    BY <1>6 DEF req_decode_s1, upVars
  <2>2. Fresh(req_rx) /\ Fresh(req_s1)
    BY <2>1 DEF FreshOnly
  <2>3. CASE req_rx # <<>> /\ req_s1' = Append(req_s1, Head(req_rx)) /\ req_rx' = Tail(req_rx)
    BY <1>1, <1>2, <1>3, <2>2, <2>3
  <2>4. CASE UNCHANGED <<req_s1, req_rx>>
    BY <2>2, <2>4
  <2>5. QED
    BY <1>6, <2>3, <2>4 DEF req_decode_s1
<1>7. CASE req_decision_s2
  <2>1. resent = 0 /\ req_rx' = req_rx /\ req_s1' = IF req_s1 = <<>> THEN <<>> ELSE Tail(req_s1)
    BY <1>1, <1>7, DecisionOutcome DEF OthersOfDecision, upVars
  <2>2. Fresh(req_rx) /\ Fresh(req_s1)
    BY <2>1 DEF FreshOnly
  <2>3. QED
    BY <1>1, <1>3, <2>1, <2>2
<1>8. CASE req_pop_s3
  <2>1. UNCHANGED <<req_rx, req_s1, resent>>
    BY <1>8, PopOutcome DEF PortInv, TypeOK, P2cTypeOK, OthersOfPop, pipeVars, upVars
  <2>2. QED
    BY <2>1 DEF FreshOnly
<1>9. CASE \/ wdat_push_s2 \/ wdat_decode_s1 \/ resp_gen_pcrd \/ noc_clock_posedge \/ Controller
           \/ (\E d \in Dbid : UpSendBeat(d)) \/ UNCHANGED vars
  <2>1. UNCHANGED <<req_rx, req_s1, resent>>
    BY <1>9 DEF wdat_push_s2, wdat_decode_s1, resp_gen_pcrd, noc_clock_posedge, Controller, UpSendBeat,
      UifCredit, UifRdatEnd, UifRdatEndThrows, RmwStored, StopIdle, Stop, UifWdatReq, UifWdatEnd, pipeVars,
      upVars, vars
  <2>2. QED
    BY <2>1 DEF FreshOnly
<1>10. QED
  BY <1>4, <1>5, <1>6, <1>7, <1>8, <1>9 DEF Next, dfi_clock_posedge, Upstream

(* While no read-modify-write has gone to the controller, none waits there, and
   the reads it works on are those whose entries wait for their data. *)
WritesPlain == \A d \in Dbid : uif_wr[d] # "none" => ~UifRmw(buffer_payload[d])
ReadsWaiting ==
  \A i \in CmdId : /\ uif_rd[i] \in {0, 1}
                   /\ uif_rd[i] = 1 => i \in Tag /\ rdata_info_buffer[i] = "waiting"
ReadsAwaited == ~rmw_sent => WritesPlain /\ ReadsWaiting /\ fault \notin RmwFault

LEMMA PlainStays ==
  ASSUME WritesPlain, UNCHANGED buffer_payload, \A d \in Dbid : uif_wr'[d] = "none" <=> uif_wr[d] = "none"
  PROVE  WritesPlain'
BY Zenon DEF WritesPlain

LEMMA WaitingStays == ReadsWaiting /\ UNCHANGED <<uif_rd, rdata_info_buffer>> => ReadsWaiting'
BY DEF ReadsWaiting

(* A read takes the tag of an entry that is free, so no other read has it. *)
LEMMA WaitingPop ==
  ASSUME PortInv, ReadsWaiting, NEW q \in {"HPR", "LPR"}, unused_buffer_id # {}, PopRead(q)
  PROVE  ReadsWaiting'
<1>1. PICK t : t = Min(unused_buffer_id)
  OBVIOUS
<1>2. /\ unused_buffer_id \subseteq Tag /\ rdata_info_buffer \in [Tag -> {"free", "waiting", "ready"}]
      /\ uif_rd \in [CmdId -> Nat]
  BY DEF PortInv, TypeOK, BuffersTypeOK, PeersTypeOK
<1>3. t \in Tag /\ t \in unused_buffer_id
  <2>1. unused_buffer_id \in SUBSET Nat
    BY <1>2, BuffersAssumption DEF Tag
  <2>2. QED
    BY <1>1, <1>2, <2>1, MinIsLeast
<1>4. rdata_info_buffer[t] = "free"
  BY <1>3 DEF PortInv, TagsConserved
<1>5. t \in CmdId /\ uif_rd[t] = 0
  BY <1>3, <1>4 DEF ReadsWaiting, CmdId
<1>6. rdata_info_buffer' = [rdata_info_buffer EXCEPT ![t] = "waiting"] /\ uif_rd' = [uif_rd EXCEPT ![t] = @ + 1]
  BY <1>1 DEF PopRead, allocate_info_tag
<1>7. QED
  BY <1>2, <1>3, <1>5, <1>6 DEF ReadsWaiting

LEMMA PopAwaits ==
  ASSUME PortInv, ~rmw_sent, ~rmw_sent', WritesPlain, ReadsWaiting, req_pop_s3
  PROVE  WritesPlain' /\ ReadsWaiting'
<1>1. UNCHANGED <<bufferVars>>
  BY PopOutcome DEF PortInv, TypeOK, P2cTypeOK, OthersOfPop
<1>2. CASE UNCHANGED <<rdVars, uif_wr>>
  BY <1>1, <1>2, PlainStays, WaitingStays DEF rdVars, infoVars, bufferVars
<1>3. ASSUME NEW q \in {"HPR", "LPR"}, unused_buffer_id # {}, PopRead(q) PROVE WritesPlain' /\ ReadsWaiting'
  <2>1. UNCHANGED <<buffer_payload, uif_wr>>
    BY <1>3 DEF PopRead, bufferVars
  <2>2. QED
    BY <1>3, <2>1, PlainStays, WaitingPop
<1>4. CASE head_entry # NoHead /\ PopWrite
  <2>1. ~UifRmw(buffer_payload[head_entry])
    BY <1>4, Zenon DEF PopWrite
  <2>2. UNCHANGED <<uif_rd, rdata_info_buffer, buffer_payload>>
    BY <1>4, <2>1, Zenon DEF PopWrite, infoVars, bufferVars
  <2>3. uif_wr' = [uif_wr EXCEPT ![head_entry] = "req"] /\ DOMAIN uif_wr = Dbid
    BY <1>4 DEF PopWrite, PortInv, TypeOK, PeersTypeOK
  <2>4. \A d \in Dbid : d # head_entry => uif_wr'[d] = uif_wr[d]
    BY <2>3
  <2>5. WritesPlain'
    BY <2>1, <2>2, <2>4, Zenon DEF WritesPlain
  <2>6. QED
    BY <2>2, <2>5, WaitingStays
<1>5. QED
  BY <1>2, <1>3, <1>4, PopOutcome DEF PortInv, TypeOK, P2cTypeOK

(* The buffer of a write that is accepted was free. *)
LEMMA DecisionAwaits ==
  ASSUME PortInv, WritesPlain, ReadsWaiting, req_decision_s2
  PROVE  WritesPlain' /\ ReadsWaiting'
<1>1. DbidsConserved /\ BuffersArrayOK /\ req_s1 \in Seq(Request)
  BY BuffersParts DEF PortInv, WriteInv, TypeOK, PipesTypeOK
<1>2. UNCHANGED <<uif_wr, uif_rd, rdata_info_buffer>>
  BY <1>1, DecisionOutcome DEF OthersOfDecision, rdVars, infoVars
<1>3. CASE UNCHANGED bufferVars
  BY <1>2, <1>3, PlainStays, WaitingStays DEF bufferVars
<1>4. ASSUME NEW k \in Kinds, AcceptWrite(k), unallocated_dbid # {} PROVE WritesPlain'
  <2>1. PICK d : d = Min(unallocated_dbid)
    OBVIOUS
  <2>2. d \in Dbid /\ d \in unallocated_dbid
    BY <1>1, <1>4, <2>1, MinIsLeast, DbidNotNoHead DEF BuffersArrayOK
  <2>3. uif_wr[d] = "none"
    BY <1>1, <2>2 DEF DbidsConserved
  <2>4. buffer_payload' = [buffer_payload EXCEPT ![d] = k]
    BY <1>4, <2>1 DEF AcceptWrite, allocate_dbid
  <2>5. \A e \in Dbid : e # d => buffer_payload'[e] = buffer_payload[e]
    BY <1>1, <2>4 DEF BuffersArrayOK
  <2>6. QED
    BY <1>2, <2>3, <2>5 DEF WritesPlain
<1>5. ASSUME NEW k \in Kinds, Retry(k) \/ AcceptRead(k) \/ (AcceptWrite(k) /\ unallocated_dbid = {})
      PROVE  UNCHANGED bufferVars
  BY <1>5 DEF Retry, AcceptRead, AcceptWrite
<1>6. WritesPlain'
  BY <1>1, <1>3, <1>4, <1>5, DecisionOutcome
<1>7. QED
  BY <1>2, <1>6, WaitingStays

(* The data of a read finds its entry, and the write that leaves the controller
   takes its payload along. *)
LEMMA ControllerAwaits ==
  ASSUME PortInv, WritesPlain, ReadsWaiting, Controller
  PROVE  WritesPlain' /\ ReadsWaiting' /\ fault' = fault
<1>1. /\ uif_rd \in [CmdId -> Nat] /\ rdata_info_buffer \in [Tag -> {"free", "waiting", "ready"}]
      /\ uif_wr \in [Dbid -> {"none", "req", "end_now", "end_next"}] /\ BuffersArrayOK
  BY BuffersParts DEF PortInv, TypeOK, BuffersTypeOK, PeersTypeOK
<1>2. ASSUME NEW i \in CmdId, UifRdatEnd(i) PROVE WritesPlain' /\ ReadsWaiting' /\ fault' = fault
  <2>1. UNCHANGED <<buffer_payload, uif_wr, fault>>
    BY <1>2 DEF UifRdatEnd, Idle, bufferVars
  <2>2. i \in Tag /\ uif_rd[i] = 1
    BY <1>2 DEF UifRdatEnd, HasEntry, ReadsWaiting
  <2>3. uif_rd' = [uif_rd EXCEPT ![i] = @ - 1] /\ rdata_info_buffer' = [rdata_info_buffer EXCEPT ![i] = "ready"]
    BY <1>2 DEF UifRdatEnd, set_entry_data_ready
  <2>4. ReadsWaiting'
    BY <1>1, <2>2, <2>3 DEF ReadsWaiting
  <2>5. QED
    BY <2>1, <2>4, PlainStays
<1>3. ASSUME NEW i \in CmdId, UifRdatEndThrows(i) PROVE FALSE
  BY <1>1, <1>3 DEF UifRdatEndThrows, HasEntry, ReadsWaiting
<1>4. ASSUME NEW d \in Dbid, RmwStored(d) PROVE FALSE
  BY <1>4 DEF RmwStored, WritesPlain
<1>5. ASSUME NEW d \in Dbid, UifWdatReq(d) PROVE WritesPlain' /\ ReadsWaiting' /\ fault' = fault
  <2>1. UNCHANGED <<buffer_payload, uif_rd, rdata_info_buffer, fault>>
    BY <1>5 DEF UifWdatReq, Idle, bufferVars, rdVars, infoVars
  <2>2. \A e \in Dbid : uif_wr'[e] = "none" <=> uif_wr[e] = "none"
    BY <1>1, <1>5 DEF UifWdatReq
  <2>3. QED
    BY <2>1, <2>2, PlainStays, WaitingStays
<1>6. ASSUME NEW d \in Dbid, UifWdatEnd(d) PROVE WritesPlain' /\ ReadsWaiting' /\ fault' = fault
  <2>1. UNCHANGED <<uif_rd, rdata_info_buffer, fault>>
    BY <1>6 DEF UifWdatEnd, Idle, rdVars, infoVars
  <2>2. \A e \in Dbid : /\ uif_wr'[e] = IF e = d THEN "none" ELSE uif_wr[e]
                        /\ e # d => buffer_payload'[e] = buffer_payload[e]
    BY <1>1, <1>6 DEF UifWdatEnd, release_dbid, BuffersArrayOK
  <2>3. WritesPlain'
    BY <2>2 DEF WritesPlain
  <2>4. QED
    BY <2>1, <2>3, WaitingStays
<1>7. ASSUME NEW S \in (SUBSET Queue) \ {{}}, UifCredit(S) PROVE WritesPlain' /\ ReadsWaiting' /\ fault' = fault
  BY <1>7, PlainStays, WaitingStays DEF UifCredit, Idle, bufferVars, rdVars, infoVars
<1>8. QED
  BY <1>2, <1>3, <1>4, <1>5, <1>6, <1>7 DEF Controller

LEMMA AwaitedStep == PortInv /\ ReadsAwaited /\ [Next]_vars => ReadsAwaited'
<1> SUFFICES ASSUME PortInv, ReadsAwaited, [Next]_vars, ~rmw_sent'
             PROVE  WritesPlain' /\ ReadsWaiting' /\ fault' \notin RmwFault
  BY DEF ReadsAwaited
<1>1. ~rmw_sent
  <2>1. CASE req_pop_s3
    BY <2>1, PopOutcome, Zenon DEF PortInv, TypeOK, P2cTypeOK, PopRead, PopWrite, rdVars
  <2>2. CASE req_decision_s2
    BY <2>2, DecisionOutcome, Zenon DEF PortInv, TypeOK, PipesTypeOK, OthersOfDecision, rdVars
  <2>3. CASE ~req_pop_s3 /\ ~req_decision_s2
    BY <2>3, Zenon DEF Next, dfi_clock_posedge, wdat_push_s2, wdat_decode_s1, resp_gen_pcrd, req_decode_s1,
      noc_clock_posedge, rdat_arbit_s1, Controller, Upstream, UifCredit, UifRdatEnd, UifRdatEndThrows,
      RmwStored, StopIdle, Stop, UifWdatReq, UifWdatEnd, UpSendReq, UpResend, UpSendBeat, rdVars, vars
  <2>4. QED
    BY <2>1, <2>2, <2>3
<1>2. WritesPlain /\ ReadsWaiting /\ fault \notin RmwFault
  BY <1>1 DEF ReadsAwaited
<1>3. CASE req_pop_s3
  <2>1. fault' \in {fault, "no_head", "tpw_credit", "lpr_credit", "no_tag"}
    BY <1>3, PopOutcome DEF PortInv, TypeOK, P2cTypeOK
  <2>2. QED
    BY <1>1, <1>2, <1>3, <2>1, PopAwaits DEF RmwFault
<1>4. CASE req_decision_s2
  <2>1. fault' \in {fault, "opcode", "no_dbid"}
    BY <1>4, DecisionOutcome DEF PortInv, TypeOK, PipesTypeOK, Retry, AcceptRead, AcceptWrite
  <2>2. QED
    BY <1>2, <1>4, <2>1, DecisionAwaits DEF RmwFault
<1>5. CASE wdat_push_s2
  <2>1. UNCHANGED <<buffer_payload, uif_rd, rdata_info_buffer>> /\ fault' \in {fault, "no_buffer"}
    BY <1>5 DEF wdat_push_s2, bufferVars, rdVars, infoVars
  <2>2. \A d \in Dbid : uif_wr'[d] = "none" <=> uif_wr[d] = "none"
    BY <1>5 DEF wdat_push_s2
  <2>3. QED
    BY <1>2, <2>1, <2>2, PlainStays, WaitingStays DEF RmwFault
<1>6. CASE noc_clock_posedge
  <2>1. UNCHANGED <<buffer_payload, uif_wr, uif_rd, fault>>
    BY <1>6 DEF noc_clock_posedge, rdat_arbit_s1, Idle, bufferVars, rdVars
  <2>2. UNCHANGED rdata_info_buffer \/ \E t \in Tag : /\ rdata_info_buffer[t] = "ready"
                                                      /\ rdata_info_buffer' = [rdata_info_buffer EXCEPT ![t] = "free"]
    BY <1>6 DEF noc_clock_posedge, rdat_arbit_s1, erase_entry, rdVars, infoVars
  <2>3. rdata_info_buffer \in [Tag -> {"free", "waiting", "ready"}]
    BY DEF PortInv, TypeOK, BuffersTypeOK
  <2>4. ReadsWaiting'
    BY <1>2, <2>1, <2>2, <2>3 DEF ReadsWaiting
  <2>5. QED
    BY <1>2, <2>1, <2>4, PlainStays
<1>7. CASE Controller
  BY <1>2, <1>7, ControllerAwaits
<1>8. CASE wdat_decode_s1 \/ resp_gen_pcrd \/ req_decode_s1 \/ Upstream \/ UNCHANGED vars
  <2>1. UNCHANGED <<buffer_payload, uif_wr, uif_rd, rdata_info_buffer, fault>>
    BY <1>8 DEF wdat_decode_s1, resp_gen_pcrd, req_decode_s1, Upstream, UpSendReq, UpResend, UpSendBeat,
      Idle, bufferVars, rdVars, infoVars, vars
  <2>2. QED
    BY <1>2, <2>1, PlainStays, WaitingStays
<1>9. QED
  BY <1>3, <1>4, <1>5, <1>6, <1>7, <1>8 DEF Next, dfi_clock_posedge

(* What the port keeps for requests runs out only after a resend. *)
LEMMA ExhaustionStep ==
  ASSUME SwitchFast, PortInv, FreshOnly, fault \in ExhaustionFault => resent > 0, [Next]_vars
  PROVE  (fault \in ExhaustionFault => resent > 0)'
<1>1. resent' = resent \/ \E k \in Kinds : UpResend(k)
  <2>1. CASE req_pop_s3
    <3>1. UNCHANGED upVars
      BY <2>1, PopOutcome DEF PortInv, TypeOK, P2cTypeOK, OthersOfPop
    <3>2. QED
      BY <3>1 DEF upVars
  <2>2. CASE req_decision_s2
    BY <2>2 DEF req_decision_s2, upVars
  <2>3. CASE wdat_push_s2 \/ wdat_decode_s1 \/ resp_gen_pcrd \/ req_decode_s1
    BY <2>3 DEF wdat_push_s2, wdat_decode_s1, resp_gen_pcrd, req_decode_s1, upVars
  <2>4. CASE noc_clock_posedge \/ Controller
    BY <2>4 DEF noc_clock_posedge, Controller, UifCredit, UifRdatEnd, UifRdatEndThrows, RmwStored, StopIdle,
      Stop, UifWdatReq, UifWdatEnd, upVars
  <2>5. CASE (\E k \in Kinds : UpSendReq(k)) \/ (\E d \in Dbid : UpSendBeat(d)) \/ UNCHANGED vars
    BY <2>5 DEF UpSendReq, UpSendBeat, upVars, vars
  <2>6. QED
    BY <2>1, <2>2, <2>3, <2>4, <2>5 DEF Next, dfi_clock_posedge, Upstream
<1>2. CASE resent # 0
  <2>1. resent \in Nat
    BY PortAssumption DEF PortInv, TypeOK, PeersTypeOK
  <2>2. resent' = resent \/ resent' = resent + 1
    BY <1>1 DEF UpResend
  <2>3. resent' > 0
    BY <1>2, <2>1, <2>2
  <2>4. QED
    BY <2>3
<1>3. CASE resent = 0
  <2>1. fault \notin ExhaustionFault
    BY <1>3
  <2>2. CASE req_pop_s3
    BY <2>1, <2>2, PopFindsAll DEF ExhaustionFault
  <2>3. CASE req_decision_s2
    BY <1>3, <2>1, <2>3, FreshDecision DEF ExhaustionFault
  <2>4. CASE wdat_push_s2
    <3>1. fault' \in {fault, "no_buffer"}
      BY <2>4 DEF wdat_push_s2
    <3>2. fault' # "no_buffer"
      BY PortStep DEF PortInv, WriteInv
    <3>3. QED
      BY <2>1, <3>1, <3>2
  <2>5. CASE \/ wdat_decode_s1 \/ resp_gen_pcrd \/ req_decode_s1 \/ noc_clock_posedge
             \/ Controller \/ Upstream \/ UNCHANGED vars
    <3>1. fault' \in {fault, "no_entry", "no_statistics"}
      BY <2>5 DEF wdat_decode_s1, resp_gen_pcrd, req_decode_s1, noc_clock_posedge, Controller, Idle, Upstream,
        UpSendReq, UpResend, UpSendBeat, UifCredit, UifRdatEnd, UifRdatEndThrows, RmwStored, StopIdle, Stop,
        UifWdatReq, UifWdatEnd, vars
    <3>2. QED
      BY <2>1, <3>1 DEF ExhaustionFault
  <2>6. QED
    BY <2>2, <2>3, <2>4, <2>5 DEF Next, dfi_clock_posedge
<1>4. QED
  BY <1>2, <1>3

(* With PA_RDWR_SWITCH_FAST, as controller_config.json sets it, no number of
   fresh requests runs the port out of DBIDs, tags or TPW credits, lets the
   arbiter pop an empty head or a beat miss its buffer: only a resend can.  And
   the data of every read finds its entry unless a read-modify-write went to the
   controller.  An unknown opcode and a read-modify-write without an LPR credit
   stop the program without either. *)
THEOREM StopsAlwaysExplained ==
  ASSUME SwitchFast = TRUE
  PROVE  Spec => []StopsExplained
<1> DEFINE Inv == FreshOnly /\ ReadsAwaited /\ (fault \in ExhaustionFault => resent > 0)
<1>1. Init => Inv
  BY DEF Init, FreshOnly, ReadsAwaited, WritesPlain, ReadsWaiting, ExhaustionFault, RmwFault
<1>2. PortInv /\ Inv /\ [Next]_vars => Inv'
  BY FreshStep, AwaitedStep, ExhaustionStep
<1>3. Inv => StopsExplained
  BY Zenon DEF ReadsAwaited, StopsExplained
<1>4. QED
  BY <1>1, <1>2, <1>3, PortInvariant, PTL DEF Spec
-----------------------------------------------------------------------------
(* How far a queue can be overrun *)

(* The requests of a queue that may not be retried. *)
Mark(r) == IF r.allow_retry THEN 0 ELSE 1
Marks(s) == [i \in DOMAIN s |-> Mark(s[i])]
Resends(s) == Occurs(Marks(s), 1)
Coming == Resends(req_rx) + Resends(req_s1)

QueueRoom(q) == GetQueueSize(q) + Coming <= MaxQueueDepth(q) + resent
RoomInv == Coming <= resent /\ \A q \in Queue : QueueRoom(q)

LEMMA ResendsType == \A s \in Seq(Request) : Marks(s) \in Seq({0, 1}) /\ Resends(s) \in Nat
<1> SUFFICES ASSUME NEW s \in Seq(Request) PROVE Marks(s) \in Seq({0, 1}) /\ Resends(s) \in Nat
  OBVIOUS
<1>1. Len(s) \in Nat /\ DOMAIN s = 1 .. Len(s) /\ \A i \in 1 .. Len(s) : s[i] \in Request
  BY LenProperties, ElementOfSeq
<1>2. \A i \in 1 .. Len(s) : Mark(s[i]) \in {0, 1}
  BY DEF Mark
<1>3. Marks(s) \in [1 .. Len(s) -> {0, 1}]
  BY <1>1, <1>2, Zenon DEF Marks
<1>4. Marks(s) \in Seq({0, 1})
  BY <1>1, <1>3
<1>5. QED
  BY <1>4, OccursFinite DEF Resends

LEMMA ResendsAppend ==
  ASSUME NEW s \in Seq(Request), NEW r \in Request
  PROVE  Resends(Append(s, r)) = Resends(s) + (IF r.allow_retry THEN 0 ELSE 1)
<1>1. Marks(s) \in Seq({0, 1}) /\ Mark(r) \in {0, 1}
  BY ResendsType DEF Mark
<1>2. Marks(Append(s, r)) = Append(Marks(s), Mark(r))
  <2>1. Len(s) \in Nat /\ DOMAIN s = 1 .. Len(s) /\ Len(Marks(s)) = Len(s)
    BY <1>1, LenProperties DEF Marks
  <2>2. /\ DOMAIN Append(s, r) = 1 .. Len(s) + 1 /\ Append(s, r)[Len(s) + 1] = r
        /\ \A i \in 1 .. Len(s) : Append(s, r)[i] = s[i]
    BY <2>1, AppendProperties, LenProperties
  <2>3. /\ Append(Marks(s), Mark(r)) \in Seq({0, 1})
        /\ Len(Append(Marks(s), Mark(r))) = Len(s) + 1
        /\ Append(Marks(s), Mark(r))[Len(s) + 1] = Mark(r)
        /\ \A i \in 1 .. Len(s) : Append(Marks(s), Mark(r))[i] = Marks(s)[i]
    BY <1>1, <2>1, AppendProperties
  <2>4. \A i \in 1 .. Len(s) : Marks(s)[i] = Mark(s[i])
    BY <2>1 DEF Marks
  <2>5. Append(s, r) \in Seq(Request)
    BY AppendProperties
  <2>6. Marks(Append(s, r)) \in Seq({0, 1}) /\ Len(Marks(Append(s, r))) = Len(s) + 1
    <3>1. Marks(Append(s, r)) \in Seq({0, 1})
      BY <2>5, ResendsType
    <3>2. DOMAIN Marks(Append(s, r)) = 1 .. Len(s) + 1
      BY <2>2 DEF Marks
    <3>3. /\ Len(Marks(Append(s, r))) \in Nat
          /\ DOMAIN Marks(Append(s, r)) = 1 .. Len(Marks(Append(s, r)))
      BY <3>1, LenProperties
    <3>4. QED
      BY <2>1, <3>1, <3>2, <3>3
  <2>7. \A i \in 1 .. Len(s) + 1 : Marks(Append(s, r))[i] = Mark(Append(s, r)[i])
    BY <2>2 DEF Marks
  <2>8. \A i \in 1 .. Len(s) + 1 : Marks(Append(s, r))[i] = Append(Marks(s), Mark(r))[i]
    <3> SUFFICES ASSUME NEW i \in 1 .. Len(s) + 1
                 PROVE  Marks(Append(s, r))[i] = Append(Marks(s), Mark(r))[i]
      OBVIOUS
    <3>1. i \in 1 .. Len(s) \/ i = Len(s) + 1
      BY <2>1
    <3>2. QED
      BY <2>2, <2>3, <2>4, <2>7, <3>1
  <2>9. QED
    BY <2>3, <2>6, <2>8, SeqEqual
<1>3. Occurs(Append(Marks(s), Mark(r)), 1)
        = Occurs(Marks(s), 1) + (IF Mark(r) = 1 THEN 1 ELSE 0)
  <2> DEFINE m == Marks(s)
             e == Mark(r)
  <2> HIDE DEF m, e
  <2>1. m \in Seq({0, 1}) /\ e \in {0, 1}
    BY <1>1 DEF m, e
  <2>2. Occurs(Append(m, e), 1) = Occurs(m, 1) + (IF e = 1 THEN 1 ELSE 0)
    BY <2>1, OccursAppend
  <2>3. QED
    BY <2>2 DEF m, e
<1>4. QED
  BY <1>1, <1>2, <1>3 DEF Resends, Mark

LEMMA ResendsTail ==
  ASSUME NEW s \in Seq(Request), s # <<>>
  PROVE  /\ Head(s) \in Request /\ Tail(s) \in Seq(Request)
         /\ Resends(s) = Resends(Tail(s)) + (IF Head(s).allow_retry THEN 0 ELSE 1)
<1>1. Marks(s) \in Seq({0, 1})
  BY ResendsType
<1>2. /\ Len(s) \in Nat \ {0} /\ DOMAIN s = 1 .. Len(s)
      /\ Head(s) = s[1] /\ Head(s) \in Request /\ Tail(s) \in Seq(Request)
      /\ Len(Tail(s)) = Len(s) - 1 /\ \A i \in 1 .. Len(s) - 1 : Tail(s)[i] = s[i + 1]
  BY HeadTailProperties, LenProperties, EmptySeq
<1>3. Mark(Head(s)) \in {0, 1}
  BY DEF Mark
<1>4. Len(Marks(s)) = Len(s) /\ \A i \in 1 .. Len(s) : Marks(s)[i] = Mark(s[i])
  BY <1>1, <1>2, LenProperties DEF Marks
<1>5. Marks(s) # <<>>
  BY <1>1, <1>2, <1>4, EmptySeq
<1>6. /\ Head(Marks(s)) = Marks(s)[1] /\ Tail(Marks(s)) \in Seq({0, 1})
      /\ Len(Tail(Marks(s))) = Len(s) - 1
      /\ \A i \in 1 .. Len(s) - 1 : Tail(Marks(s))[i] = Marks(s)[i + 1]
  BY <1>1, <1>4, <1>5, HeadTailProperties
<1>7. Head(Marks(s)) = Mark(Head(s))
  BY <1>2, <1>4, <1>6
<1>8. Marks(Tail(s)) = Tail(Marks(s))
  <2>1. Marks(Tail(s)) \in Seq({0, 1})
    BY <1>2, ResendsType
  <2>2. DOMAIN Tail(s) = 1 .. Len(s) - 1
    BY <1>2, LenProperties
  <2>3. /\ Len(Marks(Tail(s))) = Len(s) - 1
        /\ \A i \in 1 .. Len(s) - 1 : Marks(Tail(s))[i] = Mark(Tail(s)[i])
    BY <1>2, <2>1, <2>2, LenProperties DEF Marks
  <2>4. \A i \in 1 .. Len(s) - 1 : Marks(Tail(s))[i] = Tail(Marks(s))[i]
    <3> SUFFICES ASSUME NEW i \in 1 .. Len(s) - 1 PROVE Marks(Tail(s))[i] = Tail(Marks(s))[i]
      OBVIOUS
    <3>1. i + 1 \in 1 .. Len(s)
      BY <1>2
    <3>2. QED
      BY <1>2, <1>4, <1>6, <2>3, <3>1
  <2>5. QED
    BY <1>6, <2>1, <2>3, <2>4, SeqEqual
<1>9. Occurs(Marks(s), 1) = Occurs(Tail(Marks(s)), 1) + (IF Head(Marks(s)) = 1 THEN 1 ELSE 0)
  BY <1>1, <1>5, OccursTail
<1>10. QED
  BY <1>2, <1>3, <1>7, <1>8, <1>9 DEF Resends, Mark

ComingSame == Coming' = Coming /\ resent' = resent
ComingDecided == /\ req_decision_s2 /\ req_s1 # <<>>
                 /\ Coming = Coming' + Mark(Head(req_s1)) /\ resent' = resent
ComingResent == /\ (\E k \in Kinds : UpResend(k))
                /\ Coming' = Coming + 1 /\ resent' = resent + 1

(* The decision takes one request. *)
LEMMA DecisionComing ==
  ASSUME TypeOK, req_decision_s2, req_s1 # <<>>
  PROVE  ComingDecided
<1>1. req_rx \in Seq(Request) /\ req_s1 \in Seq(Request)
  BY DEF TypeOK, PipesTypeOK
<1>2. req_rx' = req_rx /\ resent' = resent /\ req_s1' = Tail(req_s1)
  BY <1>1, DecisionOutcome DEF OthersOfDecision, upVars
<1>3. Tail(req_s1) \in Seq(Request) /\ Resends(req_s1) = Resends(Tail(req_s1)) + Mark(Head(req_s1))
  BY <1>1, ResendsTail DEF Mark
<1>4. Mark(Head(req_s1)) \in {0, 1}
  BY DEF Mark
<1>5. Resends(req_rx) \in Nat /\ Resends(req_s1) \in Nat /\ Resends(Tail(req_s1)) \in Nat
  BY <1>1, <1>3, ResendsType
<1>6. Coming = Resends(req_rx) + Resends(req_s1) /\ Coming' = Resends(req_rx) + Resends(Tail(req_s1))
  BY <1>2 DEF Coming, Resends, Marks
<1>7. Coming = Coming' + Mark(Head(req_s1))
  BY <1>3, <1>4, <1>5, <1>6
<1>8. QED
  BY <1>2, <1>7 DEF ComingDecided

(* Only a resend brings a request that may not be retried, and only the decision
   takes one. *)
LEMMA ComingStep ==
  ASSUME TypeOK, [Next]_vars
  PROVE  Coming \in Nat /\ Coming' \in Nat /\ (ComingSame \/ ComingDecided \/ ComingResent)
<1>1. req_rx \in Seq(Request) /\ req_s1 \in Seq(Request) /\ P2cTypeOK
  BY DEF TypeOK, PipesTypeOK
<1>2. req_rx' \in Seq(Request) /\ req_s1' \in Seq(Request)
  BY PipesTypeStep DEF PipesTypeOK
<1>3. Resends(req_rx) \in Nat /\ Resends(req_s1) \in Nat /\ Resends(req_rx') \in Nat /\ Resends(req_s1') \in Nat
  BY <1>1, <1>2, ResendsType
<1>4. Coming = Resends(req_rx) + Resends(req_s1) /\ Coming' = Resends(req_rx') + Resends(req_s1')
  BY DEF Coming, Resends, Marks
<1>5. Coming \in Nat /\ Coming' \in Nat
  BY <1>3, <1>4
<1>6. ASSUME UNCHANGED <<req_rx, req_s1, resent>> PROVE ComingSame
  BY <1>4, <1>6 DEF ComingSame
<1>7. CASE req_decode_s1
  <2>1. CASE req_rx # <<>> /\ req_s1' = Append(req_s1, Head(req_rx)) /\ req_rx' = Tail(req_rx)
    <3>1. /\ Head(req_rx) \in Request
          /\ Resends(req_rx) = Resends(req_rx') + Mark(Head(req_rx))
      BY <1>1, <2>1, ResendsTail DEF Mark
    <3>2. Resends(req_s1') = Resends(req_s1) + Mark(Head(req_rx))
      BY <1>1, <2>1, <3>1, ResendsAppend DEF Mark
    <3>3. Mark(Head(req_rx)) \in {0, 1}
      BY DEF Mark
    <3>4. Coming' = Coming
      BY <1>3, <1>4, <3>1, <3>2, <3>3
    <3>5. QED
      BY <1>5, <1>7, <3>4 DEF ComingSame, req_decode_s1, upVars
  <2>2. CASE UNCHANGED <<req_s1, req_rx>>
    BY <1>5, <1>6, <1>7, <2>2 DEF req_decode_s1, upVars
  <2>3. QED
    BY <1>7, <2>1, <2>2 DEF req_decode_s1
<1>8. CASE req_decision_s2
  <2>1. CASE req_s1 = <<>>
    <3>1. UNCHANGED <<req_rx, req_s1, resent>>
      BY <1>1, <1>8, <2>1, DecisionOutcome DEF OthersOfDecision, upVars
    <3>2. QED
      BY <1>5, <1>6, <2>1, <3>1
  <2>2. CASE req_s1 # <<>>
    BY <1>5, <1>8, <2>2, DecisionComing
  <2>3. QED
    BY <2>1, <2>2
<1>9. ASSUME NEW k \in Kinds, UpSendReq(k) PROVE ComingSame
  <2>1. /\ req_s1' = req_s1 /\ resent' = resent
        /\ req_rx' = Append(req_rx, [kind |-> k, allow_retry |-> TRUE])
    BY <1>9 DEF UpSendReq
  <2>2. [kind |-> k, allow_retry |-> TRUE] \in Request
    BY DEF Request
  <2>3. Resends(req_rx') = Resends(req_rx) + 0
    BY <1>1, <2>1, <2>2, ResendsAppend
  <2>4. QED
    BY <1>3, <1>4, <2>1, <2>3 DEF ComingSame
<1>10. ASSUME NEW k \in Kinds, UpResend(k) PROVE ComingResent
  <2>1. /\ req_s1' = req_s1 /\ resent' = resent + 1
        /\ req_rx' = Append(req_rx, [kind |-> k, allow_retry |-> FALSE])
    BY <1>10 DEF UpResend
  <2>2. [kind |-> k, allow_retry |-> FALSE] \in Request
    BY DEF Request
  <2>3. Resends(req_rx') = Resends(req_rx) + 1
    BY <1>1, <2>1, <2>2, ResendsAppend
  <2>4. QED
    BY <1>3, <1>4, <1>10, <2>1, <2>3 DEF ComingResent
<1>11. CASE req_pop_s3
  <2>1. UNCHANGED <<req_rx, req_s1, resent>>
    BY <1>1, <1>11, PopOutcome DEF P2cTypeOK, OthersOfPop, pipeVars, upVars
  <2>2. QED
    BY <1>5, <1>6, <2>1
<1>12. CASE \/ wdat_push_s2 \/ wdat_decode_s1 \/ resp_gen_pcrd \/ noc_clock_posedge \/ Controller
            \/ (\E d \in Dbid : UpSendBeat(d)) \/ UNCHANGED vars
  <2>1. UNCHANGED <<req_rx, req_s1, resent>>
    BY <1>12 DEF wdat_push_s2, wdat_decode_s1, resp_gen_pcrd, noc_clock_posedge, Controller, UpSendBeat,
      UifCredit, UifRdatEnd, UifRdatEndThrows, RmwStored, StopIdle, Stop, UifWdatReq, UifWdatEnd, pipeVars,
      upVars, vars
  <2>2. QED
    BY <1>5, <1>6, <2>1
<1>13. QED
  BY <1>5, <1>7, <1>8, <1>9, <1>10, <1>11, <1>12 DEF Next, dfi_clock_posedge, Upstream

SizesShrink == \A q \in Queue : GetQueueSize(q)' <= GetQueueSize(q)

(* Queue q takes one request more; a fresh one finds room. *)
OneEnters(q) == /\ GetQueueSize(q)' <= GetQueueSize(q) + 1
                /\ \A p \in Queue \ {q} : GetQueueSize(p)' <= GetQueueSize(p)
                /\ Head(req_s1).allow_retry => GetQueueSize(q) < MaxQueueDepth(q)

LEMMA TpwFinite == P2cTypeOK => IsFiniteSet(tpw_queue) /\ Cardinality(tpw_queue) \in Nat
BY DbidsFinite DEF P2cTypeOK

(* A write that moves up leaves the queue it was in. *)
LEMMA TpwMoves ==
  ASSUME P2cTypeOK, NEW bc, NEW d, d = Move2Head(tpw_queue, bc), tpw_queue' = tpw_queue \ {d}, head_entry' = d
  PROVE  GetQueueSize("TPW")' = Cardinality(tpw_queue)
<1>1. tpw_queue \in SUBSET Dbid
  BY DEF P2cTypeOK
<1>2. \/ d \in tpw_queue
      \/ d = NoHead /\ d \notin tpw_queue
  BY <1>1, Move2HeadPicks, DbidNotNoHead
<1>3. GetQueueSize("TPW")' = Cardinality(tpw_queue \ {d}) + (IF d # NoHead THEN 1 ELSE 0)
  BY DEF GetQueueSize
<1>4. Cardinality(tpw_queue \ {d}) = IF d \in tpw_queue THEN Cardinality(tpw_queue) - 1 ELSE Cardinality(tpw_queue)
  BY TpwFinite, FS_RemoveElement
<1>5. d \in tpw_queue => d # NoHead
  BY <1>1, DbidNotNoHead
<1>6. Cardinality(tpw_queue) \in Nat
  BY TpwFinite
<1>7. QED
  BY <1>2, <1>3, <1>4, <1>5, <1>6

LEMMA SizesStep ==
  ASSUME TypeOK, [Next]_vars
  PROVE  SizesShrink \/ (req_decision_s2 /\ req_s1 # <<>> /\ \E q \in Queue : OneEnters(q))
<1>1. P2cTypeOK /\ req_s1 \in Seq(Request) /\ RetryTypeOK
  BY DEF TypeOK, PipesTypeOK
<1>2. \A q \in Queue : GetQueueSize(q) \in Nat
  BY <1>1, SizesType
<1>3. ASSUME UNCHANGED hpr_queue PROVE GetQueueSize("HPR")' = GetQueueSize("HPR")
  BY <1>3 DEF GetQueueSize
<1>4. ASSUME UNCHANGED lpr_queue PROVE GetQueueSize("LPR")' = GetQueueSize("LPR")
  BY <1>4 DEF GetQueueSize
<1>5. ASSUME UNCHANGED <<tpw_queue, head_entry>> PROVE GetQueueSize("TPW")' = GetQueueSize("TPW")
  BY <1>5 DEF GetQueueSize
<1>6. ASSUME GetQueueSize("HPR")' <= GetQueueSize("HPR"), GetQueueSize("LPR")' <= GetQueueSize("LPR"),
             GetQueueSize("TPW")' <= GetQueueSize("TPW")
      PROVE  SizesShrink
  BY <1>6 DEF SizesShrink, Queue
<1>7. /\ GetQueueSize("HPR") <= GetQueueSize("HPR") /\ GetQueueSize("LPR") <= GetQueueSize("LPR")
      /\ GetQueueSize("TPW") <= GetQueueSize("TPW")
      /\ GetQueueSize("HPR") \in Nat /\ GetQueueSize("LPR") \in Nat /\ GetQueueSize("TPW") \in Nat
  BY <1>2 DEF Queue
<1>8. ASSUME UNCHANGED <<hpr_queue, lpr_queue, tpw_queue, head_entry>> PROVE SizesShrink
  BY <1>3, <1>4, <1>5, <1>6, <1>7, <1>8
<1>9. CASE wdat_push_s2
  <2>1. UNCHANGED <<hpr_queue, lpr_queue>>
    BY <1>9 DEF wdat_push_s2
  <2>2. \/ UNCHANGED <<tpw_queue, head_entry>>
        \/ \E bc : head_entry = NoHead /\ head_entry' = Move2Head(tpw_queue, bc)
                   /\ tpw_queue' = tpw_queue \ {Move2Head(tpw_queue, bc)}
    BY <1>9 DEF wdat_push_s2, RefillHead
  <2>3. CASE UNCHANGED <<tpw_queue, head_entry>>
    BY <1>8, <2>1, <2>3
  <2>4. CASE \E bc : head_entry = NoHead /\ head_entry' = Move2Head(tpw_queue, bc)
                     /\ tpw_queue' = tpw_queue \ {Move2Head(tpw_queue, bc)}
    <3>1. head_entry = NoHead /\ GetQueueSize("TPW")' = Cardinality(tpw_queue)
      BY <1>1, <2>4, TpwMoves
    <3>2. GetQueueSize("TPW") = Cardinality(tpw_queue)
      BY <1>1, <3>1, TpwFinite DEF GetQueueSize
    <3>3. QED
      BY <1>3, <1>4, <1>6, <1>7, <2>1, <3>1, <3>2
  <2>5. QED
    BY <2>2, <2>3, <2>4
<1>10. CASE req_pop_s3
  <2>1. CASE \E q \in {"HPR", "LPR"} : Ready(q) /\ PopRead(q)
    <3>1. PICK q \in {"HPR", "LPR"} : Ready(q) /\ PopRead(q)
      BY <2>1
    <3>2. UNCHANGED <<tpw_queue, head_entry>>
      BY <3>1 DEF PopRead
    <3>3. \A s \in Seq(Kinds) : s # <<>> => Len(Tail(s)) <= Len(s)
      <4> SUFFICES ASSUME NEW s \in Seq(Kinds), s # <<>> PROVE Len(Tail(s)) <= Len(s)
        OBVIOUS
      <4>1. Len(Tail(s)) = Len(s) - 1 /\ Len(s) \in Nat
        BY HeadTailProperties, LenProperties
      <4>2. QED
        BY <4>1
    <3>4. CASE q = "HPR"
      <4>1. hpr_queue # <<>> /\ hpr_queue' = Tail(hpr_queue) /\ lpr_queue' = lpr_queue
        BY <3>1, <3>4 DEF Ready, HasRequest, PopRead
      <4>2. GetQueueSize("HPR")' <= GetQueueSize("HPR")
        BY <1>1, <3>3, <4>1 DEF P2cTypeOK, GetQueueSize
      <4>3. QED
        BY <1>4, <1>5, <1>6, <1>7, <3>2, <4>1, <4>2
    <3>5. CASE q = "LPR"
      <4>1. lpr_queue # <<>> /\ lpr_queue' = Tail(lpr_queue) /\ hpr_queue' = hpr_queue
        BY <3>1, <3>5 DEF Ready, HasRequest, PopRead
      <4>2. GetQueueSize("LPR")' <= GetQueueSize("LPR")
        BY <1>1, <3>3, <4>1 DEF P2cTypeOK, GetQueueSize
      <4>3. QED
        BY <1>3, <1>5, <1>6, <1>7, <3>2, <4>1, <4>2
    <3>6. QED
      BY <3>4, <3>5
  <2>2. CASE PopWrite
    <3>1. UNCHANGED <<hpr_queue, lpr_queue>> /\ PopHead
      BY <2>2 DEF PopWrite
    <3>2. GetQueueSize("TPW")' = Cardinality(tpw_queue)
      BY <1>1, <3>1, TpwMoves DEF PopHead
    <3>3. Cardinality(tpw_queue) <= GetQueueSize("TPW")
      BY <1>1, TpwFinite DEF GetQueueSize
    <3>4. QED
      BY <1>3, <1>4, <1>6, <1>7, <3>1, <3>2, <3>3
  <2>3. CASE UNCHANGED <<hpr_queue, lpr_queue, tpw_queue, head_entry>>
    BY <1>8, <2>3
  <2>4. QED
    BY <1>1, <1>10, <2>1, <2>2, <2>3, PopOutcome DEF P2cTypeOK
<1>11. CASE req_decision_s2
  <2>1. CASE UNCHANGED p2cVars
    BY <1>8, <2>1 DEF p2cVars
  <2>2. CASE req_s1 # <<>> /\ ~UNCHANGED p2cVars
    <3> DEFINE r == Head(req_s1)
               k == r.kind
    <3>1. r.allow_retry => \A c : p_credit[c] \in Nat \/ c \notin Pool
      BY <1>1 DEF RetryTypeOK
    <3>2. CASE IsRead(k) /\ Accepted(r) /\ AcceptRead(k)
      <4>1. k \in Kinds
        <5>1. r \in Request
          BY <1>1, <2>2, HeadTailProperties
        <5>2. QED
          BY <5>1 DEF Request
      <4>2. UNCHANGED <<tpw_queue, head_entry>>
        BY <3>2 DEF AcceptRead
      <4>3. \A s \in Seq(Kinds) : Len(Append(s, k)) = Len(s) + 1
        BY <4>1, AppendProperties
      <4>4. CASE GetQosLevel(k) = "HPR"
        <5>1. hpr_queue' = Append(hpr_queue, k) /\ lpr_queue' = lpr_queue
          BY <3>2, <4>4 DEF AcceptRead
        <5>2. GetQueueSize("HPR")' = GetQueueSize("HPR") + 1
          BY <1>1, <4>3, <5>1 DEF P2cTypeOK, GetQueueSize
        <5>3. r.allow_retry => ~QueueFull("HPR", "HPR")
          BY <3>2, <4>4 DEF Accepted, handle_ReadNoSnp, is_full, IsRead, IsWrite
        <5>4. p_credit["HPR"] \in Nat /\ MaxQueueDepth("HPR") \in Nat
          BY <1>1, SizesType DEF RetryTypeOK, Pool, Queue
        <5>5. r.allow_retry => GetQueueSize("HPR") < MaxQueueDepth("HPR")
          BY <1>7, <5>3, <5>4 DEF QueueFull
        <5>6. OneEnters("HPR")
          BY <1>4, <1>5, <1>7, <4>2, <5>1, <5>2, <5>5 DEF OneEnters, Queue
        <5>7. QED
          BY <1>11, <2>2, <5>6 DEF Queue
      <4>5. CASE GetQosLevel(k) # "HPR"
        <5>1. lpr_queue' = Append(lpr_queue, k) /\ hpr_queue' = hpr_queue
          BY <3>2, <4>5 DEF AcceptRead
        <5>2. GetQueueSize("LPR")' = GetQueueSize("LPR") + 1
          BY <1>1, <4>3, <5>1 DEF P2cTypeOK, GetQueueSize
        <5>3. GetQosLevel(k) \in {"LPR", "GPR"}
          BY <3>2, <4>5 DEF GetQosLevel
        <5>4. r.allow_retry => ~QueueFull("LPR", "LGPR")
          BY <3>2, <5>3 DEF Accepted, handle_ReadNoSnp, is_full, IsRead, IsWrite
        <5>5. p_credit["LGPR"] \in Nat /\ MaxQueueDepth("LPR") \in Nat
          BY <1>1, SizesType DEF RetryTypeOK, Pool, Queue
        <5>6. r.allow_retry => GetQueueSize("LPR") < MaxQueueDepth("LPR")
          BY <1>7, <5>4, <5>5 DEF QueueFull
        <5>7. OneEnters("LPR")
          BY <1>3, <1>5, <1>7, <4>2, <5>1, <5>2, <5>6 DEF OneEnters, Queue
        <5>8. QED
          BY <1>11, <2>2, <5>7 DEF Queue
      <4>6. QED
        BY <4>4, <4>5
    <3>3. CASE IsWrite(k) /\ Accepted(r) /\ AcceptWrite(k)
      <4>1. UNCHANGED <<hpr_queue, lpr_queue, head_entry>> /\ \E d : tpw_queue' = tpw_queue \union {d}
        BY <2>2, <3>3 DEF AcceptWrite
      <4>2. PICK d : tpw_queue' = tpw_queue \union {d}
        BY <4>1
      <4>3. Cardinality(tpw_queue \union {d}) =
              IF d \in tpw_queue THEN Cardinality(tpw_queue) ELSE Cardinality(tpw_queue) + 1
        BY <1>1, TpwFinite, FS_AddElement
      <4>4. GetQueueSize("TPW")' <= GetQueueSize("TPW") + 1
        <5> DEFINE h == IF head_entry # NoHead THEN 1 ELSE 0
        <5>1. /\ GetQueueSize("TPW") = Cardinality(tpw_queue) + h
              /\ GetQueueSize("TPW")' = Cardinality(tpw_queue \union {d}) + h
          BY <4>1, <4>2 DEF GetQueueSize
        <5>2. h \in {0, 1}
          OBVIOUS
        <5> HIDE DEF h
        <5>3. QED
          BY <1>1, <4>3, <5>1, <5>2, TpwFinite
      <4>5. r.allow_retry => ~QueueFull("TPW", "TPW")
        BY <3>3 DEF Accepted, handle_WriteNoSnp, is_full
      <4>6. p_credit["TPW"] \in Nat /\ MaxQueueDepth("TPW") \in Nat
        BY <1>1, SizesType DEF RetryTypeOK, Pool, Queue
      <4>7. r.allow_retry => GetQueueSize("TPW") < MaxQueueDepth("TPW")
        BY <1>7, <4>5, <4>6 DEF QueueFull
      <4>8. OneEnters("TPW")
        BY <1>3, <1>4, <1>7, <4>1, <4>4, <4>7 DEF OneEnters, Queue
      <4>9. QED
        BY <1>11, <2>2, <4>8 DEF Queue
    <3>4. QED
      BY <1>11, <2>2, <3>2, <3>3 DEF req_decision_s2, Retry
  <2>3. CASE req_s1 = <<>>
    BY <1>11, <2>1, <2>3 DEF req_decision_s2
  <2>4. QED
    BY <2>1, <2>2, <2>3
<1>12. CASE \/ wdat_decode_s1 \/ resp_gen_pcrd \/ req_decode_s1 \/ noc_clock_posedge
            \/ Controller \/ Upstream \/ UNCHANGED vars
  <2>1. UNCHANGED <<hpr_queue, lpr_queue, tpw_queue, head_entry>>
    BY <1>12 DEF wdat_decode_s1, resp_gen_pcrd, req_decode_s1, noc_clock_posedge, Controller, Upstream,
      UifCredit, UifRdatEnd, UifRdatEndThrows, RmwStored, StopIdle, Stop, UifWdatReq, UifWdatEnd, UpSendReq,
      UpResend, UpSendBeat, p2cVars, vars
  <2>2. QED
    BY <1>8, <2>1
<1>13. QED
  BY <1>9, <1>10, <1>11, <1>12 DEF Next, dfi_clock_posedge

LEMMA RoomStep ==
  ASSUME TypeOK, TypeOK', RoomInv, [Next]_vars
  PROVE  RoomInv'
<1>1. resent \in Nat /\ resent' \in Nat
  BY PortAssumption DEF TypeOK, PeersTypeOK
<1>2. Coming \in Nat /\ Coming' \in Nat /\ (ComingSame \/ ComingDecided \/ ComingResent)
  BY ComingStep
<1>3. SizesShrink \/ (req_decision_s2 /\ req_s1 # <<>> /\ \E q \in Queue : OneEnters(q))
  BY SizesStep
<1>4. Mark(Head(req_s1)) \in {0, 1} /\ (Mark(Head(req_s1)) = 0 <=> Head(req_s1).allow_retry)
  BY DEF Mark
<1>5. Coming <= resent
  BY DEF RoomInv
<1>6. (Coming' <= Coming /\ resent' = resent) \/ (Coming' = Coming + 1 /\ resent' = resent + 1)
  BY <1>2, <1>4 DEF ComingSame, ComingDecided, ComingResent
<1>7. Coming' <= resent'
  BY <1>1, <1>2, <1>5, <1>6
<1>8. ASSUME NEW q \in Queue PROVE QueueRoom(q)'
  <2>1. GetQueueSize(q) \in Nat /\ MaxQueueDepth(q) \in Nat /\ GetQueueSize(q)' \in Nat
    BY SizesTypes
  <2>2. MaxQueueDepth(q)' = MaxQueueDepth(q)
    BY DEF MaxQueueDepth
  <2>3. GetQueueSize(q) + Coming <= MaxQueueDepth(q) + resent
    BY DEF RoomInv, QueueRoom
  <2>4. CASE GetQueueSize(q)' <= GetQueueSize(q)
    <3>1. GetQueueSize(q)' + Coming' <= MaxQueueDepth(q) + resent'
      BY <1>1, <1>2, <1>6, <2>1, <2>3, <2>4
    <3>2. QED
      BY <2>2, <3>1 DEF QueueRoom
  <2>5. CASE ~(GetQueueSize(q)' <= GetQueueSize(q))
    <3>1. req_decision_s2 /\ req_s1 # <<>> /\ OneEnters(q)
      BY <1>3, <2>5 DEF SizesShrink, OneEnters
    <3>2. Coming = Coming' + Mark(Head(req_s1)) /\ resent' = resent
      BY <3>1, DecisionComing DEF ComingDecided
    <3>3. /\ GetQueueSize(q)' <= GetQueueSize(q) + 1
          /\ Head(req_s1).allow_retry => GetQueueSize(q) < MaxQueueDepth(q)
      BY <3>1 DEF OneEnters
    <3>4. GetQueueSize(q)' + Coming' <= MaxQueueDepth(q) + resent'
      <4>1. CASE Head(req_s1).allow_retry
        BY <1>1, <1>2, <1>4, <1>5, <2>1, <3>2, <3>3, <4>1
      <4>2. CASE ~Head(req_s1).allow_retry
        BY <1>1, <1>2, <1>4, <2>1, <2>3, <3>2, <3>3, <4>2
      <4>3. QED
        BY <4>1, <4>2
    <3>5. QED
      BY <2>2, <3>4 DEF QueueRoom
  <2>6. QED
    BY <2>4, <2>5
<1>9. QED
  BY <1>7, <1>8 DEF RoomInv

(* A queue takes more requests than its depth only for requests that were sent
   again, one for each: PushRequest looks at no depth, and a fresh request is
   turned away (handle_ReadNoSnp, handle_WriteNoSnp) while its queue is full. *)
THEOREM QueuesOverrunOnlyByResends ==
  Spec => [](\A q \in Queue : GetQueueSize(q) <= MaxQueueDepth(q) + resent)
<1> DEFINE Bounded == \A q \in Queue : GetQueueSize(q) <= MaxQueueDepth(q) + resent
<1>1. Init => RoomInv
  <2> SUFFICES ASSUME Init PROVE RoomInv
    OBVIOUS
  <2>1. Resends(<<>>) = 0
    <3>1. Marks(<<>>) = <<>>
      BY DEF Marks
    <3>2. QED
      BY <3>1, OccursEmpty DEF Resends
  <2>2. Coming = 0 /\ resent = 0
    BY <2>1 DEF Init, Coming
  <2>3. TypeOK
    BY PortInit DEF PortInv
  <2>4. Cardinality(tpw_queue) = 0
    BY FS_EmptySet DEF Init, P2cInit
  <2>5. \A q \in Queue : GetQueueSize(q) = 0
    BY <2>4 DEF Init, P2cInit, GetQueueSize, Queue
  <2>6. \A q \in Queue : MaxQueueDepth(q) \in Nat
    BY <2>3, SizesType DEF TypeOK
  <2>7. QED
    BY <2>2, <2>5, <2>6 DEF RoomInv, QueueRoom
<1>2. PortInv /\ PortInv' /\ RoomInv /\ [Next]_vars => RoomInv'
  BY RoomStep DEF PortInv
<1>3. PortInv /\ RoomInv => Bounded
  <2> SUFFICES ASSUME PortInv, RoomInv, NEW q \in Queue PROVE GetQueueSize(q) <= MaxQueueDepth(q) + resent
    OBVIOUS
  <2>1. GetQueueSize(q) + Coming <= MaxQueueDepth(q) + resent
    BY DEF RoomInv, QueueRoom
  <2>2. GetQueueSize(q) \in Nat /\ MaxQueueDepth(q) \in Nat
    BY SizesType DEF PortInv, TypeOK
  <2>3. resent \in Nat
    BY PortAssumption DEF PortInv, TypeOK, PeersTypeOK
  <2>4. Coming \in Nat
    BY ResendsType DEF PortInv, TypeOK, PipesTypeOK, Coming
  <2>5. QED
    BY <2>1, <2>2, <2>3, <2>4
<1> HIDE DEF Bounded
<1>4. Spec => []Bounded
  BY <1>1, <1>2, <1>3, PortInvariant, PTL DEF Spec
<1>5. QED
  BY <1>4 DEF Bounded
=============================================================================
