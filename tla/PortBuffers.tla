---------------------------- MODULE PortBuffers ----------------------------
(***************************************************************************)
(* The storage of the CHI port: WdataBufferArray (write data buffers, named *)
(* by a DBID), RdDataInfo (tags of the reads the controller works on) and   *)
(* ResponseQueues (the six queues that share the RSP channel).              *)
(*                                                                         *)
(* A request is a "kind": the fields of the CHI flit the port looks at.     *)
(***************************************************************************)
EXTENDS Naturals, Integers, Sequences, FiniteSets, FiniteSetsExt

CONSTANTS
  Kinds,              \* the requests upstream may send
  NoKind,             \* no payload
  WrDatBufferDepth,   \* WR_DAT_BUFFER_DEPTH
  RdDatInfoDepth,     \* RD_DAT_INFO_DEPTH
  MaxRetryAck,        \* RSP1_FIFO_DEPTH
  DataWidth           \* bytes of one data beat

Opcode == {"READ_NO_SNP", "READ_NO_SNP_SEP", "WRITE_NO_SNP_FULL", "WRITE_NO_SNP_PTL",
           "PREFETCH_TGT", "CLEAN_SHARED_PERSIST", "UNSUPPORTED"}

Kind == [op : Opcode, qos : 0..15, size : 0..6, be_full : BOOLEAN, src : Nat, ordered : BOOLEAN]

ASSUME BuffersAssumption ==
  /\ Kinds \subseteq Kind
  /\ NoKind \notin Kinds
  /\ WrDatBufferDepth \in Nat \ {0}
  /\ RdDatInfoDepth \in Nat \ {0}
  /\ MaxRetryAck \in Nat \ {0}
  /\ DataWidth \in Nat \ {0}

Dbid == 0 .. WrDatBufferDepth - 1
Tag == 0 .. RdDatInfoDepth - 1
Rsp == 0 .. 5

VARIABLES
  unallocated_dbid,      \* the free DBIDs
  beat_count,            \* [Dbid -> uint16_t]: beats a buffer still waits for; NoEntry: no buffer
  buffer_payload,        \* [Dbid -> Kinds]: the write a buffer belongs to
  unused_buffer_id,      \* the free read tags
  rdata_info_buffer,     \* [Tag -> "free" | "waiting" | "ready"]
  response_queues,       \* [Rsp -> Seq]
  winner_queue_index     \* the queue served last, -1 at first

bufferVars == <<unallocated_dbid, beat_count, buffer_payload>>
infoVars == <<unused_buffer_id, rdata_info_buffer>>
rspVars == <<response_queues, winner_queue_index>>

BuffersInit ==
  /\ unallocated_dbid = Dbid
  /\ beat_count = [d \in Dbid |-> -1]
  /\ buffer_payload = [d \in Dbid |-> NoKind]
  /\ unused_buffer_id = Tag
  /\ rdata_info_buffer = [t \in Tag |-> "free"]
  /\ response_queues = [q \in Rsp |-> <<>>]
  /\ winner_queue_index = -1

IsRead(k) == k.op \in {"READ_NO_SNP", "READ_NO_SNP_SEP"}
IsWrite(k) == k.op \in {"WRITE_NO_SNP_FULL", "WRITE_NO_SNP_PTL"}

-----------------------------------------------------------------------------
(* WdataBufferArray *)

NoEntry == -1
MaxBeatCount == 65535   \* a uint16_t

(* The bytes of the CHI sizes SIZE_1 to SIZE_64. *)
SizeBytes == [s \in 0..6 |-> CASE s = 0 -> 1 [] s = 1 -> 2 [] s = 2 -> 4 [] s = 3 -> 8
                               [] s = 4 -> 16 [] s = 5 -> 32 [] s = 6 -> 64]

(* The number of data beats of a write. *)
Beats(k) == IF SizeBytes[k.size] <= DataWidth THEN 1 ELSE SizeBytes[k.size] \div DataWidth

HasBuffer(d) == beat_count[d] # NoEntry

IsArrayFull == Cardinality({d \in Dbid : HasBuffer(d)}) >= WrDatBufferDepth

(* Mutant: every buffer waits for one beat. *)
allocate_dbid_one_beat(k, d) ==
  /\ unallocated_dbid' = unallocated_dbid \ {d}
  /\ beat_count' = [beat_count EXCEPT ![d] = 1]
  /\ buffer_payload' = [buffer_payload EXCEPT ![d] = k]

(* allocate_dbid and allocate_wdata_buffer_entry, for a DBID that exists *)
allocate_dbid(k, d) ==
  /\ unallocated_dbid' = unallocated_dbid \ {d}
  /\ beat_count' = [beat_count EXCEPT ![d] = Beats(k)]
  /\ buffer_payload' = [buffer_payload EXCEPT ![d] = k]

(* release_dbid and erase_wdata_buffer_entry *)
release_dbid(d) ==
  /\ unallocated_dbid' = unallocated_dbid \union {d}
  /\ beat_count' = [beat_count EXCEPT ![d] = NoEntry]
  /\ buffer_payload' = [buffer_payload EXCEPT ![d] = NoKind]

(* The beat counts after receive_wdata_flit: an untested uint16_t decrement. *)
receive_wdata_flit(d) == [beat_count EXCEPT ![d] = (@ + MaxBeatCount) % (MaxBeatCount + 1)]

-----------------------------------------------------------------------------
(* RdDataInfo *)

(* Mutant: the last tag is never used. *)
RdInfoFullEarly == Cardinality({t \in Tag : rdata_info_buffer[t] # "free"}) + 1 >= RdDatInfoDepth

RdInfoFull == Cardinality({t \in Tag : rdata_info_buffer[t] # "free"}) >= RdDatInfoDepth

allocate_info_tag ==
  LET t == Min(unused_buffer_id) IN
  /\ unused_buffer_id' = unused_buffer_id \ {t}
  /\ rdata_info_buffer' = [rdata_info_buffer EXCEPT ![t] = "waiting"]

set_entry_data_ready(t) ==
  /\ rdata_info_buffer' = [rdata_info_buffer EXCEPT ![t] = "ready"]
  /\ UNCHANGED unused_buffer_id

(* Mutant: the tag of an entry that was sent is not given back. *)
erase_entry_only(t) ==
  /\ rdata_info_buffer' = [rdata_info_buffer EXCEPT ![t] = "free"]
  /\ UNCHANGED unused_buffer_id

erase_entry(t) ==
  /\ rdata_info_buffer' = [rdata_info_buffer EXCEPT ![t] = "free"]
  /\ unused_buffer_id' = unused_buffer_id \union {t}

-----------------------------------------------------------------------------
(* ResponseQueues *)

DbidQ == 0
RetryAckQ == 1
PcrdGrantQ == 2
ReadReceiptQ == 4
CompQ == 5

HasRspPending == \E q \in Rsp : response_queues[q] # <<>>

(* The first non-empty queue after the one served last. *)
Arbiter ==
  LET rot(i) == (winner_queue_index + 1 + i) % 6
      first == Min({i \in Rsp : response_queues[rot(i)] # <<>>})
  IN rot(first)

IsRetryAckFull == Len(response_queues[RetryAckQ]) >= MaxRetryAck

Insert(q, flit) == response_queues' = [response_queues EXCEPT ![q] = Append(@, flit)]

-----------------------------------------------------------------------------
(* What the flits of a response queue tell apart; queue 3 is never used. *)
RspFlit(q) == CASE q = DbidQ -> Dbid
                [] q = RetryAckQ -> Kinds
                [] q = PcrdGrantQ -> {"PcrdGrant"}
                [] q = ReadReceiptQ -> {"ReadReceipt"}
                [] q = CompQ -> {"Comp"}
                [] OTHER -> {}

BuffersTypeOK ==
  /\ unallocated_dbid \subseteq Dbid
  /\ beat_count \in [Dbid -> -1 .. MaxBeatCount]
  /\ buffer_payload \in [Dbid -> Kinds \union {NoKind}]
  /\ unused_buffer_id \subseteq Tag
  /\ rdata_info_buffer \in [Tag -> {"free", "waiting", "ready"}]
  /\ response_queues = [q \in Rsp |-> response_queues[q]]
  /\ \A q \in Rsp : response_queues[q] \in Seq(RspFlit(q))
  /\ winner_queue_index \in -1 .. 5
=============================================================================
