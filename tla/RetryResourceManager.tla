------------------------ MODULE RetryResourceManager ------------------------
(***************************************************************************)
(* The retry bookkeeping of the CHI port: how many requests of each class   *)
(* and source were turned away, how many P-credits were promised upstream,  *)
(* and the round-robin arbitration that picks who gets the next one.        *)
(***************************************************************************)
EXTENDS P2cFifo

CONSTANTS
  SrcIdNum,               \* SRC_ID_NUM
  RetryGprExpiredEnable,  \* RETRY_GPR_EXPIRED_ENABLE
  RetryGpwExpiredEnable   \* RETRY_GPW_EXPIRED_ENABLE

ASSUME RetryAssumption ==
  /\ SrcIdNum \in Nat \ {0}
  /\ RetryGprExpiredEnable \in BOOLEAN
  /\ RetryGpwExpiredEnable \in BOOLEAN

PortCmdType == {"HPR", "LPR", "GPR", "TPW", "GPW", "CMO"}
SrcId == 0 .. SrcIdNum - 1
Pool == {"HPR", "LGPR", "TPW", "CMO"}

VARIABLES
  retry_matrix,               \* [PortCmdType -> [SrcId -> Nat]]
  p_credit,                   \* [Pool -> Nat]: the four *_send_upstream_p_credit
  lpr_gpr_arbit_result,       \* first-level arbiters
  tpw_gpw_arbit_result,
  next_arbit_search_pos,      \* second-level arbiter
  type_src_id_arbit_result    \* [PortCmdType -> SrcId]: the source served last

arbitVars == <<lpr_gpr_arbit_result, tpw_gpw_arbit_result, next_arbit_search_pos,
               type_src_id_arbit_result>>
retryVars == <<retry_matrix, p_credit, arbitVars>>

RetryInit ==
  /\ retry_matrix = [c \in PortCmdType |-> [s \in SrcId |-> 0]]
  /\ p_credit = [p \in Pool |-> 0]
  /\ lpr_gpr_arbit_result = 0
  /\ tpw_gpw_arbit_result = 0
  /\ next_arbit_search_pos = -1
  /\ type_src_id_arbit_result = [c \in PortCmdType |-> -1]

PoolOf(c) == CASE c = "HPR" -> "HPR" [] c \in {"LPR", "GPR"} -> "LGPR"
               [] c \in {"TPW", "GPW"} -> "TPW" [] c = "CMO" -> "CMO"

has_retry_cmd(c) == \E s \in SrcId : retry_matrix[c][s] > 0

(* cnt_inc: a source outside the matrix is silently not recorded. *)
cnt_inc(c, src) ==
  retry_matrix' = IF src \in SrcId THEN [retry_matrix EXCEPT ![c][src] = @ + 1] ELSE retry_matrix

(* gpr_expire_time and gpw_expire_time are never set, so they have always passed. *)
is_gpr_expired == RetryGprExpiredEnable
is_gpw_expired == RetryGpwExpiredEnable

QueueFull(q, pool) == GetQueueSize(q) + p_credit[pool] >= MaxQueueDepth(q)

(* Mutant: the write data buffers are forgotten. *)
is_full_queues_only(pool) ==
  CASE pool = "HPR" -> QueueFull("HPR", "HPR")
    [] pool = "LGPR" -> QueueFull("LPR", "LGPR")
    [] pool = "TPW" -> QueueFull("TPW", "TPW")
    [] pool = "CMO" -> FALSE

(* is_hpr_full, is_lgpr_full, is_tpw_full, is_cmo_full *)
is_full(pool) ==
  CASE pool = "HPR" -> QueueFull("HPR", "HPR")
    [] pool = "LGPR" -> QueueFull("LPR", "LGPR")
    [] pool = "TPW" -> IsArrayFull \/ QueueFull("TPW", "TPW")
    [] pool = "CMO" -> FALSE

is_gpr_expired_and_rd_queue_only_one_space == IsRdQueueRemainOneSpace /\ is_gpr_expired

is_need_to_send_pcrd_grant == \E c \in PortCmdType : ~is_full(PoolOf(c)) /\ has_retry_cmd(c)

-----------------------------------------------------------------------------
(* The first-level winner of a pair: a if b has nothing, b if a has nothing,
   otherwise the one the last result points to. *)
PairWinner(a, b, last) ==
  IF has_retry_cmd(a) /\ has_retry_cmd(b) THEN IF last = 1 THEN a ELSE b
  ELSE IF has_retry_cmd(a) THEN a
  ELSE IF has_retry_cmd(b) THEN b ELSE "Invalid"

LgprWinner == PairWinner("LPR", "GPR", lpr_gpr_arbit_result)
TgpwWinner == PairWinner("TPW", "GPW", tpw_gpw_arbit_result)

Candidate(i) == CASE i = 0 -> LgprWinner
                  [] i = 1 -> TgpwWinner
                  [] i = 2 -> IF has_retry_cmd("HPR") THEN "HPR" ELSE "Invalid"
                  [] i = 3 -> IF has_retry_cmd("CMO") THEN "CMO" ELSE "Invalid"

(* The second level: the first candidate after the last winner. *)
RoundRobinPos ==
  LET rot(i) == (next_arbit_search_pos + 1 + i) % 4
      first == Min({i \in 0..3 : Candidate(rot(i)) # "Invalid"})
  IN rot(first)

(* A first-level result is locked while its winner, chosen among two, has not
   been served. *)
PairResult(a, b, winner, final, last) ==
  IF winner = "Invalid" \/ (final # winner /\ has_retry_cmd(a) /\ has_retry_cmd(b)) THEN last
  ELSE IF winner = a THEN 0 ELSE 1

ExpiredWinner == IF is_gpr_expired /\ has_retry_cmd("GPR") THEN "GPR"
                 ELSE IF is_gpw_expired /\ has_retry_cmd("GPW") THEN "GPW" ELSE "Invalid"

(* The class select_type_cmd_type returns ... *)
SelectedCmdType == IF ExpiredWinner # "Invalid" THEN ExpiredWinner ELSE Candidate(RoundRobinPos)

(* ... and what it does to the arbiters. *)
UpdateArbiters ==
  IF ExpiredWinner # "Invalid"
  THEN UNCHANGED <<lpr_gpr_arbit_result, tpw_gpw_arbit_result, next_arbit_search_pos>>
  ELSE LET final == Candidate(RoundRobinPos) IN
       /\ next_arbit_search_pos' = RoundRobinPos
       /\ lpr_gpr_arbit_result' = PairResult("LPR", "GPR", LgprWinner, final, lpr_gpr_arbit_result)
       /\ tpw_gpw_arbit_result' = PairResult("TPW", "GPW", TgpwWinner, final, tpw_gpw_arbit_result)

(* The next source, after the one served last, with a retried request. *)
SelectedSrcId(c) ==
  LET rot(i) == (type_src_id_arbit_result[c] + 1 + i) % SrcIdNum
      first == Min({i \in SrcId : retry_matrix[c][rot(i)] # 0})
  IN rot(first)

(* Mutant: the request stays in the matrix. *)
GrantPcrdAgain ==
  LET c == SelectedCmdType
      s == SelectedSrcId(c)
  IN /\ UpdateArbiters
     /\ type_src_id_arbit_result' = [type_src_id_arbit_result EXCEPT ![c] = s]
     /\ p_credit' = [p_credit EXCEPT ![PoolOf(c)] = @ + 1]
     /\ UNCHANGED retry_matrix

(* select_type_cmd_type, select_src_id and send_upstream_p_credit_inc: one
   P-credit is promised. *)
GrantPcrd ==
  LET c == SelectedCmdType
      s == SelectedSrcId(c)
  IN /\ UpdateArbiters
     /\ type_src_id_arbit_result' = [type_src_id_arbit_result EXCEPT ![c] = s]
     /\ retry_matrix' = [retry_matrix EXCEPT ![c][s] = @ - 1]
     /\ p_credit' = [p_credit EXCEPT ![PoolOf(c)] = @ + 1]

-----------------------------------------------------------------------------
RetryTypeOK ==
  /\ retry_matrix \in [PortCmdType -> [SrcId -> Nat]]
  /\ p_credit \in [Pool -> Nat]
  /\ lpr_gpr_arbit_result \in {0, 1} /\ tpw_gpw_arbit_result \in {0, 1}
  /\ next_arbit_search_pos \in -1 .. 3
  /\ type_src_id_arbit_result \in [PortCmdType -> -1 .. SrcIdNum - 1]
=============================================================================
