----------------------------- MODULE PortLemmas -----------------------------
(* What the operators of the CHI port return, for every value of the         *)
(* constants: round-robin searches, occurrences in a queue, the number of     *)
(* beats, and the possible outcomes of the two branching stages.              *)
EXTENDS CHIPort, NatLemmas, FiniteSetTheorems, SequenceTheorems, TLAPS

(* The round-robin position i steps after the one served last reaches every
   position. *)
LEMMA Rotation ==
  ASSUME NEW n \in Nat \ {0}, NEW last \in -1 .. n - 1, NEW s \in 0 .. n - 1
  PROVE  \E i \in 0 .. n - 1 : (last + 1 + i) % n = s
<1>1. CASE s > last
  <2>1. s - last - 1 \in 0 .. n - 1 /\ last + 1 + (s - last - 1) = s
    BY <1>1
  <2>2. s % n = s
    OBVIOUS
  <2>3. QED
    BY <2>1, <2>2
<1>2. CASE s <= last
  <2>1. n + s - last - 1 \in 0 .. n - 1 /\ last + 1 + (n + s - last - 1) = s + n
    BY <1>2
  <2>2. (s + n) % n = s
    OBVIOUS
  <2>3. QED
    BY <2>1, <2>2
<1>3. QED
  BY <1>1, <1>2

-----------------------------------------------------------------------------
(* Occurrences in a queue *)

LEMMA OccursFinite ==
  ASSUME NEW S, NEW s \in Seq(S), NEW x
  PROVE  /\ IsFiniteSet({i \in DOMAIN s : s[i] = x})
         /\ Occurs(s, x) \in Nat
<1>1. IsFiniteSet(1 .. Len(s)) /\ DOMAIN s = 1 .. Len(s)
  BY FS_Interval, LenProperties
<1>2. IsFiniteSet({i \in DOMAIN s : s[i] = x})
  BY <1>1, FS_Subset
<1>3. QED
  BY <1>2, FS_CardinalityType DEF Occurs

LEMMA OccursEmpty == \A x : Occurs(<<>>, x) = 0
<1>1. TAKE x
<1>2. {i \in DOMAIN <<>> : <<>>[i] = x} = {}
  OBVIOUS
<1>3. QED
  BY <1>2, FS_EmptySet DEF Occurs

LEMMA OccursAppend ==
  ASSUME NEW S, NEW s \in Seq(S), NEW e \in S, NEW x
  PROVE  Occurs(Append(s, e), x) = Occurs(s, x) + (IF e = x THEN 1 ELSE 0)
<1> DEFINE A == {i \in DOMAIN s : s[i] = x}
           B == {i \in DOMAIN Append(s, e) : Append(s, e)[i] = x}
<1>1. DOMAIN s = 1 .. Len(s) /\ Len(s) \in Nat
  BY LenProperties
<1>2. /\ DOMAIN Append(s, e) = 1 .. Len(s) + 1
      /\ \A i \in 1 .. Len(s) : Append(s, e)[i] = s[i]
      /\ Append(s, e)[Len(s) + 1] = e
  BY <1>1, AppendProperties, LenProperties
<1>3. B = IF e = x THEN A \union {Len(s) + 1} ELSE A
  BY <1>1, <1>2
<1>4. IsFiniteSet(A) /\ Len(s) + 1 \notin A
  <2>1. IsFiniteSet(A)
    BY OccursFinite
  <2>2. Len(s) + 1 \notin A
    BY <1>1
  <2>3. QED
    BY <2>1, <2>2
<1>5. Cardinality(A \union {Len(s) + 1}) = Cardinality(A) + 1
  BY <1>4, FS_AddElement
<1>6. Occurs(s, x) = Cardinality(A) /\ Occurs(Append(s, e), x) = Cardinality(B) /\ Occurs(s, x) \in Nat
  BY OccursFinite DEF Occurs
<1> HIDE DEF A, B
<1>7. QED
  BY <1>3, <1>5, <1>6

LEMMA OccursTail ==
  ASSUME NEW S, NEW s \in Seq(S), s # <<>>, NEW x
  PROVE  Occurs(s, x) = Occurs(Tail(s), x) + (IF Head(s) = x THEN 1 ELSE 0)
<1> DEFINE A == {i \in DOMAIN Tail(s) : Tail(s)[i] = x}
           B == {i \in DOMAIN s : s[i] = x}
           f == [i \in A |-> i + 1]
<1>1. /\ DOMAIN s = 1 .. Len(s) /\ Len(s) \in Nat \ {0}
      /\ Tail(s) \in Seq(S) /\ Len(Tail(s)) = Len(s) - 1
      /\ \A i \in 1 .. Len(s) - 1 : Tail(s)[i] = s[i + 1]
  BY HeadTailProperties, LenProperties, EmptySeq
<1>2. DOMAIN Tail(s) = 1 .. Len(s) - 1
  BY <1>1, LenProperties
<1>3. IsFiniteSet(A) /\ IsFiniteSet(B)
  BY <1>1, OccursFinite
<1>4. f \in Bijection(A, B \ {1})
  <2>1. \A i \in A : i + 1 \in B \ {1}
    BY <1>1, <1>2
  <2>2. \A j \in B \ {1} : j - 1 \in A /\ f[j - 1] = j
    BY <1>1, <1>2
  <2>3. \A i, j \in A : f[i] = f[j] => i = j
    BY <1>2
  <2>4. f \in [A -> B \ {1}]
    BY <2>1
  <2>5. f \in Surjection(A, B \ {1})
    BY <2>2, <2>4 DEF Surjection
  <2>6. f \in Injection(A, B \ {1})
    BY <2>3, <2>4 DEF Injection, IsInjective
  <2>7. QED
    BY <2>5, <2>6 DEF Bijection
<1>5. Cardinality(B \ {1}) = Cardinality(A)
  BY <1>3, <1>4, FS_Bijection DEF ExistsBijection
<1>6. Cardinality(B \ {1}) = IF 1 \in B THEN Cardinality(B) - 1 ELSE Cardinality(B)
  BY <1>3, FS_RemoveElement
<1>7. 1 \in B <=> Head(s) = x
  BY <1>1
<1>8. Occurs(s, x) = Cardinality(B) /\ Occurs(Tail(s), x) = Cardinality(A) /\ Occurs(s, x) \in Nat
  BY OccursFinite DEF Occurs
<1> HIDE DEF A, B, f
<1>9. QED
  BY <1>5, <1>6, <1>7, <1>8

-----------------------------------------------------------------------------
(* Write buffers *)

(* A write has at least one beat, and the uint16_t holds them all. *)
LEMMA BeatsBound == \A k \in Kinds : Beats(k) \in 1 .. MaxBeatCount
<1> SUFFICES ASSUME NEW k \in Kinds PROVE Beats(k) \in 1 .. MaxBeatCount
  OBVIOUS
<1> DEFINE bytes == SizeBytes[k.size]
<1>1. k.size \in 0..6
  BY BuffersAssumption DEF Kind
<1>2. bytes \in 1..64
  BY <1>1 DEF SizeBytes
<1>3. \A a \in 1..64, b \in Nat \ {0} : a > b => a \div b \in 1..64
  OBVIOUS
<1>4. DataWidth \in Nat \ {0}
  BY BuffersAssumption
<1>5. Beats(k) = IF bytes <= DataWidth THEN 1 ELSE bytes \div DataWidth
  BY DEF Beats
<1> HIDE DEF bytes
<1>6. bytes > DataWidth => bytes \div DataWidth \in 1..64
  BY <1>2, <1>3, <1>4
<1>7. Beats(k) \in 1..64
  BY <1>2, <1>4, <1>5, <1>6
<1>8. MaxBeatCount \in Nat /\ 64 <= MaxBeatCount
  BY DEF MaxBeatCount
<1>9. \A n \in 1..64 : n \in 1 .. MaxBeatCount
  BY <1>8
<1>10. QED
  BY <1>7, <1>9

LEMMA DbidNotNoHead == NoHead \notin Dbid /\ Dbid \subseteq Nat
BY BuffersAssumption DEF Dbid, NoHead

(* Move2Head takes a write that is ready if there is one. *)
LEMMA Move2HeadPicks ==
  ASSUME NEW queue \in SUBSET Dbid, NEW bc
  PROVE  \/ Move2Head(queue, bc) \in queue /\ bc[Move2Head(queue, bc)] = 0
         \/ Move2Head(queue, bc) = NoHead /\ \A d \in queue : bc[d] # 0
<1> DEFINE ready == {d \in queue : bc[d] = 0}
<1>1. CASE ready = {}
  BY <1>1 DEF Move2Head
<1>2. CASE ready # {}
  <2>1. ready \in SUBSET Nat
    BY DbidNotNoHead
  <2>2. Min(ready) \in ready
    BY <1>2, <2>1, MinIsLeast
  <2>3. QED
    BY <1>2, <2>2 DEF Move2Head
<1>3. QED
  BY <1>1, <1>2

-----------------------------------------------------------------------------
(* Round-robin choices *)

(* The response arbiter picks a queue that is not empty. *)
LEMMA ArbiterPicks ==
  ASSUME winner_queue_index \in -1 .. 5, HasRspPending
  PROVE  Arbiter \in Rsp /\ response_queues[Arbiter] # <<>>
<1> DEFINE rot(i) == (winner_queue_index + 1 + i) % 6
           S == {i \in Rsp : response_queues[rot(i)] # <<>>}
<1>1. PICK q \in 0 .. 5 : response_queues[q] # <<>>
  BY DEF HasRspPending, Rsp
<1>2. \E i \in 0 .. 5 : rot(i) = q
  <2>1. 6 \in Nat \ {0} /\ 6 - 1 = 5
    OBVIOUS
  <2>2. QED
    BY <1>1, <2>1, Rotation
<1>3. S # {}
  <2> HIDE DEF rot
  <2>1. QED
    BY <1>1, <1>2 DEF Rsp
<1>4. S \in SUBSET Nat
  BY DEF Rsp
<1>5. Min(S) \in S
  BY <1>3, <1>4, MinIsLeast
<1>6. \A i \in 0 .. 5 : rot(i) \in 0 .. 5
  OBVIOUS
<1>7. Arbiter = rot(Min(S))
  BY DEF Arbiter
<1> HIDE DEF rot
<1>8. QED
  BY <1>5, <1>6, <1>7 DEF Rsp

(* The source arbiter picks a source that waits. *)
LEMMA SelectedSrcIdWaits ==
  ASSUME RetryTypeOK, NEW c \in PortCmdType, has_retry_cmd(c)
  PROVE  SelectedSrcId(c) \in SrcId /\ retry_matrix[c][SelectedSrcId(c)] \in Nat \ {0}
<1> DEFINE last == type_src_id_arbit_result[c]
           rot(i) == (last + 1 + i) % SrcIdNum
           S == {i \in SrcId : retry_matrix[c][rot(i)] # 0}
<1>1. SrcIdNum \in Nat \ {0}
  BY RetryAssumption
<1>2. last \in -1 .. SrcIdNum - 1 /\ \A s \in SrcId : retry_matrix[c][s] \in Nat
  BY DEF RetryTypeOK
<1>3. PICK s \in 0 .. SrcIdNum - 1 : retry_matrix[c][s] > 0
  BY DEF has_retry_cmd, SrcId
<1>4. \E i \in 0 .. SrcIdNum - 1 : rot(i) = s
  <2> HIDE DEF last
  <2>1. QED
    BY <1>1, <1>2, <1>3, Rotation
<1>5. S # {}
  BY <1>2, <1>3, <1>4 DEF SrcId
<1>6. S \in SUBSET Nat
  BY <1>1 DEF SrcId
<1>7. Min(S) \in S
  BY <1>5, <1>6, MinIsLeast
<1>8. \A i \in SrcId : rot(i) \in SrcId
  <2> HIDE DEF last
  <2>1. \A x \in Nat : x % SrcIdNum \in 0 .. SrcIdNum - 1
    BY <1>1
  <2>2. \A i \in 0 .. SrcIdNum - 1 : last + 1 + i \in Nat
    BY <1>1, <1>2
  <2>3. QED
    BY <2>1, <2>2 DEF SrcId
<1>9. SelectedSrcId(c) = rot(Min(S))
  BY DEF SelectedSrcId
<1> HIDE DEF rot
<1>10. QED
  BY <1>2, <1>7, <1>8, <1>9

(* The class arbiter picks a class that waits. *)
LEMMA SelectedCmdTypeWaits ==
  ASSUME RetryTypeOK, is_need_to_send_pcrd_grant
  PROVE  /\ SelectedCmdType \in PortCmdType
         /\ has_retry_cmd(SelectedCmdType)
         /\ ExpiredWinner = "Invalid" => RoundRobinPos \in 0 .. 3
<1> DEFINE rot(i) == (next_arbit_search_pos + 1 + i) % 4
           S == {i \in 0 .. 3 : Candidate(rot(i)) # "Invalid"}
<1>1. \A i \in 0 .. 3 : Candidate(i) # "Invalid" =>
        Candidate(i) \in PortCmdType /\ has_retry_cmd(Candidate(i))
  BY DEF Candidate, LgprWinner, TgpwWinner, PairWinner, PortCmdType
<1>2. PICK c \in PortCmdType : has_retry_cmd(c)
  BY DEF is_need_to_send_pcrd_grant
<1>3. \E q \in 0 .. 3 : Candidate(q) # "Invalid"
  <2>1. c \in {"LPR", "GPR"} => Candidate(0) # "Invalid"
    BY <1>2 DEF Candidate, LgprWinner, PairWinner
  <2>2. c \in {"TPW", "GPW"} => Candidate(1) # "Invalid"
    BY <1>2 DEF Candidate, TgpwWinner, PairWinner
  <2>3. c = "HPR" => Candidate(2) # "Invalid"
    BY <1>2 DEF Candidate
  <2>4. c = "CMO" => Candidate(3) # "Invalid"
    BY <1>2 DEF Candidate
  <2>5. 0 \in 0 .. 3 /\ 1 \in 0 .. 3 /\ 2 \in 0 .. 3 /\ 3 \in 0 .. 3
    OBVIOUS
  <2>6. c \in {"HPR", "LPR", "GPR", "TPW", "GPW", "CMO"}
    BY DEF PortCmdType
  <2>7. QED
    BY <2>1, <2>2, <2>3, <2>4, <2>5, <2>6
<1>4. PICK q \in 0 .. 3 : Candidate(q) # "Invalid"
  BY <1>3
<1>5. next_arbit_search_pos \in -1 .. 3
  BY DEF RetryTypeOK
<1>6. \E i \in 0 .. 3 : rot(i) = q
  <2>1. 4 \in Nat \ {0} /\ 4 - 1 = 3
    OBVIOUS
  <2>2. QED
    BY <1>4, <1>5, <2>1, Rotation
<1>7. S # {}
  BY <1>4, <1>6
<1>8. S \in SUBSET Nat
  OBVIOUS
<1>9. Min(S) \in S
  BY <1>7, <1>8, MinIsLeast
<1>10. \A i \in 0 .. 3 : rot(i) \in 0 .. 3
  BY <1>5
<1>11. RoundRobinPos = rot(Min(S))
  BY DEF RoundRobinPos
<1>12. RoundRobinPos \in 0 .. 3 /\ Candidate(RoundRobinPos) # "Invalid"
  <2> HIDE DEF rot
  <2>1. QED
    BY <1>9, <1>10, <1>11
<1>13. CASE ExpiredWinner # "Invalid"
  BY <1>12, <1>13 DEF SelectedCmdType, ExpiredWinner, PortCmdType
<1>14. CASE ExpiredWinner = "Invalid"
  BY <1>1, <1>12, <1>14 DEF SelectedCmdType
<1>15. QED
  BY <1>13, <1>14

LEMMA QosLevelIsClass == \A k \in Kinds : GetQosLevel(k) \in PortCmdType
BY DEF GetQosLevel, PortCmdType
-----------------------------------------------------------------------------
(* The outcomes of the two branching stages *)

OthersOfPop == <<bufferVars, retryVars, pipeVars, winner_queue_index, upVars>>

(* req_pop_s3 sends a read, sends a write, or changes at most the arbiter's
   state and the fault. *)
LEMMA PopOutcome ==
  ASSUME pa_state \in {"IDLE", "RD", "WR"}, req_pop_s3
  PROVE  /\ stage = "req_pop" /\ stage' = "req_decision"
         /\ UNCHANGED OthersOfPop
         /\ \/ \E q \in {"HPR", "LPR"} : Ready(q) /\ unused_buffer_id # {} /\ PopRead(q)
            \/ /\ head_entry # NoHead /\ HasCredit("TPW") /\ (IsRMWRequest => HasCredit("LPR"))
               /\ PopWrite
            \/ UNCHANGED <<rdVars, rspVars, hpr_queue, lpr_queue, tpw_queue, head_entry,
                           credit_counter, aging, uif_wr>>
         /\ pa_state' \in {"IDLE", "RD", "WR"}
         /\ fault' \in {fault, "no_head", "tpw_credit", "lpr_credit", "no_tag"}
<1> DEFINE s == UpdateState
           q == GetWinningQueue(s)
<1>1. stage = "req_pop" /\ stage' = "req_decision"
  BY DEF req_pop_s3, Goto
<1>2. s \in {"IDLE", "RD", "WR"}
  BY DEF UpdateState
<1>3. q \in {"HPR", "LPR", "TPW", "NONE"} /\ (q \in {"HPR", "LPR"} => Ready(q))
  BY <1>2 DEF GetWinningQueue, IsHighPriority
<1>4. CASE UNCHANGED <<bufferVars, rdVars, rspVars, p2cVars, retryVars, pipeVars, uif_wr, fault, upVars>>
  BY <1>1, <1>4 DEF OthersOfPop, p2cVars, rspVars
<1> HIDE DEF q, s
<1>5. CASE PopFault(q) # "none" /\ Stop(PopFault(q))
  <2>1. PopFault(q) \in {"no_head", "tpw_credit", "lpr_credit", "no_tag"}
    BY <1>3, <1>5 DEF PopFault
  <2>2. QED
    BY <1>1, <1>5, <2>1 DEF Stop, OthersOfPop, p2cVars, rspVars
<1>6. CASE PopFault(q) = "none" /\ pa_state' = s /\ q \in {"HPR", "LPR"} /\ PopRead(q)
  <2>1. Ready(q) /\ unused_buffer_id # {}
    BY <1>3, <1>6 DEF PopFault
  <2>2. UNCHANGED OthersOfPop /\ fault' = fault
    BY <1>6 DEF PopRead, OthersOfPop
  <2>3. QED
    BY <1>1, <1>2, <1>6, <2>1, <2>2
<1>7. CASE PopFault(q) = "none" /\ pa_state' = s /\ q = "TPW" /\ PopWrite
  <2>1. head_entry # NoHead /\ HasCredit("TPW") /\ (IsRMWRequest => HasCredit("LPR"))
    BY <1>7 DEF PopFault
  <2>2. UNCHANGED OthersOfPop /\ fault' = fault
    BY <1>7 DEF PopWrite, OthersOfPop
  <2>3. QED
    BY <1>1, <1>2, <1>7, <2>1, <2>2
<1>8. CASE /\ pa_state' = s
           /\ UNCHANGED <<bufferVars, rdVars, rspVars, hpr_queue, lpr_queue, tpw_queue, head_entry,
                          credit_counter, aging, retryVars, pipeVars, uif_wr, fault, upVars>>
  BY <1>1, <1>2, <1>8 DEF OthersOfPop, rspVars
<1>9. QED
  BY <1>4, <1>5, <1>6, <1>7, <1>8 DEF req_pop_s3, q, s

(* req_decision_s2 leaves everything but the request alone, or retries,
   accepts a read or accepts a write. *)
OthersOfDecision == <<rdVars, winner_queue_index, req_rx, dat_rx, wdat_s1, uif_wr, upVars>>

LEMMA DecisionOutcome ==
  ASSUME req_s1 \in Seq(Request), req_decision_s2
  PROVE  /\ stage = "req_decision" /\ stage' = "resp_gen"
         /\ UNCHANGED OthersOfDecision
         /\ req_s1' = IF req_s1 = <<>> THEN <<>> ELSE Tail(req_s1)
         /\ \/ /\ UNCHANGED <<bufferVars, response_queues, p2cVars, retryVars>>
               /\ fault' \in {fault, "opcode"}
            \/ /\ req_s1 # <<>>
               /\ \E k \in Kinds : \/ Retry(k)
                                   \/ IsRead(k) /\ AcceptRead(k)
                                   \/ IsWrite(k) /\ AcceptWrite(k)
<1>1. /\ stage = "req_decision" /\ stage' = "resp_gen"
      /\ UNCHANGED OthersOfDecision
  BY DEF req_decision_s2, Goto, OthersOfDecision
<1>2. CASE req_s1 = <<>>
  BY <1>1, <1>2 DEF req_decision_s2
<1>3. CASE req_s1 # <<>>
  <2>1. Head(req_s1).kind \in Kinds
    <3>1. Head(req_s1) \in Request
      BY <1>3, HeadTailProperties
    <3>2. QED
      BY <3>1 DEF Request
  <2>2. req_s1' = Tail(req_s1)
    BY <1>3 DEF req_decision_s2
  <2>3. QED
    BY <1>1, <1>3, <2>1, <2>2 DEF req_decision_s2
<1>4. QED
  BY <1>2, <1>3
-----------------------------------------------------------------------------
(* The sums over the retry bookkeeping *)

(* Requests of known sources are finitely many. *)
LEMMA KindsFinite ==
  ASSUME \A k \in Kinds : k.src \in SrcId
  PROVE  IsFiniteSet(Kinds)
<1> DEFINE P == ((((Opcode \X (0 .. 15)) \X (0 .. 6)) \X BOOLEAN) \X SrcId) \X BOOLEAN
           R == [op : Opcode, qos : 0 .. 15, size : 0 .. 6, be_full : BOOLEAN, src : SrcId,
                 ordered : BOOLEAN]
           f == [p \in P |-> [op |-> p[1][1][1][1][1], qos |-> p[1][1][1][1][2],
                              size |-> p[1][1][1][2], be_full |-> p[1][1][2],
                              src |-> p[1][2], ordered |-> p[2]]]
<1>1. IsFiniteSet(Opcode)
  <2>1. \A S, x : IsFiniteSet(S) => IsFiniteSet(S \union {x})
    BY FS_AddElement
  <2>2. IsFiniteSet({} \union {"READ_NO_SNP"} \union {"READ_NO_SNP_SEP"} \union {"WRITE_NO_SNP_FULL"})
    BY <2>1, FS_EmptySet
  <2>3. IsFiniteSet({} \union {"READ_NO_SNP"} \union {"READ_NO_SNP_SEP"} \union {"WRITE_NO_SNP_FULL"}
                       \union {"WRITE_NO_SNP_PTL"} \union {"PREFETCH_TGT"}
                       \union {"CLEAN_SHARED_PERSIST"} \union {"UNSUPPORTED"})
    BY <2>1, <2>2
  <2>4. Opcode = {} \union {"READ_NO_SNP"} \union {"READ_NO_SNP_SEP"} \union {"WRITE_NO_SNP_FULL"}
                    \union {"WRITE_NO_SNP_PTL"} \union {"PREFETCH_TGT"}
                    \union {"CLEAN_SHARED_PERSIST"} \union {"UNSUPPORTED"}
    BY DEF Opcode
  <2>5. QED
    BY <2>3, <2>4
<1>2. IsFiniteSet(BOOLEAN) /\ IsFiniteSet(0 .. 15) /\ IsFiniteSet(0 .. 6) /\ IsFiniteSet(SrcId)
  <2>1. IsFiniteSet({} \union {TRUE} \union {FALSE})
    BY FS_EmptySet, FS_AddElement
  <2>2. BOOLEAN = {} \union {TRUE} \union {FALSE}
    OBVIOUS
  <2>3. IsFiniteSet(0 .. 15) /\ IsFiniteSet(0 .. 6)
    <3>1. \A a, b : a \in Int /\ b \in Int => IsFiniteSet(a .. b)
      BY FS_Interval
    <3>2. 0 \in Int /\ 6 \in Int /\ 15 \in Int
      OBVIOUS
    <3>3. QED
      BY <3>1, <3>2, Zenon
  <2>4. IsFiniteSet(SrcId)
    BY FS_Interval, RetryAssumption DEF SrcId
  <2>5. QED
    BY <2>1, <2>2, <2>3, <2>4
<1>3. IsFiniteSet(P)
  BY <1>1, <1>2, FS_Product
<1>4. f \in Surjection(P, R)
  <2>1. f \in [P -> R]
    OBVIOUS
  <2>2. ASSUME NEW r \in R PROVE \E p \in P : f[p] = r
    <3> DEFINE p == <<<<<<<<<<r.op, r.qos>>, r.size>>, r.be_full>>, r.src>>, r.ordered>>
    <3>1. p \in P
      OBVIOUS
    <3>2. f[p] = r
      BY <3>1
    <3>3. QED
      BY <3>1, <3>2
  <2>3. QED
    BY <2>1, <2>2 DEF Surjection
<1>5. IsFiniteSet(R)
  <2> HIDE DEF f, P, R
  <2>1. QED
    BY <1>3, <1>4, FS_Surjection
<1>6. Kinds \in SUBSET R
  BY BuffersAssumption DEF Kind
<1>7. QED
  BY <1>5, <1>6, FS_Subset

LEMMA CellsFinite == IsFiniteSet(PortCmdType \X SrcId)
<1>1. IsFiniteSet({} \union {"HPR"} \union {"LPR"} \union {"GPR"} \union {"TPW"} \union {"GPW"} \union {"CMO"})
  BY FS_EmptySet, FS_AddElement
<1>2. PortCmdType = {} \union {"HPR"} \union {"LPR"} \union {"GPR"} \union {"TPW"} \union {"GPW"} \union {"CMO"}
  BY DEF PortCmdType
<1>3. IsFiniteSet(PortCmdType)
  BY <1>1, <1>2
<1>4. IsFiniteSet(SrcId)
  BY FS_Interval, RetryAssumption DEF SrcId
<1>5. QED
  BY <1>3, <1>4, FS_Product

Matrix == [PortCmdType -> [SrcId -> Nat]]

SetCell(m, c, s, v) == [m EXCEPT ![c][s] = v]

(* The sums of two matrices of which the one has v where the other has w. *)
SumsDiffer(m, n, v, w) ==
  /\ SumFunction(Cells(m)) \in Nat /\ SumFunction(Cells(n)) \in Nat
  /\ SumFunction(Cells(n)) + w = SumFunction(Cells(m)) + v

(* One counter of the matrix changes: the sum changes by as much. *)
LEMMA CellsUpdate ==
  ASSUME NEW m \in Matrix, NEW n \in Matrix, NEW c \in PortCmdType, NEW s \in SrcId, NEW v \in Nat,
         n = SetCell(m, c, s, v)
  PROVE  SumsDiffer(m, n, v, m[c][s])
<1> DEFINE S == PortCmdType \X SrcId
           f == Cells(m)
           g == Cells(n)
           x == <<c, s>>
<1>1. f \in [S -> Nat] /\ g \in [S -> Nat] /\ x \in S
  BY DEF Cells, Matrix
<1>2. f[x] = m[c][s] /\ g[x] = v
  BY DEF Cells, SetCell, Matrix
<1>3. EqualBut(f, g, S, x)
  <2> SUFFICES ASSUME NEW d \in PortCmdType, NEW t \in SrcId, <<d, t>> # x
               PROVE  m[d][t] = n[d][t]
    BY DEF Cells, EqualBut
  <2>1. d # c \/ t # s
    OBVIOUS
  <2>2. QED
    BY <2>1 DEF SetCell, Matrix
<1>4. IsFiniteSet(S)
  BY CellsFinite
<1> HIDE DEF S, f, g, x
<1>5. SumFunction(g) + f[x] = SumFunction(f) + g[x]
  BY <1>1, <1>3, <1>4, SumUpdate, Zenon
<1>6. SumFunction(f) \in Nat /\ SumFunction(g) \in Nat
  BY <1>1, <1>4, SumType, Zenon
<1>7. QED
  BY <1>2, <1>5, <1>6 DEF f, g, SumsDiffer
=============================================================================
