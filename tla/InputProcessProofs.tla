------------------------- MODULE InputProcessProofs -------------------------
(* Safety of the input process for every choice of the addresses, requests,   *)
(* CAM depths and credits.                                                    *)
EXTENDS InputProcess, NatLemmas, FiniteSetTheorems, SequenceTheorems, TLAPS

(* At most one request waits, and none in the temp buffer. *)
OneWaits == Len(rd_pip_buffer) <= 1 /\ Len(wr_pip_buffer) <= 1

(* The inductive invariant.  A request is accepted with a credit in hand; the
   credits bound what is held, so an index is free and the CAMs have room. *)
InputInv ==
  /\ TypeOK
  /\ OneWaits
  /\ RdIndicesConserved
  /\ WrIndicesConserved
  /\ PipNeverOverrun
  /\ CreditsBounded
  /\ NoFault

(* A step makes no credit and loses none. *)
CreditsKept ==
  /\ (ReadCredits + RdHeld)' = ReadCredits + RdHeld
  /\ (cam_credit["TPW"] + uif_credit["TPW"] + WrHeld)' = cam_credit["TPW"] + uif_credit["TPW"] + WrHeld

-----------------------------------------------------------------------------
(* The CAMs *)

LEMMA IndexFinite ==
  /\ IsFiniteSet(RdIndex) /\ Cardinality(RdIndex) = RdCamDepth
  /\ IsFiniteSet(WrIndex) /\ Cardinality(WrIndex) = WrCamDepth
<1>1. /\ RdCamDepth \in Nat \ {0} /\ WrCamDepth \in Nat \ {0}
  BY InputAssumption
<1>2. /\ 0 \in Int /\ RdCamDepth - 1 \in Int /\ WrCamDepth - 1 \in Int
  BY <1>1
<1>3. /\ IsFiniteSet(0 .. RdCamDepth - 1)
      /\ Cardinality(0 .. RdCamDepth - 1) = IF 0 > RdCamDepth - 1 THEN 0 ELSE RdCamDepth - 1 - 0 + 1
      /\ IsFiniteSet(0 .. WrCamDepth - 1)
      /\ Cardinality(0 .. WrCamDepth - 1) = IF 0 > WrCamDepth - 1 THEN 0 ELSE WrCamDepth - 1 - 0 + 1
  BY <1>2, FS_Interval
<1>4. QED
  BY <1>1, <1>3 DEF RdIndex, WrIndex

LEMMA CamsFinite ==
  ASSUME TypeOK
  PROVE  /\ Used(rd_cam) \subseteq RdIndex /\ Used(wr_cam) \subseteq WrIndex
         /\ IsFiniteSet(Used(rd_cam)) /\ Cardinality(Used(rd_cam)) \in 0 .. RdCamDepth
         /\ IsFiniteSet(Used(wr_cam)) /\ Cardinality(Used(wr_cam)) \in 0 .. WrCamDepth
<1>1. Used(rd_cam) \subseteq RdIndex /\ Used(wr_cam) \subseteq WrIndex
  BY DEF TypeOK, Used
<1>2. /\ IsFiniteSet(Used(rd_cam)) /\ Cardinality(Used(rd_cam)) <= RdCamDepth
      /\ IsFiniteSet(Used(wr_cam)) /\ Cardinality(Used(wr_cam)) <= WrCamDepth
  BY <1>1, IndexFinite, FS_Subset
<1>3. Cardinality(Used(rd_cam)) \in Nat /\ Cardinality(Used(wr_cam)) \in Nat
  BY <1>2, FS_CardinalityType
<1>4. QED
  BY <1>1, <1>2, <1>3, InputAssumption

LEMMA RequestIsNoEntry == \A r \in Requests : r # NoEntry /\ r \in Request
<1> SUFFICES ASSUME NEW r \in Requests PROVE r # NoEntry /\ r \in Request
  OBVIOUS
<1>1. r \in Request
  BY InputAssumption
<1>2. r.cmd \in {"RD", "WR", "RMW"}
  BY <1>1 DEF Request
<1>3. QED
  BY <1>1, <1>2 DEF NoEntry

(* A command leaves a CAM. *)
LEMMA UsedDelete ==
  ASSUME NEW I, NEW cam \in [I -> CamEntry], NEW i \in I, cam[i] # NoEntry
  PROVE  Used([cam EXCEPT ![i] = NoEntry]) = Used(cam) \ {i} /\ i \in Used(cam)
BY DEF Used

(* A command enters a CAM. *)
LEMMA UsedStore ==
  ASSUME NEW I, NEW cam \in [I -> CamEntry], NEW i \in I, NEW r \in Requests
  PROVE  Used([cam EXCEPT ![i] = r]) = Used(cam) \union {i}
BY RequestIsNoEntry DEF Used

-----------------------------------------------------------------------------
(* What a pipe buffer of one place holds *)

LEMMA PipOne ==
  ASSUME NEW P, NEW buffer \in Seq(P), Len(buffer) <= 1, buffer # <<>>
  PROVE  /\ Head(buffer) \in P /\ buffer[1] = Head(buffer)
         /\ DOMAIN buffer = {1} /\ Len(buffer) = 1
         /\ Tail(buffer) = <<>>
<1>1. Len(buffer) \in Nat /\ DOMAIN buffer = 1 .. Len(buffer) /\ Len(buffer) # 0
  BY LenProperties, EmptySeq
<1>2. Len(buffer) = 1
  BY <1>1
<1>3. Head(buffer) \in P /\ Head(buffer) = buffer[1]
  BY HeadTailProperties
<1>4. Tail(buffer) \in Seq(P) /\ Len(Tail(buffer)) = 0
  BY <1>2, HeadTailProperties
<1>5. Tail(buffer) = <<>>
  BY <1>4, EmptySeq
<1>6. QED
  BY <1>1, <1>2, <1>3, <1>5

LEMMA PipAppend ==
  ASSUME NEW P, NEW e \in P
  PROVE  /\ Append(<<>>, e) \in Seq(P)
         /\ Append(<<>>, e) # <<>>
         /\ Len(Append(<<>>, e)) = 1
         /\ \A k \in DOMAIN Append(<<>>, e) : Append(<<>>, e)[k] = e
         /\ DOMAIN Append(<<>>, e) = {1}
BY SMT

LEMMA PipIndicesEmpty == PipIndices(<<>>) = {}
BY DEF PipIndices

LEMMA PipIndicesOne ==
  ASSUME NEW P, NEW buffer \in Seq(P), Len(buffer) <= 1, buffer # <<>>
  PROVE  PipIndices(buffer) = {Head(buffer).index}
BY PipOne DEF PipIndices

LEMMA PipIndicesAppend ==
  ASSUME NEW P, NEW e \in P
  PROVE  PipIndices(Append(<<>>, e)) = {e.index}
<1> DEFINE b == Append(<<>>, e)
<1>1. DOMAIN b = {1} /\ b[1] = e
  BY PipAppend
<1> HIDE DEF b
<1>2. {b[k].index : k \in DOMAIN b} = {e.index}
  BY <1>1
<1>3. QED
  BY <1>2 DEF PipIndices, b

(* One index more or less in the queue of returned write indices. *)
LEMMA ReturnedAppend ==
  ASSUME NEW S, NEW s \in Seq(S), NEW e \in S,
         \A k \in DOMAIN s : s[k] # e,
         \A m, n \in DOMAIN s : m # n => s[m] # s[n]
  PROVE  /\ {Append(s, e)[k] : k \in DOMAIN Append(s, e)} = {s[k] : k \in DOMAIN s} \union {e}
         /\ \A m, n \in DOMAIN Append(s, e) : m # n => Append(s, e)[m] # Append(s, e)[n]
<1> DEFINE t == Append(s, e)
<1>1. Len(s) \in Nat /\ DOMAIN s = 1 .. Len(s) /\ DOMAIN t = 1 .. Len(s) + 1
  BY LenProperties, AppendProperties
<1>2. t[Len(s) + 1] = e /\ \A k \in DOMAIN s : t[k] = s[k]
  BY AppendProperties
<1>3. DOMAIN t = DOMAIN s \union {Len(s) + 1} /\ Len(s) + 1 \notin DOMAIN s
  BY <1>1
<1> HIDE DEF t
<1>4. {t[k] : k \in DOMAIN t} = {s[k] : k \in DOMAIN s} \union {e}
  BY <1>2, <1>3
<1>5. \A m, n \in DOMAIN t : m # n => t[m] # t[n]
  BY <1>2, <1>3
<1>6. QED
  BY <1>4, <1>5 DEF t

LEMMA ReturnedTail ==
  ASSUME NEW S, NEW s \in Seq(S), s # <<>>,
         \A m, n \in DOMAIN s : m # n => s[m] # s[n]
  PROVE  /\ {Tail(s)[k] : k \in DOMAIN Tail(s)} = {s[k] : k \in DOMAIN s} \ {Head(s)}
         /\ Head(s) \in {s[k] : k \in DOMAIN s}
         /\ \A m, n \in DOMAIN Tail(s) : m # n => Tail(s)[m] # Tail(s)[n]
<1> DEFINE t == Tail(s)
<1>1. Len(s) \in Nat \ {0} /\ DOMAIN s = 1 .. Len(s)
  BY LenProperties, EmptySeq
<1>2. /\ t \in Seq(S) /\ Len(t) = Len(s) - 1 /\ Head(s) = s[1]
      /\ \A k \in 1 .. Len(t) : t[k] = s[k + 1]
  BY HeadTailProperties
<1>3. DOMAIN t = 1 .. Len(s) - 1
  BY <1>2, LenProperties
<1> HIDE DEF t
<1>4. \A k \in DOMAIN t : k + 1 \in DOMAIN s /\ k + 1 # 1 /\ t[k] = s[k + 1]
  BY <1>1, <1>2, <1>3
<1>5. \A k \in DOMAIN s : k # 1 => k - 1 \in DOMAIN t /\ t[k - 1] = s[k]
  BY <1>1, <1>2, <1>3
<1>6. 1 \in DOMAIN s
  BY <1>1
<1>7. {t[k] : k \in DOMAIN t} = {s[k] : k \in DOMAIN s} \ {s[1]}
  BY <1>4, <1>5, <1>6
<1>8. \A m, n \in DOMAIN t : m # n => t[m] # t[n]
  BY <1>1, <1>3, <1>4
<1>9. QED
  BY <1>2, <1>6, <1>7, <1>8 DEF t

-----------------------------------------------------------------------------
(* Credits *)

LEMMA FourSummands ==
  \A a, b, c, d \in Nat : /\ a + b + c + d \in Nat
                         /\ (a + 1) + b + c + d = (a + b + c + d) + 1
                         /\ a + (b + 1) + c + d = (a + b + c + d) + 1
OBVIOUS

LEMMA CreditTypes ==
  ASSUME TypeOK
  PROVE  /\ \A p \in Pool : cam_credit[p] \in Nat /\ uif_credit[p] \in Nat
         /\ Len(rd_pip_buffer) \in Nat /\ Len(wr_pip_buffer) \in Nat
         /\ ReadCredits \in Nat /\ RdHeld \in Nat /\ WrHeld \in Nat
<1>1. \A p \in Pool : cam_credit[p] \in Nat /\ uif_credit[p] \in Nat
  BY DEF TypeOK
<1>2. Len(rd_pip_buffer) \in Nat /\ Len(wr_pip_buffer) \in Nat
  BY LenProperties DEF TypeOK
<1>3. Cardinality(Used(rd_cam)) \in Nat /\ Cardinality(Used(wr_cam)) \in Nat
  BY CamsFinite
<1>4. RdHeld \in Nat /\ WrHeld \in Nat
  BY <1>2, <1>3 DEF RdHeld, WrHeld
<1>5. ReadCredits \in Nat
  BY <1>1, FourSummands, Zenon DEF ReadCredits, Pool
<1>6. QED
  BY <1>1, <1>2, <1>4, <1>5

-----------------------------------------------------------------------------
(* The initial states *)

THEOREM InitInv == Init => InputInv
<1> SUFFICES ASSUME Init PROVE InputInv
  OBVIOUS
<1>1. /\ RdCamDepth \in Nat \ {0} /\ WrCamDepth \in Nat \ {0}
      /\ HprCredit \in Nat /\ LprCredit \in Nat /\ TpwCredit \in Nat
  BY InputAssumption
<1>2. Used(rd_cam) = {} /\ Used(wr_cam) = {}
  BY DEF Init, Used
<1>3. Cardinality(Used(rd_cam)) = 0 /\ Cardinality(Used(wr_cam)) = 0
  BY <1>2, FS_EmptySet
<1>4. TypeOK
  <2>1. cam_credit \in [Pool -> Nat]
    BY <1>1 DEF Init, Pool
  <2>2. rd_cam \in [RdIndex -> CamEntry] /\ wr_cam \in [WrIndex -> CamEntry]
    BY DEF Init, CamEntry
  <2>3. /\ rd_pip_buffer \in Seq(RdPip) /\ wr_pip_buffer \in Seq(WrPip)
        /\ temp_buffer \in Seq(Requests)
        /\ second_unallocated_wr_cam_index_vec \in Seq(WrIndex)
    BY EmptySeq DEF Init
  <2>4. uif_credit \in [Pool -> Nat]
    BY DEF Init
  <2>5. QED
    BY <2>1, <2>2, <2>3, <2>4 DEF Init, TypeOK
<1>5. OneWaits
  BY DEF Init, OneWaits
<1>6. PipIndices(rd_pip_buffer) = {} /\ PipIndices(wr_pip_buffer) = {} /\ Returned = {}
  BY PipIndicesEmpty DEF Init, Returned
<1>7. RdIndicesConserved
  BY <1>2, <1>6 DEF Init, RdIndicesConserved
<1>8. WrIndicesConserved
  BY <1>2, <1>6 DEF Init, WrIndicesConserved, FreeWr, ReturnedOnce
<1>9. PipNeverOverrun /\ NoFault
  BY DEF Init, PipNeverOverrun, NoFault
<1>10. CreditsBounded
  <2>1. /\ cam_credit["HPR"] = HprCredit /\ cam_credit["LPR"] = LprCredit
        /\ cam_credit["TPW"] = TpwCredit /\ \A p \in Pool : uif_credit[p] = 0
    BY DEF Init, Pool
  <2>2. Len(rd_pip_buffer) = 0 /\ Len(wr_pip_buffer) = 0
    BY DEF Init
  <2>3. QED
    BY <1>1, <1>3, <2>1, <2>2 DEF CreditsBounded, ReadCredits, RdHeld, WrHeld, Pool
<1>11. QED
  BY <1>4, <1>5, <1>7, <1>8, <1>9, <1>10 DEF InputInv

-----------------------------------------------------------------------------
(* CmdSend *)

LEMMA RdCmdSendInv ==
  ASSUME InputInv, NEW i \in RdIndex, RdCmdSend(i)
  PROVE  InputInv' /\ CreditsKept
<1>1. /\ TypeOK /\ OneWaits /\ RdIndicesConserved /\ WrIndicesConserved
      /\ PipNeverOverrun /\ CreditsBounded /\ NoFault
  BY DEF InputInv
<1>2. /\ stage = "send" /\ stage' = "store" /\ rd_cam[i] # NoEntry
      /\ rd_cam' = [rd_cam EXCEPT ![i] = NoEntry]
      /\ cam_credit' = [cam_credit EXCEPT ![rd_cam[i].prio] = @ + 1]
      /\ unallocated_rd_cam_index_set' = unallocated_rd_cam_index_set \union {i}
      /\ UNCHANGED <<pipVars, addr_collision_busy, last_allocated_rd_cam_index, wrIndexVars, wr_cam,
                     uif_credit, fault>>
  BY DEF RdCmdSend, Goto
<1> DEFINE p == rd_cam[i].prio
<1>3. rd_cam[i] \in Request /\ p \in {"HPR", "LPR"}
  BY <1>1, <1>2 DEF TypeOK, CamEntry, Request
<1>4. Used(rd_cam)' = Used(rd_cam) \ {i} /\ i \in Used(rd_cam)
  <2>1. rd_cam \in [RdIndex -> CamEntry]
    BY <1>1 DEF TypeOK
  <2>2. /\ Used([rd_cam EXCEPT ![i] = NoEntry]) = Used(rd_cam) \ {i}
        /\ i \in Used(rd_cam)
    BY <1>2, <2>1, UsedDelete
  <2>3. Used(rd_cam)' = Used([rd_cam EXCEPT ![i] = NoEntry])
    BY <1>2 DEF Used
  <2>4. QED
    BY <2>2, <2>3
<1>5. Cardinality(Used(rd_cam))' = Cardinality(Used(rd_cam)) - 1
  BY <1>1, <1>4, CamsFinite, FS_RemoveElement
<1>6. /\ cam_credit'["TPW"] = cam_credit["TPW"]
      /\ p = "HPR" => cam_credit'["HPR"] = cam_credit["HPR"] + 1 /\ cam_credit'["LPR"] = cam_credit["LPR"]
      /\ p = "LPR" => cam_credit'["LPR"] = cam_credit["LPR"] + 1 /\ cam_credit'["HPR"] = cam_credit["HPR"]
  BY <1>1, <1>2, <1>3 DEF TypeOK, Pool
<1> HIDE DEF p
<1>7. TypeOK'
  <2>1. cam_credit' \in [Pool -> Nat]
    BY <1>1, <1>2, <1>3 DEF TypeOK, Pool, p
  <2>2. rd_cam' \in [RdIndex -> CamEntry]
    BY <1>1, <1>2 DEF TypeOK, CamEntry
  <2>3. QED
    BY <1>1, <1>2, <2>1, <2>2 DEF TypeOK, pipVars, wrIndexVars
<1>8. OneWaits'
  BY <1>1, <1>2 DEF OneWaits, pipVars
<1>9. RdIndicesConserved'
  BY <1>1, <1>2, <1>4 DEF RdIndicesConserved, pipVars, PipIndices
<1>10. WrIndicesConserved'
  BY <1>1, <1>2 DEF WrIndicesConserved, FreeWr, Returned, ReturnedOnce, wrIndexVars, pipVars, Used, PipIndices
<1>11. PipNeverOverrun' /\ NoFault'
  BY <1>1, <1>2 DEF PipNeverOverrun, NoFault, pipVars
<1>12. CreditsBounded' /\ CreditsKept
  <2>1. /\ Len(rd_pip_buffer)' = Len(rd_pip_buffer) /\ Len(wr_pip_buffer)' = Len(wr_pip_buffer)
        /\ Used(wr_cam)' = Used(wr_cam) /\ uif_credit' = uif_credit
    BY <1>2 DEF pipVars, Used
  <2>2. /\ cam_credit["HPR"] \in Nat /\ cam_credit["LPR"] \in Nat
        /\ Cardinality(Used(rd_cam)) \in Nat /\ Len(rd_pip_buffer) \in Nat
        /\ uif_credit["HPR"] \in Nat /\ uif_credit["LPR"] \in Nat
    BY <1>1, CamsFinite, LenProperties DEF TypeOK, Pool
  <2>3. ReadCredits' = ReadCredits + 1
    <3>1. /\ uif_credit'["HPR"] = uif_credit["HPR"] /\ uif_credit'["LPR"] = uif_credit["LPR"]
      BY <2>1
    <3>2. PICK h, l, uh, ul \in Nat : /\ h = cam_credit["HPR"] /\ l = cam_credit["LPR"]
                                     /\ uh = uif_credit["HPR"] /\ ul = uif_credit["LPR"]
      BY <2>2
    <3>3. ReadCredits = h + l + uh + ul
      BY <3>2 DEF ReadCredits
    <3>4. CASE p = "HPR"
      <4>1. ReadCredits' = (h + 1) + l + uh + ul
        BY <1>6, <3>1, <3>2, <3>4 DEF ReadCredits
      <4>2. QED
        BY <3>3, <4>1
    <3>5. CASE p = "LPR"
      <4>1. ReadCredits' = h + (l + 1) + uh + ul
        BY <1>6, <3>1, <3>2, <3>5 DEF ReadCredits
      <4>2. QED
        BY <3>3, <4>1
    <3>6. QED
      BY <1>3, <3>4, <3>5
  <2>4. RdHeld' = RdHeld - 1
    BY <1>5, <2>1, <2>2 DEF RdHeld
  <2>5. ReadCredits \in Nat /\ RdHeld \in Nat
    BY <1>1, CreditTypes
  <2>6. WrHeld' = WrHeld
    BY <2>1 DEF WrHeld
  <2>7. ReadCredits' + RdHeld' = ReadCredits + RdHeld
    BY <2>3, <2>4, <2>5
  <2>8. QED
    BY <1>1, <1>6, <2>1, <2>6, <2>7 DEF CreditsBounded, CreditsKept
<1>13. QED
  BY <1>7, <1>8, <1>9, <1>10, <1>11, <1>12 DEF InputInv

LEMMA WrCmdSendInv ==
  ASSUME InputInv, NEW i \in WrIndex, WrCmdSend(i)
  PROVE  InputInv' /\ CreditsKept
<1>1. /\ TypeOK /\ OneWaits /\ RdIndicesConserved /\ WrIndicesConserved
      /\ PipNeverOverrun /\ CreditsBounded /\ NoFault
  BY DEF InputInv
<1>2. /\ stage = "send" /\ stage' = "store" /\ wr_cam[i] # NoEntry
      /\ wr_cam' = [wr_cam EXCEPT ![i] = NoEntry]
      /\ cam_credit' = [cam_credit EXCEPT !["TPW"] = @ + 1]
      /\ second_unallocated_wr_cam_index_vec' = Append(second_unallocated_wr_cam_index_vec, i)
      /\ UNCHANGED <<pipVars, addr_collision_busy, rdIndexVars, unallocated_wr_cam_index_set, rd_cam,
                     uif_credit, fault>>
  BY DEF WrCmdSend, Goto
<1>3. wr_cam \in [WrIndex -> CamEntry]
  BY <1>1 DEF TypeOK
<1>4. Used(wr_cam)' = Used(wr_cam) \ {i} /\ i \in Used(wr_cam)
  <2>1. /\ Used([wr_cam EXCEPT ![i] = NoEntry]) = Used(wr_cam) \ {i}
        /\ i \in Used(wr_cam)
    BY <1>2, <1>3, UsedDelete
  <2>2. Used(wr_cam)' = Used([wr_cam EXCEPT ![i] = NoEntry])
    BY <1>2 DEF Used
  <2>3. QED
    BY <2>1, <2>2
<1>5. Cardinality(Used(wr_cam))' = Cardinality(Used(wr_cam)) - 1
  BY <1>1, <1>4, CamsFinite, FS_RemoveElement
<1>6. /\ cam_credit'["TPW"] = cam_credit["TPW"] + 1
      /\ cam_credit'["HPR"] = cam_credit["HPR"] /\ cam_credit'["LPR"] = cam_credit["LPR"]
  BY <1>1, <1>2 DEF TypeOK, Pool
<1>7. /\ Returned' = Returned \union {i} /\ ReturnedOnce'
  <2>1. i \notin Returned /\ ReturnedOnce
    BY <1>1, <1>4 DEF WrIndicesConserved, FreeWr
  <2>2. \A k \in DOMAIN second_unallocated_wr_cam_index_vec : second_unallocated_wr_cam_index_vec[k] # i
    BY <2>1 DEF Returned
  <2>3. second_unallocated_wr_cam_index_vec \in Seq(WrIndex)
    BY <1>1 DEF TypeOK
  <2>4. QED
    BY <1>2, <2>1, <2>2, <2>3, ReturnedAppend DEF Returned, ReturnedOnce
<1>8. TypeOK'
  <2>1. cam_credit' \in [Pool -> Nat]
    BY <1>1, <1>2 DEF TypeOK, Pool
  <2>2. wr_cam' \in [WrIndex -> CamEntry]
    BY <1>1, <1>2 DEF TypeOK, CamEntry
  <2>3. second_unallocated_wr_cam_index_vec' \in Seq(WrIndex)
    BY <1>1, <1>2 DEF TypeOK
  <2>4. QED
    BY <1>1, <1>2, <2>1, <2>2, <2>3 DEF TypeOK, pipVars, rdIndexVars
<1>9. OneWaits'
  BY <1>1, <1>2 DEF OneWaits, pipVars
<1>10. RdIndicesConserved'
  BY <1>1, <1>2 DEF RdIndicesConserved, pipVars, rdIndexVars, PipIndices, Used
<1>11. WrIndicesConserved'
  <2>1. PipIndices(wr_pip_buffer)' = PipIndices(wr_pip_buffer)
    BY <1>2 DEF PipIndices, pipVars
  <2>2. QED
    BY <1>1, <1>2, <1>4, <1>7, <2>1 DEF WrIndicesConserved, FreeWr
<1>12. PipNeverOverrun' /\ NoFault'
  BY <1>1, <1>2 DEF PipNeverOverrun, NoFault, pipVars
<1>13. CreditsBounded' /\ CreditsKept
  <2>1. /\ Len(rd_pip_buffer)' = Len(rd_pip_buffer) /\ Len(wr_pip_buffer)' = Len(wr_pip_buffer)
        /\ Used(rd_cam)' = Used(rd_cam) /\ uif_credit' = uif_credit
    BY <1>2 DEF pipVars, Used
  <2>2. /\ cam_credit["TPW"] \in Nat /\ uif_credit["TPW"] \in Nat
        /\ Cardinality(Used(wr_cam)) \in Nat /\ Len(wr_pip_buffer) \in Nat
    BY <1>1, CamsFinite, LenProperties DEF TypeOK, Pool
  <2>3. ReadCredits' = ReadCredits
    BY <1>6, <2>1 DEF ReadCredits
  <2>4. RdHeld' = RdHeld
    BY <2>1 DEF RdHeld
  <2>5. WrHeld' = WrHeld - 1 /\ WrHeld \in Nat
    BY <1>5, <2>1, <2>2 DEF WrHeld
  <2>6. cam_credit'["TPW"] + uif_credit'["TPW"] + WrHeld' = cam_credit["TPW"] + uif_credit["TPW"] + WrHeld
    BY <1>6, <2>1, <2>2, <2>5
  <2>7. QED
    BY <1>1, <2>3, <2>4, <2>6 DEF CreditsBounded, CreditsKept
<1>14. QED
  BY <1>8, <1>9, <1>10, <1>11, <1>12, <1>13 DEF InputInv

(* A step that moves nothing but the stage and the busy flag: no command sent,
   nothing to store, a stall, no request. *)
LEMMA IdleInv ==
  ASSUME InputInv,
         UNCHANGED <<pipVars, rdIndexVars, wrIndexVars, camVars, creditVars, fault>>,
         stage' \in {"send", "store", "port", "credit"}, addr_collision_busy' \in BOOLEAN,
         stage' = "port" => IsPipBufferEmpty \/ addr_collision_busy'
  PROVE  InputInv' /\ CreditsKept
<1>1. /\ TypeOK /\ OneWaits /\ RdIndicesConserved /\ WrIndicesConserved
      /\ PipNeverOverrun /\ CreditsBounded /\ NoFault
  BY DEF InputInv
<1>2. TypeOK'
  BY <1>1 DEF TypeOK, pipVars, rdIndexVars, wrIndexVars, camVars, creditVars
<1>3. OneWaits'
  BY <1>1 DEF OneWaits, pipVars
<1>4. RdIndicesConserved' /\ WrIndicesConserved'
  BY <1>1 DEF RdIndicesConserved, WrIndicesConserved, FreeWr, Returned, ReturnedOnce, PipIndices, Used,
              pipVars, rdIndexVars, wrIndexVars, camVars
<1>5. PipNeverOverrun' /\ NoFault'
  BY <1>1 DEF PipNeverOverrun, NoFault, IsPipBufferEmpty, pipVars
<1>6. CreditsBounded' /\ CreditsKept
  BY <1>1 DEF CreditsBounded, CreditsKept, ReadCredits, RdHeld, WrHeld, Used, pipVars, camVars, creditVars
<1>7. QED
  BY <1>2, <1>3, <1>4, <1>5, <1>6 DEF InputInv

-----------------------------------------------------------------------------
(* CqStore *)

(* The request of a pipe buffer of one place goes to the place of its index. *)
LEMMA StoreFrontOutcome ==
  ASSUME NEW I, NEW cam \in [I -> CamEntry],
         NEW buffer \in Seq([req : Requests, index : I]), Len(buffer) <= 1
  PROVE  /\ StoreFront(cam, buffer) \in [I -> CamEntry]
         /\ Used(StoreFront(cam, buffer)) = Used(cam) \union PipIndices(buffer)
<1>1. CASE buffer = <<>>
  BY <1>1, PipIndicesEmpty DEF StoreFront
<1>2. CASE buffer # <<>>
  <2> DEFINE e == Head(buffer)
  <2>1. e \in [req : Requests, index : I]
    BY <1>2, PipOne
  <2>2. e.index \in I /\ e.req \in Requests /\ e.req \in CamEntry
    BY <2>1, RequestIsNoEntry DEF CamEntry
  <2>3. StoreFront(cam, buffer) = [cam EXCEPT ![e.index] = e.req]
    BY <1>2 DEF StoreFront
  <2>4. PipIndices(buffer) = {e.index}
    BY <1>2, PipIndicesOne
  <2> HIDE DEF e
  <2>5. Used([cam EXCEPT ![e.index] = e.req]) = Used(cam) \union {e.index}
    <3>1. \A i \in I, r \in Requests : Used([cam EXCEPT ![i] = r]) = Used(cam) \union {i}
      BY UsedStore
    <3>2. QED
      BY <2>2, <3>1
  <2>6. QED
    BY <2>2, <2>3, <2>4, <2>5
<1>3. QED
  BY <1>1, <1>2

(* Storing moves what a pipe buffer holds into the CAM: what is held in all
   stays the same. *)
LEMMA HeldByStore ==
  ASSUME NEW I, NEW cam \in [I -> CamEntry], IsFiniteSet(I),
         NEW buffer \in Seq([req : Requests, index : I]), Len(buffer) <= 1,
         PipIndices(buffer) \intersect Used(cam) = {}
  PROVE  Cardinality(Used(StoreFront(cam, buffer))) = Len(buffer) + Cardinality(Used(cam))
<1>1. IsFiniteSet(Used(cam)) /\ Cardinality(Used(cam)) \in Nat
  <2>1. Used(cam) \subseteq I
    BY DEF Used
  <2>2. QED
    BY <2>1, FS_Subset, FS_CardinalityType
<1>2. CASE buffer = <<>>
  BY <1>1, <1>2 DEF StoreFront
<1>3. CASE buffer # <<>>
  <2>1. Len(buffer) = 1 /\ PipIndices(buffer) = {Head(buffer).index}
    BY <1>3, PipOne, PipIndicesOne
  <2>2. Head(buffer).index \notin Used(cam)
    BY <2>1
  <2>3. Used(StoreFront(cam, buffer)) = Used(cam) \union {Head(buffer).index}
    <3>1. Used(StoreFront(cam, buffer)) = Used(cam) \union PipIndices(buffer)
      BY StoreFrontOutcome, Zenon
    <3>2. QED
      BY <2>1, <3>1
  <2>4. Cardinality(Used(cam) \union {Head(buffer).index}) = Cardinality(Used(cam)) + 1
    BY <1>1, <2>2, FS_AddElement
  <2>5. QED
    BY <1>1, <2>1, <2>3, <2>4
<1>4. QED
  BY <1>2, <1>3

LEMMA CqStoreSendInv == InputInv /\ CqStoreSend => InputInv' /\ CreditsKept
<1> SUFFICES ASSUME InputInv, CqStoreSend PROVE InputInv' /\ CreditsKept
  OBVIOUS
<1>1. /\ TypeOK /\ OneWaits /\ RdIndicesConserved /\ WrIndicesConserved
      /\ PipNeverOverrun /\ CreditsBounded /\ NoFault
  BY DEF InputInv
<1>2. /\ stage = "store" /\ stage' = "port" /\ addr_collision_busy' = FALSE
      /\ rd_cam' = StoreFront(rd_cam, rd_pip_buffer) /\ wr_cam' = StoreFront(wr_cam, wr_pip_buffer)
      /\ rd_pip_buffer' = IF rd_pip_buffer = <<>> THEN <<>> ELSE Tail(rd_pip_buffer)
      /\ wr_pip_buffer' = IF wr_pip_buffer = <<>> THEN <<>> ELSE Tail(wr_pip_buffer)
      /\ fault' = IF CamHasRoom THEN "none" ELSE "cam_depth"
      /\ UNCHANGED <<temp_buffer, rdIndexVars, wrIndexVars, creditVars>>
  BY DEF CqStoreSend, SendCmd2Cq, Goto
<1>3. /\ rd_cam \in [RdIndex -> CamEntry] /\ wr_cam \in [WrIndex -> CamEntry]
      /\ rd_pip_buffer \in Seq([req : Requests, index : RdIndex])
      /\ wr_pip_buffer \in Seq([req : Requests, index : WrIndex])
      /\ Len(rd_pip_buffer) <= 1 /\ Len(wr_pip_buffer) <= 1
  BY <1>1 DEF TypeOK, OneWaits, RdPip, WrPip
<1>4. rd_pip_buffer' = <<>> /\ wr_pip_buffer' = <<>>
  BY <1>2, <1>3, PipOne
<1>5. /\ rd_cam' \in [RdIndex -> CamEntry] /\ wr_cam' \in [WrIndex -> CamEntry]
      /\ Used(rd_cam)' = Used(rd_cam) \union PipIndices(rd_pip_buffer)
      /\ Used(wr_cam)' = Used(wr_cam) \union PipIndices(wr_pip_buffer)
  <2>1. /\ Used(rd_cam)' = Used(StoreFront(rd_cam, rd_pip_buffer))
        /\ Used(wr_cam)' = Used(StoreFront(wr_cam, wr_pip_buffer))
    BY <1>2 DEF Used
  <2>2. /\ StoreFront(rd_cam, rd_pip_buffer) \in [RdIndex -> CamEntry]
        /\ Used(StoreFront(rd_cam, rd_pip_buffer)) = Used(rd_cam) \union PipIndices(rd_pip_buffer)
    BY <1>3, StoreFrontOutcome, Zenon
  <2>3. /\ StoreFront(wr_cam, wr_pip_buffer) \in [WrIndex -> CamEntry]
        /\ Used(StoreFront(wr_cam, wr_pip_buffer)) = Used(wr_cam) \union PipIndices(wr_pip_buffer)
    BY <1>3, StoreFrontOutcome, Zenon
  <2>4. QED
    BY <1>2, <2>1, <2>2, <2>3
<1>6. /\ Cardinality(Used(rd_cam))' = RdHeld /\ Cardinality(Used(wr_cam))' = WrHeld
  <2>1. /\ PipIndices(rd_pip_buffer) \intersect Used(rd_cam) = {}
        /\ PipIndices(wr_pip_buffer) \intersect Used(wr_cam) = {}
    BY <1>1 DEF RdIndicesConserved, WrIndicesConserved
  <2>2. /\ Used(rd_cam)' = Used(StoreFront(rd_cam, rd_pip_buffer))
        /\ Used(wr_cam)' = Used(StoreFront(wr_cam, wr_pip_buffer))
    BY <1>2 DEF Used
  <2>3. QED
    BY <1>3, <2>1, <2>2, HeldByStore, IndexFinite DEF RdHeld, WrHeld
<1>7. TypeOK'
  <2>1. rd_pip_buffer' \in Seq(RdPip) /\ wr_pip_buffer' \in Seq(WrPip)
    BY <1>4, EmptySeq
  <2>2. QED
    BY <1>1, <1>2, <1>5, <2>1 DEF TypeOK, rdIndexVars, wrIndexVars, creditVars
<1>8. OneWaits'
  BY <1>4 DEF OneWaits
<1>9. PipIndices(rd_pip_buffer)' = {} /\ PipIndices(wr_pip_buffer)' = {}
  BY <1>4 DEF PipIndices
<1>10. RdIndicesConserved'
  BY <1>1, <1>2, <1>5, <1>9 DEF RdIndicesConserved, rdIndexVars
<1>11. WrIndicesConserved'
  BY <1>1, <1>2, <1>5, <1>9 DEF WrIndicesConserved, FreeWr, Returned, ReturnedOnce, wrIndexVars
<1>12. PipNeverOverrun'
  BY <1>1, <1>2, <1>4 DEF PipNeverOverrun, IsPipBufferEmpty
<1>13. NoFault'
  <2>1. RdHeld <= HprCredit + LprCredit /\ WrHeld <= TpwCredit
    BY <1>1, CreditTypes, InputAssumption DEF CreditsBounded, Pool
  <2>2. RdHeld <= RdCamDepth /\ WrHeld <= WrCamDepth
    BY <1>1, <2>1, CreditTypes, InputAssumption
  <2>3. rd_pip_buffer # <<>> => Len(rd_pip_buffer) = 1
    BY <1>3, PipOne
  <2>4. wr_pip_buffer # <<>> => Len(wr_pip_buffer) = 1
    BY <1>3, PipOne
  <2>5. Cardinality(Used(rd_cam)) \in Nat /\ Cardinality(Used(wr_cam)) \in Nat
    BY <1>1, CamsFinite
  <2>6. CamHasRoom
    BY <2>2, <2>3, <2>4, <2>5, InputAssumption DEF CamHasRoom, RdHeld, WrHeld
  <2>7. QED
    BY <1>2, <2>6 DEF NoFault
<1>14. CreditsBounded' /\ CreditsKept
  <2>1. Len(rd_pip_buffer)' = 0 /\ Len(wr_pip_buffer)' = 0
    BY <1>4
  <2>2. RdHeld' = RdHeld /\ WrHeld' = WrHeld
    BY <1>1, <1>6, <2>1, CreditTypes DEF RdHeld, WrHeld
  <2>3. ReadCredits' = ReadCredits
    BY <1>2 DEF ReadCredits, creditVars
  <2>4. QED
    BY <1>1, <1>2, <2>2, <2>3 DEF CreditsBounded, CreditsKept, creditVars
<1>15. QED
  BY <1>7, <1>8, <1>10, <1>11, <1>12, <1>13, <1>14 DEF InputInv

-----------------------------------------------------------------------------
(* CreditSend *)

LEMMA CreditSendInv == InputInv /\ CreditSend => InputInv' /\ CreditsKept
<1> SUFFICES ASSUME InputInv, CreditSend PROVE InputInv' /\ CreditsKept
  OBVIOUS
<1>1. /\ TypeOK /\ OneWaits /\ RdIndicesConserved /\ WrIndicesConserved
      /\ PipNeverOverrun /\ CreditsBounded /\ NoFault
  BY DEF InputInv
<1>2. /\ stage' = "send"
      /\ cam_credit' = [p \in Pool |-> IF cam_credit[p] > 0 THEN cam_credit[p] - 1 ELSE 0]
      /\ uif_credit' = [p \in Pool |-> IF cam_credit[p] > 0 THEN uif_credit[p] + 1 ELSE uif_credit[p]]
      /\ UNCHANGED <<pipVars, addr_collision_busy, rdIndexVars, wrIndexVars, camVars, fault>>
  BY DEF CreditSend, Goto
<1>3. \A p \in Pool : /\ cam_credit[p] \in Nat /\ uif_credit[p] \in Nat
                      /\ cam_credit'[p] \in Nat /\ uif_credit'[p] \in Nat
                      /\ cam_credit'[p] + uif_credit'[p] = cam_credit[p] + uif_credit[p]
  <2> SUFFICES ASSUME NEW p \in Pool
               PROVE  /\ cam_credit[p] \in Nat /\ uif_credit[p] \in Nat
                      /\ cam_credit'[p] \in Nat /\ uif_credit'[p] \in Nat
                      /\ cam_credit'[p] + uif_credit'[p] = cam_credit[p] + uif_credit[p]
    OBVIOUS
  <2>1. cam_credit[p] \in Nat /\ uif_credit[p] \in Nat
    BY <1>1 DEF TypeOK
  <2>2. /\ cam_credit'[p] = IF cam_credit[p] > 0 THEN cam_credit[p] - 1 ELSE 0
        /\ uif_credit'[p] = IF cam_credit[p] > 0 THEN uif_credit[p] + 1 ELSE uif_credit[p]
    BY <1>2
  <2>3. QED
    BY <2>1, <2>2
<1>4. TypeOK'
  <2>1. cam_credit' \in [Pool -> Nat] /\ uif_credit' \in [Pool -> Nat]
    <3>1. DOMAIN cam_credit' = Pool /\ DOMAIN uif_credit' = Pool
      BY <1>2
    <3>2. /\ cam_credit' = [p \in Pool |-> cam_credit'[p]]
          /\ uif_credit' = [p \in Pool |-> uif_credit'[p]]
      BY <1>2
    <3>3. QED
      BY <1>3, <3>2
  <2>2. QED
    BY <1>1, <1>2, <2>1 DEF TypeOK, pipVars, rdIndexVars, wrIndexVars, camVars
<1>5. OneWaits' /\ PipNeverOverrun' /\ NoFault'
  BY <1>1, <1>2 DEF OneWaits, PipNeverOverrun, NoFault, pipVars
<1>6. RdIndicesConserved' /\ WrIndicesConserved'
  BY <1>1, <1>2 DEF RdIndicesConserved, WrIndicesConserved, FreeWr, Returned, ReturnedOnce, PipIndices, Used,
              pipVars, rdIndexVars, wrIndexVars, camVars
<1>7. CreditsBounded' /\ CreditsKept
  <2>1. RdHeld' = RdHeld /\ WrHeld' = WrHeld
    BY <1>2 DEF RdHeld, WrHeld, Used, pipVars, camVars
  <2>2. PICK h, l, uh, ul \in Nat : /\ h = cam_credit["HPR"] /\ l = cam_credit["LPR"]
                                    /\ uh = uif_credit["HPR"] /\ ul = uif_credit["LPR"]
    BY <1>3 DEF Pool
  <2>3. PICK hh, ll, uhh, ull \in Nat : /\ hh = cam_credit'["HPR"] /\ ll = cam_credit'["LPR"]
                                        /\ uhh = uif_credit'["HPR"] /\ ull = uif_credit'["LPR"]
    BY <1>3 DEF Pool
  <2>4. hh + uhh = h + uh /\ ll + ull = l + ul
    BY <1>3, <2>2, <2>3 DEF Pool
  <2>5. ReadCredits = h + l + uh + ul /\ ReadCredits' = hh + ll + uhh + ull
    BY <2>2, <2>3 DEF ReadCredits
  <2>6. ReadCredits' = ReadCredits
    BY <2>4, <2>5
  <2>7. cam_credit'["TPW"] + uif_credit'["TPW"] = cam_credit["TPW"] + uif_credit["TPW"]
    BY <1>3 DEF Pool
  <2>8. QED
    BY <1>1, <2>1, <2>6, <2>7 DEF CreditsBounded, CreditsKept
<1>8. QED
  BY <1>4, <1>5, <1>6, <1>7 DEF InputInv

-----------------------------------------------------------------------------
(* UIF_REQ *)

(* The port pays a read credit for the read part of a request and a write
   credit for its write part. *)
LEMMA PortPays ==
  ASSUME TypeOK, NEW r \in Requests, PortTakesCredits(r)
  PROVE  /\ uif_credit' \in [Pool -> Nat]
         /\ r.cmd \in {"RD", "RMW"} => ReadCredits \in Nat \ {0} /\ ReadCredits' = ReadCredits - 1
         /\ r.cmd = "WR" => ReadCredits' = ReadCredits
         /\ r.cmd \in {"WR", "RMW"} => /\ uif_credit["TPW"] \in Nat \ {0}
                                       /\ uif_credit'["TPW"] = uif_credit["TPW"] - 1
         /\ r.cmd = "RD" => uif_credit'["TPW"] = uif_credit["TPW"]
<1>1. /\ \A p \in Takes(r) : uif_credit[p] > 0
      /\ uif_credit' = [p \in Pool |-> IF p \in Takes(r) THEN uif_credit[p] - 1 ELSE uif_credit[p]]
      /\ cam_credit' = cam_credit
  BY DEF PortTakesCredits
<1>2. r.cmd \in {"RD", "WR", "RMW"} /\ r.prio \in {"HPR", "LPR"}
  BY RequestIsNoEntry DEF Request
<1>3. /\ r.cmd = "RD" => Takes(r) = {r.prio}
      /\ r.cmd = "WR" => Takes(r) = {"TPW"}
      /\ r.cmd = "RMW" => Takes(r) = {"TPW", "LPR"}
  BY DEF Takes
<1>4. Takes(r) \subseteq Pool
  BY <1>2, <1>3 DEF Pool
<1>5. \A p \in Pool : cam_credit[p] \in Nat /\ uif_credit[p] \in Nat
  BY DEF TypeOK
<1>6. \A p \in Pool : /\ p \in Takes(r) => uif_credit[p] \in Nat \ {0} /\ uif_credit'[p] = uif_credit[p] - 1
                      /\ p \notin Takes(r) => uif_credit'[p] = uif_credit[p]
  BY <1>1, <1>4, <1>5
<1>7. uif_credit' \in [Pool -> Nat]
  <2>1. uif_credit' = [p \in Pool |-> uif_credit'[p]]
    BY <1>1
  <2>2. \A p \in Pool : uif_credit'[p] \in Nat
    BY <1>5, <1>6
  <2>3. QED
    BY <2>1, <2>2
<1>8. PICK h, l, uh, ul \in Nat : /\ h = cam_credit["HPR"] /\ l = cam_credit["LPR"]
                                  /\ uh = uif_credit["HPR"] /\ ul = uif_credit["LPR"]
  BY <1>5 DEF Pool
<1>9. PICK uhh, ull \in Nat : uhh = uif_credit'["HPR"] /\ ull = uif_credit'["LPR"]
  BY <1>7 DEF Pool
<1>10. ReadCredits = h + l + uh + ul /\ ReadCredits' = h + l + uhh + ull
  BY <1>1, <1>8, <1>9 DEF ReadCredits
<1>11. /\ "HPR" \in Takes(r) => uh \in Nat \ {0} /\ uhh = uh - 1
       /\ "HPR" \notin Takes(r) => uhh = uh
       /\ "LPR" \in Takes(r) => ul \in Nat \ {0} /\ ull = ul - 1
       /\ "LPR" \notin Takes(r) => ull = ul
  BY <1>6, <1>8, <1>9 DEF Pool
<1>12. /\ "HPR" \in Takes(r) /\ "LPR" \notin Takes(r) => ReadCredits \in Nat \ {0} /\ ReadCredits' = ReadCredits - 1
       /\ "HPR" \notin Takes(r) /\ "LPR" \in Takes(r) => ReadCredits \in Nat \ {0} /\ ReadCredits' = ReadCredits - 1
       /\ "HPR" \notin Takes(r) /\ "LPR" \notin Takes(r) => ReadCredits' = ReadCredits
  BY <1>10, <1>11
<1>13. /\ r.cmd \in {"RD", "RMW"} => \/ "HPR" \in Takes(r) /\ "LPR" \notin Takes(r)
                                     \/ "HPR" \notin Takes(r) /\ "LPR" \in Takes(r)
       /\ r.cmd = "WR" => "HPR" \notin Takes(r) /\ "LPR" \notin Takes(r)
       /\ r.cmd \in {"WR", "RMW"} => "TPW" \in Takes(r)
       /\ r.cmd = "RD" => "TPW" \notin Takes(r)
  BY <1>2, <1>3
<1>14. "TPW" \in Pool
  BY DEF Pool
<1>15. QED
  BY <1>6, <1>7, <1>12, <1>13, <1>14

(* A paid request finds an index free. *)
LEMMA RdIndexFree ==
  ASSUME InputInv, rd_pip_buffer = <<>>, ReadCredits \in Nat \ {0}
  PROVE  /\ ~NoRdIndex
         /\ NextRdIndex \in unallocated_rd_cam_index_set
<1>1. TypeOK /\ RdIndicesConserved /\ CreditsBounded
  BY DEF InputInv
<1>2. Cardinality(Used(rd_cam)) < RdCamDepth
  <2>1. Len(rd_pip_buffer) = 0
    OBVIOUS
  <2>2. Cardinality(Used(rd_cam)) \in Nat
    BY <1>1, CamsFinite
  <2>3. QED
    BY <1>1, <2>1, <2>2, InputAssumption DEF CreditsBounded, RdHeld
<1>3. Used(rd_cam) # RdIndex
  BY <1>2, IndexFinite, InputAssumption
<1>4. unallocated_rd_cam_index_set # {}
  BY <1>1, <1>3, PipIndicesEmpty DEF RdIndicesConserved
<1> DEFINE free == unallocated_rd_cam_index_set
           up == {i \in free : i >= last_allocated_rd_cam_index}
           from == IF up # {} THEN up ELSE free
<1>5. from \in SUBSET Nat /\ from # {} /\ from \subseteq free
  <2>1. free \subseteq Nat
    BY <1>1, InputAssumption DEF TypeOK, RdIndex
  <2>2. QED
    BY <1>4, <2>1
<1>6. NextRdIndex = Min(from)
  BY DEF NextRdIndex
<1> HIDE DEF from
<1>7. Min(from) \in from
  BY <1>5, MinIsLeast
<1>8. QED
  BY <1>4, <1>5, <1>6, <1>7 DEF NoRdIndex

LEMMA WrIndexFree ==
  ASSUME InputInv, wr_pip_buffer = <<>>, uif_credit["TPW"] \in Nat \ {0}
  PROVE  /\ ~NoWrIndex
         /\ unallocated_wr_cam_index_set # {} => NextWrIndex \in unallocated_wr_cam_index_set
         /\ unallocated_wr_cam_index_set = {} => /\ second_unallocated_wr_cam_index_vec # <<>>
                                                 /\ NextWrIndex = Head(second_unallocated_wr_cam_index_vec)
<1>1. TypeOK /\ WrIndicesConserved /\ CreditsBounded
  BY DEF InputInv
<1>2. Cardinality(Used(wr_cam)) < WrCamDepth
  <2>1. Len(wr_pip_buffer) = 0
    OBVIOUS
  <2>2. Cardinality(Used(wr_cam)) \in Nat /\ cam_credit["TPW"] \in Nat
    BY <1>1, CamsFinite DEF TypeOK, Pool
  <2>3. QED
    BY <1>1, <2>1, <2>2, InputAssumption DEF CreditsBounded, WrHeld
<1>3. Used(wr_cam) # WrIndex
  BY <1>2, IndexFinite, InputAssumption
<1>4. FreeWr # {}
  BY <1>1, <1>3, PipIndicesEmpty DEF WrIndicesConserved
<1>5. second_unallocated_wr_cam_index_vec = <<>> => Returned = {}
  BY DEF Returned
<1>6. ~NoWrIndex
  BY <1>4, <1>5 DEF NoWrIndex, FreeWr
<1>7. unallocated_wr_cam_index_set \in SUBSET Nat
  BY <1>1, InputAssumption DEF TypeOK, WrIndex
<1>8. QED
  BY <1>6, <1>7, MinIsLeast DEF NoWrIndex, NextWrIndex

(* What AcceptRequest does to the read side and to the write side. *)
RdSide(r) ==
  IF r.cmd \in {"RD", "RMW"}
    THEN AllocateRdCamIndex /\ rd_pip_buffer' = Append(rd_pip_buffer, [req |-> r, index |-> NextRdIndex])
    ELSE UNCHANGED <<rdIndexVars, rd_pip_buffer>>
WrSide(r) ==
  IF r.cmd \in {"WR", "RMW"}
    THEN AllocateWrCamIndex /\ wr_pip_buffer' = Append(wr_pip_buffer, [req |-> r, index |-> NextWrIndex])
    ELSE UNCHANGED <<wrIndexVars, wr_pip_buffer>>

RdTypeOK ==
  /\ rd_pip_buffer \in Seq(RdPip) /\ Len(rd_pip_buffer) <= 1
  /\ unallocated_rd_cam_index_set \subseteq RdIndex
  /\ last_allocated_rd_cam_index \in 0 .. RdCamDepth
WrTypeOK ==
  /\ wr_pip_buffer \in Seq(WrPip) /\ Len(wr_pip_buffer) <= 1
  /\ unallocated_wr_cam_index_set \subseteq WrIndex
  /\ second_unallocated_wr_cam_index_vec \in Seq(WrIndex)

LEMMA RdSideInv ==
  ASSUME InputInv, NEW r \in Requests, rd_pip_buffer = <<>>, RdSide(r), rd_cam' = rd_cam,
         r.cmd \in {"RD", "RMW"} => ReadCredits \in Nat \ {0}
  PROVE  /\ RdTypeOK' /\ RdIndicesConserved'
         /\ Len(rd_pip_buffer)' = IF r.cmd \in {"RD", "RMW"} THEN 1 ELSE 0
<1>1. TypeOK /\ RdIndicesConserved
  BY DEF InputInv
<1>2. CASE r.cmd \in {"RD", "RMW"}
  <2> DEFINE i == NextRdIndex
             e == [req |-> r, index |-> i]
  <2>1. i \in unallocated_rd_cam_index_set /\ i \in RdIndex
    BY <1>1, <1>2, RdIndexFree DEF TypeOK
  <2>2. /\ last_allocated_rd_cam_index' = i
        /\ unallocated_rd_cam_index_set' = unallocated_rd_cam_index_set \ {i}
        /\ rd_pip_buffer' = Append(<<>>, e)
    BY <1>2 DEF RdSide, AllocateRdCamIndex
  <2>3. e \in RdPip
    BY <2>1 DEF RdPip
  <2>4. e.index = i
    OBVIOUS
  <2> HIDE DEF e, i
  <2>5. /\ rd_pip_buffer' \in Seq(RdPip) /\ Len(rd_pip_buffer') = 1
    BY <2>2, <2>3, PipAppend
  <2>6. PipIndices(Append(<<>>, e)) = {i}
    BY <2>3, <2>4, PipIndicesAppend
  <2>7. PipIndices(rd_pip_buffer)' = {i} /\ PipIndices(rd_pip_buffer) = {} /\ Used(rd_cam)' = Used(rd_cam)
    BY <2>2, <2>6, PipIndicesEmpty DEF PipIndices, Used
  <2>8. RdTypeOK'
    <3>1. i \in 0 .. RdCamDepth
      BY <2>1, InputAssumption DEF RdIndex
    <3>2. QED
      BY <1>1, <2>2, <2>5, <3>1 DEF RdTypeOK, TypeOK
  <2>9. RdIndicesConserved'
    BY <1>1, <2>1, <2>2, <2>7 DEF RdIndicesConserved
  <2>10. QED
    BY <1>2, <2>5, <2>8, <2>9
<1>3. CASE r.cmd \notin {"RD", "RMW"}
  <2>1. UNCHANGED <<rdIndexVars, rd_pip_buffer>>
    BY <1>3 DEF RdSide
  <2>2. RdIndicesConserved'
    BY <1>1, <2>1 DEF RdIndicesConserved, rdIndexVars, PipIndices, Used
  <2>3. QED
    BY <1>1, <1>3, <2>1, <2>2 DEF RdTypeOK, TypeOK, rdIndexVars
<1>4. QED
  BY <1>2, <1>3

LEMMA WrSideInv ==
  ASSUME InputInv, NEW r \in Requests, wr_pip_buffer = <<>>, WrSide(r), wr_cam' = wr_cam,
         r.cmd \in {"WR", "RMW"} => uif_credit["TPW"] \in Nat \ {0}
  PROVE  /\ WrTypeOK' /\ WrIndicesConserved'
         /\ Len(wr_pip_buffer)' = IF r.cmd \in {"WR", "RMW"} THEN 1 ELSE 0
<1>1. TypeOK /\ WrIndicesConserved
  BY DEF InputInv
<1>2. CASE r.cmd \in {"WR", "RMW"}
  <2> DEFINE i == NextWrIndex
             e == [req |-> r, index |-> i]
  <2>1. /\ unallocated_wr_cam_index_set # {} => i \in unallocated_wr_cam_index_set
        /\ unallocated_wr_cam_index_set = {} => /\ second_unallocated_wr_cam_index_vec # <<>>
                                                /\ i = Head(second_unallocated_wr_cam_index_vec)
    BY <1>2, WrIndexFree
  <2>2. /\ unallocated_wr_cam_index_set' = unallocated_wr_cam_index_set \ {i}
        /\ second_unallocated_wr_cam_index_vec' =
             IF unallocated_wr_cam_index_set # {} THEN second_unallocated_wr_cam_index_vec
             ELSE Tail(second_unallocated_wr_cam_index_vec)
        /\ wr_pip_buffer' = Append(<<>>, e)
    BY <1>2 DEF WrSide, AllocateWrCamIndex
  <2>3. second_unallocated_wr_cam_index_vec \in Seq(WrIndex) /\ ReturnedOnce
        /\ unallocated_wr_cam_index_set \intersect Returned = {}
    BY <1>1 DEF TypeOK, WrIndicesConserved
  <2> HIDE DEF i
  <2>4. /\ i \in FreeWr /\ FreeWr' = FreeWr \ {i}
        /\ unallocated_wr_cam_index_set' \intersect Returned' = {}
        /\ ReturnedOnce' /\ second_unallocated_wr_cam_index_vec' \in Seq(WrIndex)
    <3>1. CASE unallocated_wr_cam_index_set # {}
      BY <2>1, <2>2, <2>3, <3>1 DEF FreeWr, Returned, ReturnedOnce
    <3>2. CASE unallocated_wr_cam_index_set = {}
      <4>1. /\ {Tail(second_unallocated_wr_cam_index_vec)[k] : k \in DOMAIN Tail(second_unallocated_wr_cam_index_vec)}
                 = Returned \ {i}
            /\ i \in Returned
            /\ \A m, n \in DOMAIN Tail(second_unallocated_wr_cam_index_vec) :
                 m # n => Tail(second_unallocated_wr_cam_index_vec)[m] # Tail(second_unallocated_wr_cam_index_vec)[n]
        BY <2>1, <2>3, <3>2, ReturnedTail DEF Returned, ReturnedOnce
      <4>2. second_unallocated_wr_cam_index_vec' = Tail(second_unallocated_wr_cam_index_vec)
        BY <2>2, <3>2
      <4>3. Returned' = Returned \ {i} /\ i \in Returned /\ ReturnedOnce'
        BY <4>1, <4>2 DEF Returned, ReturnedOnce
      <4>4. second_unallocated_wr_cam_index_vec' \in Seq(WrIndex)
        BY <2>1, <2>3, <3>2, <4>2, HeadTailProperties
      <4>5. QED
        BY <2>2, <3>2, <4>3, <4>4 DEF FreeWr
    <3>3. QED
      BY <3>1, <3>2
  <2>5. i \in WrIndex
    BY <1>1, <2>4 DEF WrIndicesConserved
  <2>6. e \in WrPip /\ e.index = i
    BY <2>5 DEF WrPip
  <2> HIDE DEF e
  <2>7. wr_pip_buffer' \in Seq(WrPip) /\ Len(wr_pip_buffer') = 1
    BY <2>2, <2>6, PipAppend
  <2>8. PipIndices(Append(<<>>, e)) = {i}
    BY <2>6, PipIndicesAppend
  <2>9. PipIndices(wr_pip_buffer)' = {i} /\ PipIndices(wr_pip_buffer) = {} /\ Used(wr_cam)' = Used(wr_cam)
    BY <2>2, <2>8, PipIndicesEmpty DEF PipIndices, Used
  <2>10. WrTypeOK'
    BY <1>1, <2>2, <2>4, <2>7 DEF WrTypeOK, TypeOK
  <2>11. WrIndicesConserved'
    BY <1>1, <2>4, <2>9 DEF WrIndicesConserved
  <2>12. QED
    BY <1>2, <2>7, <2>10, <2>11
<1>3. CASE r.cmd \notin {"WR", "RMW"}
  <2>1. UNCHANGED <<wrIndexVars, wr_pip_buffer>>
    BY <1>3 DEF WrSide
  <2>2. WrIndicesConserved'
    BY <1>1, <2>1 DEF WrIndicesConserved, FreeWr, Returned, ReturnedOnce, wrIndexVars, PipIndices, Used
  <2>3. QED
    BY <1>1, <1>3, <2>1, <2>2 DEF WrTypeOK, TypeOK, wrIndexVars
<1>4. QED
  BY <1>2, <1>3

(* A refused request costs the port its credits and changes nothing else. *)
LEMMA UifReqRefused ==
  ASSUME InputInv, NEW r \in Requests, UifReq(r), Refused(r)
  PROVE  InputInv'
<1>1. /\ TypeOK /\ OneWaits /\ RdIndicesConserved /\ WrIndicesConserved
      /\ PipNeverOverrun /\ CreditsBounded /\ NoFault
  BY DEF InputInv
<1>2. /\ stage' = "credit" /\ PortTakesCredits(r) /\ cam_credit' = cam_credit
      /\ UNCHANGED <<pipVars, rdIndexVars, wrIndexVars, fault, addr_collision_busy, camVars>>
  BY DEF UifReq, Goto, PortTakesCredits
<1>3. r.cmd \in {"RD", "WR", "RMW"}
  BY RequestIsNoEntry DEF Request
<1>4. TypeOK'
  BY <1>1, <1>2, PortPays DEF TypeOK, pipVars, rdIndexVars, wrIndexVars, camVars
<1>5. OneWaits' /\ PipNeverOverrun' /\ NoFault'
  BY <1>1, <1>2 DEF OneWaits, PipNeverOverrun, NoFault, pipVars
<1>6. RdIndicesConserved' /\ WrIndicesConserved'
  BY <1>1, <1>2 DEF RdIndicesConserved, WrIndicesConserved, FreeWr, Returned, ReturnedOnce, PipIndices, Used,
              pipVars, rdIndexVars, wrIndexVars, camVars
<1>7. CreditsBounded'
  <2>1. RdHeld' = RdHeld /\ WrHeld' = WrHeld
    BY <1>2 DEF RdHeld, WrHeld, Used, pipVars, camVars
  <2>2. ReadCredits' <= ReadCredits /\ ReadCredits' \in Nat
    <3>1. ReadCredits \in Nat
      BY <1>1, CreditTypes
    <3>2. \/ ReadCredits' = ReadCredits
          \/ ReadCredits \in Nat \ {0} /\ ReadCredits' = ReadCredits - 1
      BY <1>1, <1>2, <1>3, PortPays
    <3>3. QED
      BY <3>1, <3>2
  <2>3. uif_credit'["TPW"] <= uif_credit["TPW"] /\ uif_credit["TPW"] \in Nat /\ uif_credit'["TPW"] \in Nat
    <3>1. uif_credit["TPW"] \in Nat
      BY <1>1 DEF TypeOK, Pool
    <3>2. \/ uif_credit'["TPW"] = uif_credit["TPW"]
          \/ uif_credit["TPW"] \in Nat \ {0} /\ uif_credit'["TPW"] = uif_credit["TPW"] - 1
      BY <1>1, <1>2, <1>3, PortPays
    <3>3. QED
      BY <3>1, <3>2
  <2>4. /\ ReadCredits \in Nat /\ RdHeld \in Nat /\ WrHeld \in Nat
        /\ cam_credit["TPW"] \in Nat
    BY <1>1, CreditTypes DEF Pool
  <2>5. ReadCredits' + RdHeld' <= HprCredit + LprCredit
    <3>1. ReadCredits + RdHeld <= HprCredit + LprCredit
      BY <1>1 DEF CreditsBounded
    <3>2. HprCredit + LprCredit \in Nat
      BY InputAssumption
    <3>3. RdHeld' = RdHeld
      BY <2>1
    <3>4. PICK now, later, held, limit \in Nat :
               now = ReadCredits /\ later = ReadCredits' /\ held = RdHeld /\ limit = HprCredit + LprCredit
      BY <2>2, <2>4, <3>2
    <3>5. later <= now /\ now + held <= limit
      BY <2>2, <3>1, <3>4
    <3>6. later + held <= limit
      BY <3>5
    <3>7. QED
      BY <3>3, <3>4, <3>6
  <2>6. cam_credit'["TPW"] + uif_credit'["TPW"] + WrHeld' <= TpwCredit
    BY <1>1, <1>2, <2>1, <2>3, <2>4, InputAssumption DEF CreditsBounded
  <2>7. QED
    BY <2>5, <2>6 DEF CreditsBounded
<1>8. QED
  BY <1>4, <1>5, <1>6, <1>7 DEF InputInv

(* An accepted request gets an index and waits alone. *)
LEMMA UifReqAccepted ==
  ASSUME InputInv, NEW r \in Requests, UifReq(r), ~Refused(r)
  PROVE  InputInv' /\ CreditsKept
<1>1. /\ TypeOK /\ OneWaits /\ RdIndicesConserved /\ WrIndicesConserved
      /\ PipNeverOverrun /\ CreditsBounded /\ NoFault
  BY DEF InputInv
<1>2. /\ stage = "port" /\ stage' = "credit" /\ PortTakesCredits(r) /\ cam_credit' = cam_credit
      /\ AcceptRequest(r) /\ UNCHANGED <<addr_collision_busy, camVars>>
      /\ ~addr_collision_busy
  BY DEF UifReq, Goto, PortTakesCredits, Refused
<1>3. r.cmd \in {"RD", "WR", "RMW"}
  BY RequestIsNoEntry DEF Request
<1>4. temp_buffer = <<>> /\ rd_pip_buffer = <<>> /\ wr_pip_buffer = <<>>
  BY <1>1, <1>2 DEF PipNeverOverrun, IsPipBufferEmpty
<1>5. /\ r.cmd \in {"RD", "RMW"} => ReadCredits \in Nat \ {0} /\ ReadCredits' = ReadCredits - 1
      /\ r.cmd = "WR" => ReadCredits' = ReadCredits
      /\ r.cmd \in {"WR", "RMW"} => /\ uif_credit["TPW"] \in Nat \ {0}
                                    /\ uif_credit'["TPW"] = uif_credit["TPW"] - 1
      /\ r.cmd = "RD" => uif_credit'["TPW"] = uif_credit["TPW"]
      /\ uif_credit' \in [Pool -> Nat]
  BY <1>1, <1>2, PortPays
<1>6. /\ r.cmd \in {"RD", "RMW"} => ~NoRdIndex
      /\ r.cmd \in {"WR", "RMW"} => ~NoWrIndex
  BY <1>4, <1>5, RdIndexFree, WrIndexFree
<1>7. RdSide(r) /\ WrSide(r) /\ temp_buffer' = temp_buffer /\ fault' = fault
  BY <1>2, <1>4, <1>6 DEF AcceptRequest, IsPipBufferEmpty, EnterPip, RdSide, WrSide
<1>8. rd_cam' = rd_cam /\ wr_cam' = wr_cam
  BY <1>2 DEF camVars
<1>9. /\ RdTypeOK' /\ RdIndicesConserved'
      /\ Len(rd_pip_buffer)' = IF r.cmd \in {"RD", "RMW"} THEN 1 ELSE 0
  BY <1>4, <1>5, <1>7, <1>8, RdSideInv
<1>10. /\ WrTypeOK' /\ WrIndicesConserved'
       /\ Len(wr_pip_buffer)' = IF r.cmd \in {"WR", "RMW"} THEN 1 ELSE 0
  BY <1>4, <1>5, <1>7, <1>8, WrSideInv
<1>11. TypeOK'
  BY <1>1, <1>2, <1>5, <1>7, <1>8, <1>9, <1>10 DEF TypeOK, RdTypeOK, WrTypeOK
<1>12. OneWaits'
  BY <1>9, <1>10 DEF RdTypeOK, WrTypeOK, OneWaits
<1>13. PipNeverOverrun' /\ NoFault'
  BY <1>1, <1>2, <1>4, <1>7 DEF PipNeverOverrun, NoFault
<1>14. CreditsBounded' /\ CreditsKept
  <2>1. /\ ReadCredits \in Nat /\ cam_credit["TPW"] \in Nat /\ uif_credit["TPW"] \in Nat
        /\ Cardinality(Used(rd_cam)) \in Nat /\ Cardinality(Used(wr_cam)) \in Nat
    BY <1>1, CreditTypes, CamsFinite DEF Pool
  <2>2. Len(rd_pip_buffer) = 0 /\ Len(wr_pip_buffer) = 0
    BY <1>4
  <2>3. /\ Cardinality(Used(rd_cam))' = Cardinality(Used(rd_cam))
        /\ Cardinality(Used(wr_cam))' = Cardinality(Used(wr_cam))
    BY <1>8 DEF Used
  <2>4. /\ RdHeld = Cardinality(Used(rd_cam)) /\ WrHeld = Cardinality(Used(wr_cam))
        /\ RdHeld' = (IF r.cmd \in {"RD", "RMW"} THEN 1 ELSE 0) + Cardinality(Used(rd_cam))
        /\ WrHeld' = (IF r.cmd \in {"WR", "RMW"} THEN 1 ELSE 0) + Cardinality(Used(wr_cam))
    BY <1>9, <1>10, <2>1, <2>2, <2>3 DEF RdHeld, WrHeld
  <2>5. ReadCredits' + RdHeld' = ReadCredits + RdHeld
    BY <1>3, <1>5, <2>1, <2>4
  <2>6. cam_credit'["TPW"] + uif_credit'["TPW"] + WrHeld' = cam_credit["TPW"] + uif_credit["TPW"] + WrHeld
    BY <1>2, <1>3, <1>5, <2>1, <2>4
  <2>7. QED
    BY <1>1, <2>5, <2>6 DEF CreditsBounded, CreditsKept
<1>15. QED
  BY <1>9, <1>10, <1>11, <1>12, <1>13, <1>14 DEF InputInv

-----------------------------------------------------------------------------
(* The theorems *)

(* A step that refuses no request keeps the credits. *)
LEMMA StepKeepsCredits ==
  InputInv /\ [Next]_vars /\ (\A r \in Requests : UifReq(r) => ~Refused(r)) => InputInv' /\ CreditsKept
<1> SUFFICES ASSUME InputInv, [Next]_vars, \A r \in Requests : UifReq(r) => ~Refused(r)
             PROVE  InputInv' /\ CreditsKept
  OBVIOUS
<1>1. TypeOK /\ PipNeverOverrun
  BY DEF InputInv
<1>2. ASSUME NEW i \in RdIndex, RdCmdSend(i) PROVE InputInv' /\ CreditsKept
  BY <1>2, RdCmdSendInv
<1>3. ASSUME NEW i \in WrIndex, WrCmdSend(i) PROVE InputInv' /\ CreditsKept
  BY <1>3, WrCmdSendInv
<1>4. CASE NoCmdSend
  BY <1>1, <1>4, IdleInv DEF NoCmdSend, Goto, TypeOK
<1>5. CASE CqStoreEmpty
  BY <1>1, <1>5, IdleInv DEF CqStoreEmpty, Goto, TypeOK
<1>6. CASE CqStoreSend
  BY <1>6, CqStoreSendInv
<1>7. CASE CqStoreStall
  BY <1>7, IdleInv DEF CqStoreStall, Goto
<1>8. ASSUME NEW r \in Requests, UifReq(r) PROVE InputInv' /\ CreditsKept
  BY <1>8, UifReqAccepted
<1>9. CASE NoUifReq
  BY <1>1, <1>9, IdleInv DEF NoUifReq, Goto, TypeOK
<1>10. CASE CreditSend
  BY <1>10, CreditSendInv
<1>11. CASE UNCHANGED vars
  BY <1>1, <1>11, IdleInv DEF vars, TypeOK, PipNeverOverrun
<1>12. QED
  BY <1>2, <1>3, <1>4, <1>5, <1>6, <1>7, <1>8, <1>9, <1>10, <1>11 DEF Next, CqStore

(* Every step preserves the invariant. *)
THEOREM InputNextInv == InputInv /\ [Next]_vars => InputInv'
<1>1. ASSUME NEW r \in Requests, InputInv, UifReq(r), Refused(r) PROVE InputInv'
  BY <1>1, UifReqRefused
<1>2. QED
  BY <1>1, StepKeepsCredits

THEOREM InputInvariant == Spec => []InputInv
<1>1. Init => InputInv
  BY InitInv
<1>2. InputInv /\ [Next]_vars => InputInv'
  BY InputNextInv
<1>3. QED
  BY <1>1, <1>2, PTL DEF Spec

(* The index pools, the pipe buffers and the CAMs always have their types. *)
THEOREM InputTypeCorrect == Spec => []TypeOK
<1>1. InputInv => TypeOK
  BY DEF InputInv
<1>2. QED
  BY <1>1, InputInvariant, PTL

(* No CAM index is lost or given out twice. *)
THEOREM IndicesAlwaysConserved == Spec => []IndicesConserved
<1>1. InputInv => IndicesConserved
  BY DEF InputInv, IndicesConserved
<1>2. QED
  BY <1>1, InputInvariant, PTL

(* The temp buffer is never used. *)
THEOREM PipIsNeverOverrun == Spec => []PipNeverOverrun
<1>1. InputInv => PipNeverOverrun
  BY DEF InputInv
<1>2. QED
  BY <1>1, InputInvariant, PTL

(* Credits are never made from nothing. *)
THEOREM CreditsAlwaysBounded == Spec => []CreditsBounded
<1>1. InputInv => CreditsBounded
  BY DEF InputInv
<1>2. QED
  BY <1>1, InputInvariant, PTL

(* The only way to lose a credit is a refusal: as long as no request is refused,
   every credit is with the port, in the controller, or held by a request. *)
THEOREM OnlyRefusalLosesCredits ==
  Spec /\ [][\A r \in Requests : UifReq(r) => ~Refused(r)]_vars => []CreditsConserved
<1> DEFINE NoneRefused == \A r \in Requests : UifReq(r) => ~Refused(r)
<1>1. Init => CreditsConserved
  <2> SUFFICES ASSUME Init PROVE CreditsConserved
    OBVIOUS
  <2>1. HprCredit \in Nat /\ LprCredit \in Nat /\ TpwCredit \in Nat
    BY InputAssumption
  <2>2. /\ cam_credit["HPR"] = HprCredit /\ cam_credit["LPR"] = LprCredit
        /\ cam_credit["TPW"] = TpwCredit /\ \A p \in Pool : uif_credit[p] = 0
    BY DEF Init, Pool
  <2>3. Len(rd_pip_buffer) = 0 /\ Len(wr_pip_buffer) = 0
    BY DEF Init
  <2>4. Used(rd_cam) = {} /\ Used(wr_cam) = {}
    BY DEF Init, Used
  <2>5. Cardinality(Used(rd_cam)) = 0 /\ Cardinality(Used(wr_cam)) = 0
    BY <2>4, FS_EmptySet
  <2>6. QED
    BY <2>1, <2>2, <2>3, <2>5 DEF CreditsConserved, ReadCredits, RdHeld, WrHeld, Pool
<1>2. InputInv /\ CreditsConserved /\ [Next]_vars /\ [NoneRefused]_vars => CreditsConserved'
  <2> SUFFICES ASSUME InputInv, CreditsConserved, [Next]_vars, [NoneRefused]_vars
               PROVE  CreditsConserved'
    OBVIOUS
  <2>1. CASE NoneRefused
    BY <2>1, StepKeepsCredits DEF CreditsConserved, CreditsKept
  <2>2. CASE UNCHANGED vars
    BY <2>2 DEF CreditsConserved, ReadCredits, RdHeld, WrHeld, Used, vars, pipVars, camVars, creditVars
  <2>3. QED
    BY <2>1, <2>2
<1> HIDE DEF NoneRefused
<1>3. Spec /\ [][NoneRefused]_vars => []CreditsConserved
  BY <1>1, <1>2, InputInvariant, PTL DEF Spec
<1>4. QED
  BY <1>3 DEF NoneRefused

(* No assertion of the index pools and the CAMs fails. *)
THEOREM InputNeverFaults == Spec => []NoFault
<1>1. InputInv => NoFault
  BY DEF InputInv
<1>2. QED
  BY <1>1, InputInvariant, PTL

(* When the numbers of bankgroup and bank agree in every address, so that the
   comparison of addresses is right, no read and no read-modify-write passes a
   stored command it conflicts with. *)
LEMMA StoreStepHazardFree ==
  ASSUME \A a \in Addr : a.bank = a.bg,
         InputInv, CqStoreSend, rd_pip_buffer # <<>>
  PROVE  ~Conflicting(Head(rd_pip_buffer).req)
<1> DEFINE d == Head(rd_pip_buffer).req
<1>1. /\ rd_pip_buffer \in Seq(RdPip) /\ Len(rd_pip_buffer) <= 1
      /\ rd_cam \in [RdIndex -> CamEntry] /\ wr_cam \in [WrIndex -> CamEntry]
  BY DEF InputInv, TypeOK, OneWaits
<1>2. d \in Requests /\ d \in Request
  <2>1. Head(rd_pip_buffer) \in RdPip
    BY <1>1, PipOne
  <2>2. QED
    BY <2>1, RequestIsNoEntry DEF RdPip
<1>3. d.cmd # "Invalid"
  BY <1>2 DEF Request
<1>4. /\ \A i \in Used(rd_cam) : rd_cam[i] \in Request
      /\ \A i \in Used(wr_cam) : wr_cam[i] \in Request
  BY <1>1 DEF Used, CamEntry
<1>5. CASE Used(rd_cam) = {} /\ Used(wr_cam) = {}
  BY <1>5 DEF Conflicting
<1>6. CASE \E x \in Detected : ~DetectAddrCollision(x)
  <2>1. ~DetectAddrCollision(d)
    BY <1>6 DEF Detected
  <2> HIDE DEF d
  <2>2. /\ \A i \in Used(rd_cam) : ~(AddressEqual(rd_cam[i].addr, d.addr) /\ ~(d.cmd = "RD" /\ rd_cam[i].cmd = "RD"))
        /\ \A i \in Used(wr_cam) : ~AddressEqual(wr_cam[i].addr, d.addr)
    BY <1>3, <2>1 DEF DetectAddrCollision
  <2>3. \A a \in Addr : AddressEqual(a, a)
    BY DEF AddressEqual
  <2>4. d.addr \in Addr
    BY <1>2 DEF Request
  <2>5. ~Conflicting(d)
    BY <2>2, <2>3, <2>4 DEF Conflicting, Conflict
  <2>6. QED
    BY <2>5 DEF d
<1>7. QED
  BY <1>5, <1>6 DEF CqStoreSend

THEOREM ReadsEnterHazardFree ==
  ASSUME \A a \in Addr : a.bank = a.bg
  PROVE  Spec => HazardFreeStore
<1> DEFINE Ok == \A r \in {rd_pip_buffer[k].req : k \in DOMAIN rd_pip_buffer} :
                   rd_pip_buffer' = <<>> => ~Conflicting(r)
<1>1. InputInv /\ [Next]_vars => Ok
  <2> SUFFICES ASSUME InputInv, [Next]_vars, rd_pip_buffer' = <<>>,
                      NEW k \in DOMAIN rd_pip_buffer
               PROVE  ~Conflicting(rd_pip_buffer[k].req)
    OBVIOUS
  <2>1. rd_pip_buffer \in Seq(RdPip) /\ Len(rd_pip_buffer) <= 1 /\ rd_pip_buffer # <<>>
    BY DEF InputInv, TypeOK, OneWaits
  <2>2. rd_pip_buffer[k] = Head(rd_pip_buffer)
    BY <2>1, PipOne
  <2>3. CqStoreSend
    <3>1. ASSUME NEW r \in Requests, UifReq(r) PROVE rd_pip_buffer' = rd_pip_buffer
      BY <2>1, <3>1 DEF UifReq, AcceptRequest, IsPipBufferEmpty, pipVars
    <3>2. rd_pip_buffer' # rd_pip_buffer
      BY <2>1
    <3>3. QED
      BY <3>1, <3>2 DEF Next, RdCmdSend, WrCmdSend, NoCmdSend, CqStore, CqStoreEmpty, CqStoreStall,
                        NoUifReq, CreditSend, vars, pipVars
  <2>4. QED
    BY <2>1, <2>2, <2>3, StoreStepHazardFree
<1>2. QED
  BY <1>1, InputInvariant, PTL DEF Spec, HazardFreeStore
=============================================================================
