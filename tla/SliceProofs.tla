---------------------------- MODULE SliceProofs ----------------------------
(* The tables of the controller, for every choice of its constants: the CAMs, *)
(* the bank slices with their candidates, the updates recorded for the next   *)
(* run and the marks of the stored commands.                                  *)
EXTENDS ControllerProofs, NatLemmas, FiniteSetTheorems, SequenceTheorems

-----------------------------------------------------------------------------
(* The inductive invariant *)

(* The order list names every stored command once, and a command that was found
   in the way carries the mark by which its deletion clears it. *)
CamInv(cam, E) ==
  /\ DOMAIN cam = {"store", "order", "collision"}
  /\ cam.store \in [CamIndex -> E \union {NoEntry}]
  /\ cam.order \in Seq(CamIndex)
  /\ \A n, m \in DOMAIN cam.order : cam.order[n] = cam.order[m] => n = m
  /\ \A i \in CamIndex : cam.store[i] # NoEntry <=> \E n \in DOMAIN cam.order : cam.order[n] = i
  /\ \A i \in cam.collision : i \in Used(cam) /\ cam.store[i].coll

(* A bank and its slice know each other. *)
Tables(sl, tbl) ==
  /\ sl \in [Bsc -> Slice] /\ tbl \in [Bank -> Bsc \union {NoBsc}]
  /\ \A b \in Bank : tbl[b] # NoBsc => sl[tbl[b]].ba = b
  /\ \A x \in Bsc : sl[x].ba # NoBank => tbl[sl[x].ba] = x

(* The marks of an entry fit its bank's slice. *)
MarkOK(e, sl, tbl) ==
  /\ e.alloc <=> tbl[e.ba] # NoBsc
  /\ tbl[e.ba] # NoBsc /\ sl[tbl[e.ba]].page # Closed => (e.hit <=> e.row = sl[tbl[e.ba]].page)

Marks(cam, sl, tbl) == \A i \in Used(cam) : MarkOK(cam.store[i], sl, tbl)

Candidates(sl, rd, wr) ==
  \A x \in Bsc : sl[x].ba # NoBank =>
    /\ sl[x].rd # NoEntry => sl[x].rd \in BaOrderList(rd, sl[x].ba)
    /\ sl[x].wr # NoEntry => sl[x].wr \in BaOrderList(wr, sl[x].ba)

(* The cam an update was recorded for. *)
CamOfUpdate(u, rd, wr) == IF u.is_rd THEN rd ELSE wr

(* Between two runs a recorded update names a command that is stored. *)
Updates(batch, sl, rd, wr) ==
  \A u \in batch :
    /\ u.bsc \in Bsc /\ sl[u.bsc].ba # NoBank
    /\ u.is_rd \in BOOLEAN /\ u.index \in BaOrderList(CamOfUpdate(u, rd, wr), sl[u.bsc].ba)

TablesInv(sl, tbl, rd, wr, batch) ==
  /\ CamInv(rd, RdEntry) /\ CamInv(wr, WrEntry)
  /\ Tables(sl, tbl)
  /\ Marks(rd, sl, tbl) /\ Marks(wr, sl, tbl)
  /\ Candidates(sl, rd, wr)
  /\ Updates(batch, sl, rd, wr)

(* The request in the pipe buffers holds free indices. *)
PipFree(p, rd, wr) ==
  p # NoPip =>
    /\ p.req \in Requests
    /\ p.rd \in IF p.req.cmd = "WR" THEN {NoEntry} ELSE Free(rd)
    /\ p.wr \in IF p.req.cmd = "RD" THEN {NoEntry} ELSE Free(wr)
PipInv == PipFree(pip, rd_cam, wr_cam)

(* A refresh that is about to be sent is due and its banks are closed. *)
RefreshInv ==
  /\ refresh \in [pending : 0 .. MaxPending, is_critical : BOOLEAN, sent : BOOLEAN,
                  refsb_ba : 0 .. NumOfBanksPerBg - 1, next : {"NOP", "REFab", "REFsb"}]
  /\ stage = "send" /\ refresh.next # "NOP" =>
       /\ refresh.pending > 0
       /\ refresh.next = IF REFAB_ENABLE THEN "REFab" ELSE "REFsb"
       /\ IsAllBanksClosed(slices, refresh.refsb_ba)

SliceInv ==
  /\ TablesInv(slices, ba2bsc, rd_cam, wr_cam, ntt)
  /\ PipInv
  /\ RefreshInv
  /\ ModeInv
  /\ wr_cam_expired \in BOOLEAN /\ critical \subseteq CriticalClasses
  /\ stage \in {"idle", "send", "store"}

-----------------------------------------------------------------------------
(* The command CAMs *)

LEMMA EntryUpdate ==
  ASSUME NEW E \in {RdEntry, WrEntry}, NEW e \in E
  PROVE  /\ e # NoEntry
         /\ e.hit \in BOOLEAN /\ e.alloc \in BOOLEAN /\ e.coll \in BOOLEAN /\ e.wait \in Nat
         /\ e.ba \in Bank /\ e.row \in Row
         /\ DOMAIN e = {"cmd", "ba", "row", "col", "prio", "hit", "alloc", "coll", "wait"}
         /\ \A h \in BOOLEAN : [e EXCEPT !.hit = h] \in E
         /\ \A h, a \in BOOLEAN : [e EXCEPT !.hit = h, !.alloc = a] \in E
         /\ \A c \in BOOLEAN : [e EXCEPT !.coll = c] \in E
         /\ \A w \in Nat : [e EXCEPT !.wait = w] \in E
<1>1. NoEntry \notin E
  BY NoEntryAssumption
<1>2. CASE E = RdEntry
  BY <1>1, <1>2 DEF RdEntry, Entry
<1>3. CASE E = WrEntry
  BY <1>1, <1>3 DEF WrEntry, Entry
<1>4. QED
  BY <1>2, <1>3

LEMMA EmptyCamInv == \A E : CamInv(EmptyCam, E) /\ Used(EmptyCam) = {}
<1>1. TAKE E
<1>2. <<>> \in Seq(CamIndex) /\ DOMAIN <<>> = {}
  BY EmptySeq
<1>3. QED
  BY <1>2 DEF EmptyCam, CamInv, Used

LEMMA StoreRequestCam ==
  ASSUME NEW E \in {RdEntry, WrEntry}, NEW cam, CamInv(cam, E),
         NEW i \in CamIndex, i \notin Used(cam), NEW e \in E
  PROVE  /\ CamInv(StoreRequest(cam, i, e), E)
         /\ StoreRequest(cam, i, e).store = [cam.store EXCEPT ![i] = e]
         /\ Used(StoreRequest(cam, i, e)) = Used(cam) \union {i}
         /\ StoreRequest(cam, i, e).collision = cam.collision
<1> DEFINE new == StoreRequest(cam, i, e)
           n == Len(cam.order)
<1>1. /\ new.store = [cam.store EXCEPT ![i] = e] /\ new.order = Append(cam.order, i)
      /\ new.collision = cam.collision /\ DOMAIN new = {"store", "order", "collision"}
  BY DEF StoreRequest, CamInv
<1>2. e # NoEntry
  BY EntryUpdate
<1>3. /\ new.store \in [CamIndex -> E \union {NoEntry}]
      /\ \A j \in CamIndex : new.store[j] = IF j = i THEN e ELSE cam.store[j]
  BY <1>1 DEF CamInv
<1>4. /\ cam.order \in Seq(CamIndex) /\ n \in Nat /\ DOMAIN cam.order = 1 .. n
      /\ new.order \in Seq(CamIndex) /\ DOMAIN new.order = 1 .. n + 1
      /\ \A m \in 1 .. n : new.order[m] = cam.order[m] /\ cam.order[m] \in CamIndex
      /\ new.order[n + 1] = i
  BY <1>1, AppendProperties, LenProperties, ElementOfSeq DEF CamInv
<1>5. \A m \in 1 .. n : cam.order[m] # i
  BY <1>4 DEF CamInv, Used
<1> HIDE DEF new, n
<1>6. \A m, k \in DOMAIN new.order : new.order[m] = new.order[k] => m = k
  <2>1. SUFFICES ASSUME NEW m \in 1 .. n + 1, NEW k \in 1 .. n + 1, new.order[m] = new.order[k]
                 PROVE  m = k
    BY <1>4
  <2>2. \A a, b \in 1 .. n : cam.order[a] = cam.order[b] => a = b
    BY <1>4 DEF CamInv
  <2>3. (m \in 1 .. n \/ m = n + 1) /\ (k \in 1 .. n \/ k = n + 1)
    BY <1>4
  <2>4. QED
    BY <1>4, <1>5, <2>1, <2>2, <2>3
<1>7. \A j \in CamIndex :
        new.store[j] # NoEntry <=> \E m \in DOMAIN new.order : new.order[m] = j
  <2>1. SUFFICES ASSUME NEW j \in CamIndex
                 PROVE  new.store[j] # NoEntry <=> \E m \in 1 .. n + 1 : new.order[m] = j
    BY <1>4
  <2>2. cam.store[j] # NoEntry <=> \E m \in 1 .. n : cam.order[m] = j
    BY <1>4 DEF CamInv
  <2>3. (\E m \in 1 .. n + 1 : new.order[m] = j) <=> (i = j \/ \E m \in 1 .. n : cam.order[m] = j)
    <3>1. n + 1 \in 1 .. n + 1 /\ \A m \in 1 .. n : m \in 1 .. n + 1
      BY <1>4
    <3>2. \A m \in 1 .. n + 1 : m \in 1 .. n \/ m = n + 1
      BY <1>4
    <3>3. QED
      BY <1>4, <3>1, <3>2
  <2>4. QED
    BY <1>2, <1>3, <2>2, <2>3
<1>8. Used(new) = Used(cam) \union {i}
  BY <1>2, <1>3 DEF Used
<1>9. \A j \in new.collision : j \in Used(new) /\ new.store[j].coll
  <2>1. SUFFICES ASSUME NEW j \in cam.collision PROVE j \in Used(new) /\ new.store[j].coll
    BY <1>1
  <2>2. j \in Used(cam) /\ cam.store[j].coll /\ j \in CamIndex
    BY DEF CamInv, Used
  <2>3. QED
    BY <1>3, <1>8, <2>2
<1>10. CamInv(new, E)
  BY <1>1, <1>3, <1>4, <1>6, <1>7, <1>9 DEF CamInv
<1>11. QED
  BY <1>1, <1>8, <1>10 DEF new

LEMMA DeleteCamEntryCam ==
  ASSUME NEW E \in {RdEntry, WrEntry}, NEW cam, CamInv(cam, E), NEW i \in Used(cam)
  PROVE  /\ CamInv(DeleteCamEntry(cam, i), E)
         /\ DeleteCamEntry(cam, i).store = [cam.store EXCEPT ![i] = NoEntry]
         /\ Used(DeleteCamEntry(cam, i)) = Used(cam) \ {i}
<1> DEFINE new == DeleteCamEntry(cam, i)
           s == cam.order
           n == Len(s)
<1>1. PICK p \in DOMAIN s : s[p] = i /\ new.order = RemoveAt(s, p)
  <2>1. \E q \in DOMAIN s : s[q] = i
    BY DEF CamInv, Used
  <2>2. QED
    BY <2>1 DEF DeleteCamEntry
<1>2. /\ new.store = [cam.store EXCEPT ![i] = NoEntry]
      /\ new.collision = IF cam.store[i].coll THEN cam.collision \ {i} ELSE cam.collision
      /\ DOMAIN new = {"store", "order", "collision"}
  BY DEF DeleteCamEntry
<1>3. s \in Seq(CamIndex) /\ n \in Nat /\ DOMAIN s = 1 .. n /\ p \in 1 .. n
  BY LenProperties DEF CamInv
<1>4. /\ new.store \in [CamIndex -> E \union {NoEntry}]
      /\ \A j \in CamIndex : new.store[j] = IF j = i THEN NoEntry ELSE cam.store[j]
  <2>1. cam.store \in [CamIndex -> E \union {NoEntry}]
    BY DEF CamInv
  <2> HIDE DEF new
  <2>2. QED
    BY <1>2, <2>1
<1>5. /\ new.order \in Seq(CamIndex) /\ DOMAIN new.order = 1 .. n - 1
      /\ \A m \in 1 .. n - 1 : new.order[m] = IF m < p THEN s[m] ELSE s[m + 1]
  <2> DEFINE l == SubSeq(s, 1, p - 1)
             r == SubSeq(s, p + 1, n)
  <2>1. \A m \in 1 .. n : s[m] \in CamIndex
    BY <1>3, ElementOfSeq
  <2>2. /\ l \in Seq(CamIndex) /\ Len(l) = p - 1
        /\ \A m \in 1 .. p - 1 : l[m] = s[m]
    <3>1. 1 .. p - 1 \subseteq 1 .. n /\ 1 \in Int /\ p - 1 \in Int
      BY <1>3
    <3>2. \A m \in 1 .. p - 1 : s[m] \in CamIndex
      BY <2>1, <3>1
    <3>3. QED
      BY <1>3, <3>1, <3>2, SubSeqProperties
  <2>3. /\ r \in Seq(CamIndex) /\ Len(r) = n - p
        /\ \A m \in 1 .. n - p : r[m] = s[p + m]
    <3>1. p + 1 .. n \subseteq 1 .. n
      BY <1>3
    <3>2. \A m \in p + 1 .. n : s[m] \in CamIndex
      BY <2>1, <3>1
    <3>3. QED
      BY <1>3, <3>1, <3>2, SubSeqProperties
  <2>4. new.order = l \o r
    BY <1>1 DEF RemoveAt
  <2> HIDE DEF l, r, new, n
  <2>5. /\ l \o r \in Seq(CamIndex) /\ Len(l \o r) = Len(l) + Len(r)
        /\ \A m \in 1 .. Len(l) + Len(r) : (l \o r)[m] = IF m <= Len(l) THEN l[m] ELSE r[m - Len(l)]
    BY <2>2, <2>3, ConcatProperties
  <2>6. /\ new.order \in Seq(CamIndex) /\ Len(new.order) = n - 1
        /\ \A m \in 1 .. n - 1 : new.order[m] = IF m < p THEN s[m] ELSE s[m + 1]
    <3>1. Len(l) + Len(r) = n - 1
      BY <1>3, <2>2, <2>3
    <3>2. ASSUME NEW m \in 1 .. n - 1 PROVE new.order[m] = IF m < p THEN s[m] ELSE s[m + 1]
      <4>1. CASE m < p
        <5>1. m <= Len(l) /\ m \in 1 .. p - 1
          BY <1>3, <2>2, <4>1
        <5>2. QED
          BY <2>2, <2>4, <2>5, <3>1, <4>1, <5>1
      <4>2. CASE ~(m < p)
        <5>1. ~(m <= Len(l)) /\ m - Len(l) \in 1 .. n - p /\ p + (m - Len(l)) = m + 1
          BY <1>3, <2>2, <4>2
        <5>2. (l \o r)[m] = r[m - Len(l)]
          BY <2>5, <3>1, <5>1
        <5>3. QED
          BY <2>3, <2>4, <4>2, <5>1, <5>2
      <4>3. QED
        BY <4>1, <4>2
    <3>3. QED
      BY <2>4, <2>5, <3>1, <3>2
  <2>7. QED
    BY <2>6, LenProperties
<1> HIDE DEF new, s, n
<1> DEFINE At(m) == IF m < p THEN m ELSE m + 1
<1>6. /\ \A m \in 1 .. n - 1 : At(m) \in 1 .. n /\ At(m) # p /\ new.order[m] = s[At(m)]
      /\ \A m, k \in 1 .. n - 1 : At(m) = At(k) => m = k
      /\ \A q \in 1 .. n : q # p => \E m \in 1 .. n - 1 : At(m) = q
  <2>1. \A m \in 1 .. n - 1 : At(m) \in 1 .. n /\ At(m) # p
    BY <1>3
  <2>2. \A m, k \in 1 .. n - 1 : At(m) = At(k) => m = k
    BY <1>3
  <2>3. ASSUME NEW q \in 1 .. n, q # p PROVE \E m \in 1 .. n - 1 : At(m) = q
    <3>1. CASE q < p
      BY <1>3, <3>1
    <3>2. CASE q > p
      <4>1. q - 1 \in 1 .. n - 1 /\ ~(q - 1 < p) /\ (q - 1) + 1 = q
        BY <1>3, <3>2
      <4>2. QED
        BY <4>1
    <3>3. QED
      BY <1>3, <2>3, <3>1, <3>2
  <2>4. QED
    BY <1>5, <2>1, <2>2, <2>3
<1> HIDE DEF At
<1>7. \A m, k \in 1 .. n : s[m] = s[k] => m = k
  BY <1>3 DEF CamInv, s
<1>8. \A m, k \in DOMAIN new.order : new.order[m] = new.order[k] => m = k
  BY <1>5, <1>6, <1>7
<1>9. \A j \in CamIndex :
        new.store[j] # NoEntry <=> \E m \in DOMAIN new.order : new.order[m] = j
  <2>1. SUFFICES ASSUME NEW j \in CamIndex
                 PROVE  new.store[j] # NoEntry <=> \E m \in 1 .. n - 1 : new.order[m] = j
    BY <1>5
  <2>2. cam.store[j] # NoEntry <=> \E m \in 1 .. n : s[m] = j
    BY <1>3 DEF CamInv, s
  <2>3. CASE j = i
    BY <1>1, <1>3, <1>4, <1>6, <1>7, <2>3
  <2>4. CASE j # i
    BY <1>1, <1>4, <1>6, <2>2, <2>4
  <2>5. QED
    BY <2>3, <2>4
<1>10. Used(new) = Used(cam) \ {i}
  BY <1>4 DEF Used
<1>11. \A j \in new.collision : j \in Used(new) /\ new.store[j].coll
  <2>1. SUFFICES ASSUME NEW j \in new.collision PROVE j \in Used(new) /\ new.store[j].coll
    OBVIOUS
  <2>2. j \in cam.collision /\ (cam.store[i].coll => j # i)
    BY <1>2
  <2>3. j \in Used(cam) /\ cam.store[j].coll /\ j \in CamIndex
    BY <2>2 DEF CamInv, Used
  <2>4. j # i
    BY <2>2, <2>3
  <2>5. QED
    BY <1>4, <1>10, <2>3, <2>4
<1>12. CamInv(new, E)
  BY <1>2, <1>4, <1>5, <1>8, <1>9, <1>11 DEF CamInv
<1>13. QED
  BY <1>2, <1>10, <1>12 DEF new

(* The list and the store agree in number, too. *)
LEMMA CamInvOK ==
  ASSUME NEW E, NEW cam, CamInv(cam, E)
  PROVE  CamOK(cam, E)
<1> DEFINE s == cam.order
<1>1. s \in Seq(CamIndex) /\ Len(s) \in Nat /\ DOMAIN s = 1 .. Len(s)
      /\ \A m \in 1 .. Len(s) : s[m] \in CamIndex
  BY LenProperties, ElementOfSeq DEF CamInv
<1>2. ToSet(s) = Used(cam)
  <2>1. \A i \in CamIndex : i \in Used(cam) <=> \E n \in DOMAIN s : s[n] = i
    BY DEF CamInv, Used
  <2>2. ToSet(s) = {s[n] : n \in DOMAIN s}
    BY DEF ToSet
  <2> HIDE DEF s
  <2>3. QED
    BY <1>1, <2>1, <2>2 DEF Used
<1>3. s \in Bijection(1 .. Len(s), Used(cam))
  <2>1. s \in [1 .. Len(s) -> Used(cam)]
    <3>1. \A m \in 1 .. Len(s) : s[m] \in Used(cam)
      BY <1>1 DEF CamInv, Used
    <3>2. s \in [1 .. Len(s) -> CamIndex]
      BY <1>1
    <3> HIDE DEF s
    <3>3. QED
      BY <3>1, <3>2
  <2>2. \A m, k \in 1 .. Len(s) : s[m] = s[k] => m = k
    BY <1>1 DEF CamInv
  <2>3. \A i \in Used(cam) : \E m \in 1 .. Len(s) : s[m] = i
    BY <1>1 DEF CamInv, Used
  <2> HIDE DEF s
  <2>4. s \in Injection(1 .. Len(s), Used(cam))
    BY <2>1, <2>2 DEF Injection, IsInjective
  <2>5. s \in Surjection(1 .. Len(s), Used(cam))
    BY <2>1, <2>3 DEF Surjection
  <2>6. QED
    BY <2>4, <2>5 DEF Bijection
<1>4. Cardinality(Used(cam)) = Len(s)
  <2>1. IsFiniteSet(1 .. Len(s)) /\ Cardinality(1 .. Len(s)) = Len(s)
    BY <1>1, FS_Interval
  <2>2. Cardinality(1 .. Len(s)) = Cardinality(Used(cam))
    BY <1>3, <2>1, FS_Bijection DEF ExistsBijection
  <2>3. QED
    BY <2>1, <2>2
<1>5. cam.collision \subseteq Used(cam)
  BY DEF CamInv
<1>6. QED
  BY <1>2, <1>4, <1>5 DEF CamOK, CamInv

(* The filters choose one of the commands they are given. *)
LEMMA OldestIn ==
  ASSUME NEW E, NEW cam, CamInv(cam, E), NEW S \in SUBSET Used(cam), S # {}
  PROVE  GetOldestCamIndex(cam, S) \in S
<1> DEFINE s == cam.order
           T == {n \in DOMAIN s : s[n] \in S}
           First(n) == n \in DOMAIN s /\ s[n] \in S /\ \A m \in DOMAIN s : s[m] \in S => n <= m
<1>1. DOMAIN s \subseteq Nat
  BY LenProperties DEF CamInv
<1>2. T \in SUBSET Nat /\ T # {}
  <2>1. PICK i \in CamIndex : i \in S /\ cam.store[i] # NoEntry
    BY DEF Used
  <2>2. \E n \in DOMAIN s : s[n] = i
    BY <2>1 DEF CamInv
  <2>3. QED
    BY <1>1, <2>1, <2>2
<1>3. \E n : First(n)
  <2>1. Min(T) \in T /\ \A y \in T : Min(T) <= y
    BY <1>2, MinIsLeast
  <2>2. First(Min(T))
    BY <2>1
  <2>3. QED
    BY <2>2
<1>4. GetOldestCamIndex(cam, S) = s[CHOOSE n \in DOMAIN s : s[n] \in S /\ \A m \in DOMAIN s : s[m] \in S => n <= m]
  BY DEF GetOldestCamIndex
<1>5. s[CHOOSE n \in DOMAIN s : s[n] \in S /\ \A m \in DOMAIN s : s[m] \in S => n <= m] \in S
  BY <1>3
<1>6. QED
  BY <1>4, <1>5

LEMMA SelectedWrIn ==
  ASSUME NEW E, NEW cam, CamInv(cam, E), NEW S \in SUBSET Used(cam), S # {}
  PROVE  GetSelectedWrCamIndex(cam, S) \in S
<1>1. \A T \in SUBSET S : T # {} => GetOldestCamIndex(cam, T) \in T
  BY OldestIn
<1>2. {i \in S : cam.store[i].coll} \in SUBSET S
  OBVIOUS
<1>3. QED
  BY <1>1, <1>2 DEF GetSelectedWrCamIndex, OldestElse

LEMMA SelectedRdIn ==
  ASSUME NEW cam, CamInv(cam, RdEntry), NEW S \in SUBSET Used(cam), S # {},
         NEW lpr_critical \in BOOLEAN
  PROVE  GetSelectedRdCamIndex(cam, S, lpr_critical) \in S
<1> DEFINE Of(class) == {i \in S : cam.store[i].prio = class}
           Hit(class) == {i \in Of(class) : cam.store[i].hit}
           busy == {i \in S : cam.store[i].coll}
           first == IF lpr_critical THEN "LPR" ELSE "HPR"
           second == IF lpr_critical THEN "HPR" ELSE "LPR"
           last == GetOldestCamIndex(cam, Of(second))
           Good(i) == i \in S
<1>1. \A T \in SUBSET S : T # {} => Good(GetOldestCamIndex(cam, T))
  BY OldestIn
<1>2. \A class : Of(class) \in SUBSET S /\ Hit(class) \in SUBSET S
  OBVIOUS
<1>3. Of(first) # {} \/ Of(second) # {}
  <2>1. PICK i : i \in S
    OBVIOUS
  <2>2. cam.store[i] \in RdEntry
    BY <2>1 DEF CamInv, Used
  <2>3. cam.store[i].prio \in {"HPR", "LPR"}
    BY <2>2 DEF RdEntry, Entry
  <2>4. QED
    BY <2>1, <2>3
<1>4. busy \in SUBSET S
  OBVIOUS
<1> HIDE DEF Of, Hit, busy, first, second, Good
<1>5. \A T \in SUBSET S : \A other : (T # {} \/ Good(other)) => Good(OldestElse(cam, T, other))
  BY <1>1 DEF OldestElse
<1>6. Of(second) # {} => Good(last)
  BY <1>1, <1>2
<1> HIDE DEF last
<1>7. Good(OldestElse(cam, Of(first), last))
  BY <1>2, <1>3, <1>5, <1>6
<1>8. Good(OldestElse(cam, Hit(second), OldestElse(cam, Of(first), last)))
  BY <1>2, <1>5, <1>7
<1>9. Good(OldestElse(cam, Of(first), OldestElse(cam, Hit(second), last)))
  <2>1. CASE Of(first) # {}
    BY <1>2, <1>5, <2>1
  <2>2. CASE Of(second) # {}
    <3>1. Good(OldestElse(cam, Hit(second), last))
      BY <1>2, <1>5, <1>6, <2>2
    <3>2. QED
      BY <1>2, <1>5, <3>1
  <2>3. QED
    BY <1>3, <2>1, <2>2
<1> DEFINE rest == IF PREFER_HIT_HPR
                     THEN OldestElse(cam, Hit(second), OldestElse(cam, Of(first), last))
                     ELSE OldestElse(cam, Of(first), OldestElse(cam, Hit(second), last))
<1>10. Good(rest)
  BY <1>8, <1>9
<1> HIDE DEF rest
<1>11. Good(OldestElse(cam, busy, OldestElse(cam, Hit(first), rest)))
  BY <1>2, <1>4, <1>5, <1>10
<1>12. GetSelectedRdCamIndex(cam, S, lpr_critical) = OldestElse(cam, busy, OldestElse(cam, Hit(first), rest))
  BY Zenon DEF GetSelectedRdCamIndex, busy, Hit, Of, first, second, last, rest
<1>13. QED
  BY <1>11, <1>12 DEF Good

-----------------------------------------------------------------------------
(* Marking stored commands *)

(* What a mark may change in an entry. *)
Changed(e, f) ==
  \/ f = e
  \/ \E h \in BOOLEAN : f = [e EXCEPT !.hit = h]
  \/ \E h, a \in BOOLEAN : f = [e EXCEPT !.hit = h, !.alloc = a]
  \/ \E w \in Nat : f = [e EXCEPT !.wait = w]

(* The CAM holds what it held, with other marks. *)
Remarked(cam, new) ==
  /\ DOMAIN new = {"store", "order", "collision"} /\ DOMAIN new.store = CamIndex
  /\ new.store = [i \in CamIndex |-> new.store[i]]
  /\ new.order = cam.order /\ new.collision = cam.collision
  /\ \A i \in CamIndex : new.store[i] = cam.store[i]
                         \/ (i \in Used(cam) /\ Changed(cam.store[i], new.store[i]))

LEMMA ChangedKeeps ==
  ASSUME NEW E \in {RdEntry, WrEntry}, NEW e \in E, NEW f, Changed(e, f)
  PROVE  f \in E /\ f.ba = e.ba /\ f.row = e.row /\ f.coll = e.coll /\ f # NoEntry
<1>1. f \in E
  <2>1. /\ \A h \in BOOLEAN : [e EXCEPT !.hit = h] \in E
        /\ \A h, a \in BOOLEAN : [e EXCEPT !.hit = h, !.alloc = a] \in E
        /\ \A w \in Nat : [e EXCEPT !.wait = w] \in E
    BY EntryUpdate
  <2>2. QED
    BY <2>1, Zenon DEF Changed
<1>2. f.ba = e.ba /\ f.row = e.row /\ f.coll = e.coll
  <2>1. DOMAIN e = {"cmd", "ba", "row", "col", "prio", "hit", "alloc", "coll", "wait"}
    BY EntryUpdate
  <2>2. QED
    BY <2>1 DEF Changed
<1>3. QED
  BY <1>1, <1>2, EntryUpdate

LEMMA RemarkedCam ==
  ASSUME NEW E \in {RdEntry, WrEntry}, NEW cam, CamInv(cam, E), NEW new, Remarked(cam, new)
  PROVE  /\ CamInv(new, E) /\ Used(new) = Used(cam)
         /\ \A b : BaOrderList(new, b) = BaOrderList(cam, b)
         /\ \A i \in Used(cam) : new.store[i].ba = cam.store[i].ba /\ new.store[i].row = cam.store[i].row
<1>1. NoEntry \notin E
  BY NoEntryAssumption
<1>2. ASSUME NEW i \in CamIndex
      PROVE  /\ new.store[i] \in E \union {NoEntry}
             /\ new.store[i] = NoEntry <=> cam.store[i] = NoEntry
             /\ cam.store[i] # NoEntry => /\ new.store[i].ba = cam.store[i].ba
                                         /\ new.store[i].row = cam.store[i].row
                                         /\ new.store[i].coll = cam.store[i].coll
  <2>1. CASE new.store[i] = cam.store[i]
    BY <2>1 DEF CamInv
  <2>2. CASE i \in Used(cam) /\ Changed(cam.store[i], new.store[i])
    <3>1. cam.store[i] \in E /\ cam.store[i] # NoEntry
      BY <2>2 DEF CamInv, Used
    <3>2. QED
      BY <2>2, <3>1, ChangedKeeps
  <2>3. QED
    BY <2>1, <2>2 DEF Remarked
<1>3. new.store \in [CamIndex -> E \union {NoEntry}]
  BY <1>2 DEF Remarked
<1>4. Used(new) = Used(cam)
  BY <1>2 DEF Used
<1>5. \A b : BaOrderList(new, b) = BaOrderList(cam, b)
  BY <1>2, <1>4 DEF BaOrderList, Used
<1>6. \A i \in new.collision : i \in Used(new) /\ new.store[i].coll
  <2>1. SUFFICES ASSUME NEW i \in cam.collision PROVE i \in Used(cam) /\ new.store[i].coll
    BY <1>4 DEF Remarked
  <2>2. i \in Used(cam) /\ cam.store[i].coll
    BY DEF CamInv
  <2>3. QED
    BY <1>2, <2>2 DEF Used
<1>7. CamInv(new, E)
  BY <1>2, <1>3, <1>6 DEF CamInv, Remarked
<1>8. QED
  BY <1>2, <1>4, <1>5, <1>7 DEF Used

(* The marks of one bank's commands after an ACT, a PRE, the allocation of a slice. *)
HitMarks(cam, new, b, row) ==
  \A i \in Used(cam) :
    /\ new.store[i].alloc = cam.store[i].alloc
    /\ cam.store[i].ba # b => new.store[i] = cam.store[i]
    /\ cam.store[i].ba = b => (new.store[i].hit <=> cam.store[i].row = row)
CloseMarks(cam, new, b) ==
  \A i \in Used(cam) :
    /\ new.store[i].alloc = cam.store[i].alloc
    /\ cam.store[i].ba # b => new.store[i] = cam.store[i]
AllocMarks(cam, new, b) ==
  \A i \in Used(cam) :
    /\ cam.store[i].ba # b => new.store[i] = cam.store[i]
    /\ cam.store[i].ba = b => new.store[i].alloc

LEMMA PageMarks ==
  ASSUME NEW E \in {RdEntry, WrEntry}, NEW cam, CamInv(cam, E), NEW b, NEW row
  PROVE  /\ Remarked(cam, SetBaPageHit(cam, b, row)) /\ HitMarks(cam, SetBaPageHit(cam, b, row), b, row)
         /\ Remarked(cam, SetBaPageClose(cam, b)) /\ CloseMarks(cam, SetBaPageClose(cam, b), b)
         /\ Remarked(cam, SetAllocateBsc(cam, b)) /\ AllocMarks(cam, SetAllocateBsc(cam, b), b)
<1>1. DOMAIN cam = {"store", "order", "collision"}
  BY DEF CamInv
<1>2. BaOrderList(cam, b) \subseteq Used(cam)
  BY DEF BaOrderList
<1>3. \A e : /\ Changed(e, [e EXCEPT !.hit = FALSE])
             /\ Changed(e, [e EXCEPT !.hit = (e.row = row)])
             /\ Changed(e, [e EXCEPT !.hit = FALSE, !.alloc = TRUE])
  BY DEF Changed
<1> DEFINE hit == SetBaPageHit(cam, b, row)
           H == [i \in CamIndex |-> IF i \in BaOrderList(cam, b)
                   THEN [cam.store[i] EXCEPT !.hit = (cam.store[i].row = row)] ELSE cam.store[i]]
<1>4. hit = [cam EXCEPT !.store = H]
  BY Zenon DEF SetBaPageHit, Marked
<1>5. /\ hit.store = H /\ hit.order = cam.order /\ hit.collision = cam.collision
      /\ DOMAIN hit = {"store", "order", "collision"}
  BY <1>1, <1>4
<1> DEFINE close == SetBaPageClose(cam, b)
           C == [i \in CamIndex |-> IF i \in BaOrderList(cam, b)
                   THEN [cam.store[i] EXCEPT !.hit = FALSE] ELSE cam.store[i]]
<1>6. close = [cam EXCEPT !.store = C]
  BY Zenon DEF SetBaPageClose, Marked
<1>7. /\ close.store = C /\ close.order = cam.order /\ close.collision = cam.collision
      /\ DOMAIN close = {"store", "order", "collision"}
  BY <1>1, <1>6
<1> DEFINE alloc == SetAllocateBsc(cam, b)
           A == [i \in CamIndex |-> IF i \in BaOrderList(cam, b)
                   THEN [cam.store[i] EXCEPT !.hit = FALSE, !.alloc = TRUE] ELSE cam.store[i]]
<1>8. alloc = [cam EXCEPT !.store = A]
  BY Zenon DEF SetAllocateBsc, Marked
<1>9. /\ alloc.store = A /\ alloc.order = cam.order /\ alloc.collision = cam.collision
      /\ DOMAIN alloc = {"store", "order", "collision"}
  BY <1>1, <1>8
<1> HIDE DEF hit, close, alloc
<1>10. Remarked(cam, hit) /\ Remarked(cam, close) /\ Remarked(cam, alloc)
  <2>1. DOMAIN H = CamIndex /\ DOMAIN C = CamIndex /\ DOMAIN A = CamIndex
        /\ H = [i \in CamIndex |-> H[i]] /\ C = [i \in CamIndex |-> C[i]] /\ A = [i \in CamIndex |-> A[i]]
    OBVIOUS
  <2>2. \A i \in CamIndex : H[i] = cam.store[i] \/ (i \in Used(cam) /\ Changed(cam.store[i], H[i]))
    BY <1>2, <1>3, Zenon
  <2>3. \A i \in CamIndex : C[i] = cam.store[i] \/ (i \in Used(cam) /\ Changed(cam.store[i], C[i]))
    BY <1>2, <1>3, Zenon
  <2>4. \A i \in CamIndex : A[i] = cam.store[i] \/ (i \in Used(cam) /\ Changed(cam.store[i], A[i]))
    BY <1>2, <1>3, Zenon
  <2> HIDE DEF H, C, A
  <2>5. QED
    BY <1>5, <1>7, <1>9, <2>1, <2>2, <2>3, <2>4, Zenon DEF Remarked
<1>11. HitMarks(cam, hit, b, row) /\ CloseMarks(cam, close, b) /\ AllocMarks(cam, alloc, b)
  <2>1. SUFFICES ASSUME NEW i \in Used(cam)
                 PROVE  /\ hit.store[i].alloc = cam.store[i].alloc
                        /\ cam.store[i].ba # b => hit.store[i] = cam.store[i]
                        /\ cam.store[i].ba = b => (hit.store[i].hit <=> cam.store[i].row = row)
                        /\ close.store[i].alloc = cam.store[i].alloc
                        /\ cam.store[i].ba # b => close.store[i] = cam.store[i]
                        /\ cam.store[i].ba # b => alloc.store[i] = cam.store[i]
                        /\ cam.store[i].ba = b => alloc.store[i].alloc
    BY Zenon DEF HitMarks, CloseMarks, AllocMarks
  <2>2. i \in CamIndex /\ cam.store[i] \in E
    BY DEF CamInv, Used
  <2>3. DOMAIN cam.store[i] = {"cmd", "ba", "row", "col", "prio", "hit", "alloc", "coll", "wait"}
    BY <2>2, EntryUpdate
  <2>4. i \in BaOrderList(cam, b) <=> cam.store[i].ba = b
    BY DEF BaOrderList
  <2>5. PICK g : g = cam.store[i]
    OBVIOUS
  <2>6. /\ hit.store[i] = IF g.ba = b THEN [g EXCEPT !.hit = (g.row = row)] ELSE g
        /\ close.store[i] = IF g.ba = b THEN [g EXCEPT !.hit = FALSE] ELSE g
        /\ alloc.store[i] = IF g.ba = b THEN [g EXCEPT !.hit = FALSE, !.alloc = TRUE] ELSE g
    BY <1>5, <1>7, <1>9, <2>2, <2>4, <2>5
  <2> HIDE DEF H, C, A
  <2>7. QED
    BY <2>3, <2>5, <2>6
<1>12. QED
  BY <1>10, <1>11 DEF hit, close, alloc

(* One command: it matches its slice, or its data comes; the data of all comes closer. *)
MatchMarks(cam, new, j, page) ==
  /\ \A i \in Used(cam) \ {j} : new.store[i] = cam.store[i]
  /\ new.store[j].alloc /\ (new.store[j].hit <=> cam.store[j].row = page)
WaitMarks(cam, new) ==
  \A i \in Used(cam) : /\ new.store[i].hit = cam.store[i].hit
                       /\ new.store[i].alloc = cam.store[i].alloc

LEMMA CommandMarks ==
  ASSUME NEW E \in {RdEntry, WrEntry}, NEW cam, CamInv(cam, E), NEW j \in Used(cam), NEW page
  PROVE  /\ Remarked(cam, SetBaMatch(cam, j, page)) /\ MatchMarks(cam, SetBaMatch(cam, j, page), j, page)
         /\ Remarked(cam, [cam EXCEPT !.store[j].wait = 0])
         /\ WaitMarks(cam, [cam EXCEPT !.store[j].wait = 0])
<1>1. DOMAIN cam = {"store", "order", "collision"} /\ DOMAIN cam.store = CamIndex
      /\ cam.store = [i \in CamIndex |-> cam.store[i]] /\ j \in CamIndex
  BY DEF CamInv, Used
<1>2. \A e : /\ Changed(e, [e EXCEPT !.hit = (e.row = page), !.alloc = TRUE])
             /\ Changed(e, [e EXCEPT !.wait = 0])
  BY DEF Changed
<1> DEFINE match == SetBaMatch(cam, j, page)
           M == [i \in CamIndex |-> IF i \in {j}
                   THEN [cam.store[i] EXCEPT !.hit = (cam.store[i].row = page), !.alloc = TRUE]
                   ELSE cam.store[i]]
<1>3. match = [cam EXCEPT !.store = M]
  BY Zenon DEF SetBaMatch, Marked
<1>4. /\ match.store = M /\ match.order = cam.order /\ match.collision = cam.collision
      /\ DOMAIN match = {"store", "order", "collision"}
  BY <1>1, <1>3
<1> DEFINE ready == [cam EXCEPT !.store[j].wait = 0]
           R == [i \in CamIndex |-> IF i = j THEN [cam.store[j] EXCEPT !.wait = 0] ELSE cam.store[i]]
<1>5. /\ ready.store = R /\ ready.order = cam.order /\ ready.collision = cam.collision
      /\ DOMAIN ready = {"store", "order", "collision"}
  BY <1>1
<1> HIDE DEF match, ready
<1>6. Remarked(cam, match) /\ Remarked(cam, ready)
  <2>1. DOMAIN M = CamIndex /\ DOMAIN R = CamIndex
        /\ M = [i \in CamIndex |-> M[i]] /\ R = [i \in CamIndex |-> R[i]]
    OBVIOUS
  <2>2. \A i \in CamIndex : M[i] = cam.store[i] \/ (i \in Used(cam) /\ Changed(cam.store[i], M[i]))
    BY <1>2, Zenon
  <2>3. \A i \in CamIndex : R[i] = cam.store[i] \/ (i \in Used(cam) /\ Changed(cam.store[i], R[i]))
    BY <1>2, Zenon
  <2> HIDE DEF M, R
  <2>4. QED
    BY <1>4, <1>5, <2>1, <2>2, <2>3, Zenon DEF Remarked
<1>7. PICK g : g = cam.store[j]
  OBVIOUS
<1>8. DOMAIN g = {"cmd", "ba", "row", "col", "prio", "hit", "alloc", "coll", "wait"}
  <2>1. cam.store[j] \in E
    BY DEF CamInv, Used
  <2>2. QED
    BY <1>7, <2>1, EntryUpdate
<1>9. /\ match.store[j] = [g EXCEPT !.hit = (g.row = page), !.alloc = TRUE]
      /\ ready.store[j] = [g EXCEPT !.wait = 0]
      /\ \A i \in Used(cam) \ {j} : match.store[i] = cam.store[i] /\ ready.store[i] = cam.store[i]
  BY <1>1, <1>4, <1>5, <1>7 DEF Used
<1> HIDE DEF M, R
<1>10. MatchMarks(cam, match, j, page)
  BY <1>7, <1>8, <1>9 DEF MatchMarks
<1>11. WaitMarks(cam, ready)
  BY <1>7, <1>8, <1>9 DEF WaitMarks
<1>12. QED
  BY <1>6, <1>10, <1>11 DEF match, ready

LEMMA CloserMarks ==
  ASSUME NEW cam, CamInv(cam, WrEntry)
  PROVE  Remarked(cam, Closer(cam)) /\ WaitMarks(cam, Closer(cam))
<1> DEFINE W == [i \in CamIndex |-> IF i \in {k \in Used(cam) : cam.store[k].wait > 1}
                   THEN [cam.store[i] EXCEPT !.wait = cam.store[i].wait - 1] ELSE cam.store[i]]
           new == Closer(cam)
<1>1. new = [cam EXCEPT !.store = W]
  BY Zenon DEF Closer, Marked
<1>2. /\ new.store = W /\ new.order = cam.order /\ new.collision = cam.collision
      /\ DOMAIN new = {"store", "order", "collision"}
  BY <1>1 DEF CamInv
<1>3. ASSUME NEW i \in CamIndex
      PROVE  W[i] = cam.store[i]
             \/ (i \in Used(cam) /\ \E w \in Nat : W[i] = [cam.store[i] EXCEPT !.wait = w])
  <2>1. CASE i \in {k \in Used(cam) : cam.store[k].wait > 1}
    <3>1. cam.store[i] \in WrEntry
      BY <2>1 DEF CamInv, Used
    <3>2. cam.store[i].wait \in Nat
      BY <3>1, EntryUpdate
    <3>3. cam.store[i].wait - 1 \in Nat
      BY <2>1, <3>2
    <3>4. QED
      BY <2>1, <3>3
  <2>2. QED
    BY <2>1
<1>4. DOMAIN W = CamIndex /\ W = [i \in CamIndex |-> W[i]]
  OBVIOUS
<1> HIDE DEF W, new
<1>5. Remarked(cam, new)
  BY <1>2, <1>3, <1>4 DEF Remarked, Changed
<1>6. WaitMarks(cam, new)
  <2>1. SUFFICES ASSUME NEW i \in Used(cam)
                 PROVE  new.store[i].hit = cam.store[i].hit /\ new.store[i].alloc = cam.store[i].alloc
    BY DEF WaitMarks
  <2>2. cam.store[i] \in WrEntry /\ i \in CamIndex
    BY DEF CamInv, Used
  <2>3. DOMAIN cam.store[i] = {"cmd", "ba", "row", "col", "prio", "hit", "alloc", "coll", "wait"}
    BY <2>2, EntryUpdate
  <2>4. QED
    BY <1>2, <1>3, <2>2, <2>3
<1>7. QED
  BY <1>5, <1>6 DEF new

(* DetectAddrCollision sets the marks and the list of the commands in the way together. *)
CollMarks(cam, new) ==
  \A i \in Used(cam) : \E c \in BOOLEAN : new.store[i] = [cam.store[i] EXCEPT !.coll = c]

LEMMA CollisionCam ==
  ASSUME NEW E \in {RdEntry, WrEntry}, NEW cam, CamInv(cam, E), NEW d
  PROVE  /\ CamInv(DetectAddrCollision(cam, d), E)
         /\ Used(DetectAddrCollision(cam, d)) = Used(cam)
         /\ CollMarks(cam, DetectAddrCollision(cam, d))
         /\ DetectAddrCollision(cam, d).order = cam.order
<1> DEFINE new == DetectAddrCollision(cam, d)
           D == [i \in CamIndex |-> IF i \in Used(cam)
                   THEN [cam.store[i] EXCEPT !.coll = Collides(cam.store[i], d)] ELSE cam.store[i]]
           L == {i \in Used(cam) : d.cmd # "Invalid" /\ Collides(cam.store[i], d)}
<1>1. new = [[cam EXCEPT !.store = D] EXCEPT !.collision = L]
  BY Zenon DEF DetectAddrCollision, Marked
<1>2. /\ new.store = D /\ new.order = cam.order /\ new.collision = L
      /\ DOMAIN new = {"store", "order", "collision"}
  BY <1>1 DEF CamInv
<1>3. ASSUME NEW i \in Used(cam)
      PROVE  /\ Collides(cam.store[i], d) \in BOOLEAN
             /\ D[i] = [cam.store[i] EXCEPT !.coll = Collides(cam.store[i], d)]
             /\ D[i] \in E /\ D[i].coll = Collides(cam.store[i], d)
  <2>1. cam.store[i] \in E /\ i \in CamIndex
    BY DEF CamInv, Used
  <2>2. D[i] = [cam.store[i] EXCEPT !.coll = Collides(cam.store[i], d)]
    BY <2>1
  <2>3. Collides(cam.store[i], d) \in BOOLEAN
    BY DEF Collides
  <2>4. \A c \in BOOLEAN : [cam.store[i] EXCEPT !.coll = c] \in E
    BY <2>1, EntryUpdate
  <2>5. DOMAIN cam.store[i] = {"cmd", "ba", "row", "col", "prio", "hit", "alloc", "coll", "wait"}
    BY <2>1, EntryUpdate
  <2> HIDE DEF D
  <2>6. QED
    BY <2>2, <2>3, <2>4, <2>5
<1>4. \A i \in CamIndex : i \notin Used(cam) => D[i] = NoEntry
  BY DEF Used
<1>5. NoEntry \notin E
  BY NoEntryAssumption
<1>6. DOMAIN D = CamIndex /\ D = [i \in CamIndex |-> D[i]] /\ L \subseteq Used(cam)
      /\ \A i \in L : Collides(cam.store[i], d)
  OBVIOUS
<1> HIDE DEF D, L, new
<1>7. D \in [CamIndex -> E \union {NoEntry}]
  BY <1>3, <1>4, <1>6
<1>8. \A i \in CamIndex : D[i] # NoEntry <=> cam.store[i] # NoEntry
  BY <1>3, <1>4, <1>5 DEF Used
<1>9. Used(new) = Used(cam)
  BY <1>2, <1>8 DEF Used
<1>10. CamInv(new, E)
  <2>1. \A i \in new.collision : i \in Used(new) /\ new.store[i].coll
    BY <1>2, <1>3, <1>6, <1>9
  <2>2. \A i \in CamIndex : new.store[i] # NoEntry <=> \E n \in DOMAIN new.order : new.order[n] = i
    BY <1>2, <1>8 DEF CamInv
  <2>3. /\ new.order \in Seq(CamIndex)
        /\ \A n, m \in DOMAIN new.order : new.order[n] = new.order[m] => n = m
    BY <1>2 DEF CamInv
  <2>4. QED
    BY <1>2, <1>7, <2>1, <2>2, <2>3 DEF CamInv
<1>11. QED
  BY <1>2, <1>3, <1>9, <1>10 DEF new, CollMarks

-----------------------------------------------------------------------------
(* The bank slices *)

(* What a time step, a wait or a refresh leaves of the slices. *)
SamePages(s, t) == t \in [Bsc -> Slice] /\ \A x \in Bsc : t[x].ba = s[x].ba /\ t[x].page = s[x].page
SameCandidates(s, t) == \A x \in Bsc : t[x].rd = s[x].rd /\ t[x].wr = s[x].wr

LEMMA SamePagesKeep ==
  ASSUME NEW sl, NEW tbl, Tables(sl, tbl), NEW t, SamePages(sl, t)
  PROVE  /\ Tables(t, tbl)
         /\ \A cam : Marks(cam, sl, tbl) /\ (\A i \in Used(cam) : cam.store[i].ba \in Bank)
                       => Marks(cam, t, tbl)
         /\ \A batch, rd, wr : Updates(batch, sl, rd, wr) => Updates(batch, t, rd, wr)
         /\ \A rd, wr : Candidates(sl, rd, wr) /\ SameCandidates(sl, t) => Candidates(t, rd, wr)
<1>1. Tables(t, tbl)
  BY DEF Tables, SamePages
<1>2. ASSUME NEW cam, Marks(cam, sl, tbl), \A i \in Used(cam) : cam.store[i].ba \in Bank
      PROVE  Marks(cam, t, tbl)
  <2>1. \A b \in Bank : tbl[b] # NoBsc => tbl[b] \in Bsc
    BY DEF Tables
  <2>2. \A b \in Bank : tbl[b] # NoBsc => t[tbl[b]].page = sl[tbl[b]].page
    BY <2>1 DEF SamePages
  <2>3. QED
    BY <1>2, <2>2 DEF Marks, MarkOK
<1>3. ASSUME NEW batch, NEW rd, NEW wr, Updates(batch, sl, rd, wr)
      PROVE  Updates(batch, t, rd, wr)
  BY <1>3 DEF Updates, SamePages
<1>4. ASSUME NEW rd, NEW wr, Candidates(sl, rd, wr), SameCandidates(sl, t)
      PROVE  Candidates(t, rd, wr)
  BY <1>4 DEF Candidates, SamePages, SameCandidates
<1>5. QED
  BY <1>1, <1>2, <1>3, <1>4

LEMMA SamePagesInv ==
  ASSUME NEW sl, NEW tbl, NEW rd, NEW wr, NEW batch, TablesInv(sl, tbl, rd, wr, batch),
         NEW t, SamePages(sl, t), SameCandidates(sl, t)
  PROVE  TablesInv(t, tbl, rd, wr, batch)
<1>1. \A E \in {RdEntry, WrEntry} : \A cam :
        CamInv(cam, E) => \A i \in Used(cam) : cam.store[i].ba \in Bank
  BY EntryUpdate DEF CamInv, Used
<1>2. /\ \A i \in Used(rd) : rd.store[i].ba \in Bank
      /\ \A i \in Used(wr) : wr.store[i].ba \in Bank
  BY <1>1 DEF TablesInv
<1>3. QED
  BY <1>2, SamePagesKeep, Zenon DEF TablesInv

(* Of one slice. *)
SameSlice(s, u) == u \in Slice /\ u.ba = s.ba /\ u.page = s.page /\ u.rd = s.rd /\ u.wr = s.wr

LEMMA SliceUpdate ==
  ASSUME NEW s \in Slice
  PROVE  /\ SameSlice(s, s)
         /\ \A v \in {"activing", "open", "overdue"} : SameSlice(s, [s EXCEPT !.age = v])
         /\ \A v \in BOOLEAN : SameSlice(s, [s EXCEPT !.waiting = v])
         /\ SameSlice(s, DecreaseRaa(s)) /\ SameSlice(s, Refreshed(s))
         /\ \A k : SameSlice(s, Managed(s, k))
<1>1. \A v \in BOOLEAN : SameSlice(s, [s EXCEPT !.waiting = v])
  BY DEF Slice, SameSlice
<1>2. SameSlice(s, Refreshed(s)) /\ SameSlice(s, ClearRfmReq(s))
  BY DEF Slice, SameSlice, Refreshed, ClearRfmReq
<1>3. SameSlice(s, DecreaseRaa(s))
  <2> DEFINE raa == IF s.raa > RAADEC THEN s.raa - RAADEC ELSE 0
             rfm == s.rfm /\ ~(RAAIMT > 0 /\ raa < RAAIMT)
             blocked == s.blocked /\ ~(RAAMMT > 0 /\ raa < RAAMMT)
  <2>1. s.raa \in Nat /\ s.rfm \in BOOLEAN /\ s.blocked \in BOOLEAN
    BY DEF Slice
  <2>2. raa \in Nat
    BY <2>1, RaaAssumption
  <2>3. rfm \in BOOLEAN /\ blocked \in BOOLEAN
    OBVIOUS
  <2>4. DecreaseRaa(s) \in {s, [s EXCEPT !.raa = raa, !.rfm = rfm, !.blocked = blocked]}
    BY Zenon DEF DecreaseRaa
  <2> HIDE DEF raa, rfm, blocked
  <2>5. SameSlice(s, [s EXCEPT !.raa = raa, !.rfm = rfm, !.blocked = blocked])
    BY <2>2, <2>3 DEF Slice, SameSlice
  <2>6. SameSlice(s, s)
    BY DEF SameSlice
  <2>7. QED
    BY <2>4, <2>5, <2>6, Zenon
<1>4. \A v \in {"activing", "open", "overdue"} : SameSlice(s, [s EXCEPT !.age = v])
  BY DEF Slice, SameSlice
<1>5. SameSlice(s, s)
  BY DEF SameSlice
<1>6. \A k : SameSlice(s, Managed(s, k))
  BY <1>2, Zenon DEF Managed
<1>7. QED
  BY <1>1, <1>2, <1>3, <1>4, <1>5, <1>6

LEMMA SameSlices ==
  ASSUME NEW sl, NEW t, t = [x \in Bsc |-> t[x]], \A x \in Bsc : SameSlice(sl[x], t[x])
  PROVE  SamePages(sl, t) /\ SameCandidates(sl, t)
<1>1. \A x \in Bsc : t[x] \in Slice
  BY DEF SameSlice
<1>2. t \in [Bsc -> Slice]
  BY <1>1
<1>3. QED
  BY <1>2 DEF SamePages, SameCandidates, SameSlice

LEMMA CommandUpdate ==
  ASSUME NEW s \in Slice, NEW row \in Row, NEW type \in RowCommands \union ColCommands
  PROVE  LET u == Update(s, type, row)
         IN  /\ u \in Slice /\ u.ba = s.ba
             /\ u.page = IF type = "ACT" THEN row
                         ELSE IF type \in {"PRE", "RDA", "WRA"} THEN Closed ELSE s.page
             /\ u.rd = IF type \in {"RD", "RDA"} THEN NoEntry ELSE s.rd
             /\ u.wr = IF type \in {"WR", "WRA"} THEN NoEntry ELSE s.wr
<1>1. CASE type = "ACT"
  <2> DEFINE raa == s.raa + RAAMULT
             rfm == s.rfm \/ (RAAIMT > 0 /\ raa >= RAAIMT) \/ raa >= RAA_THRESHOLD
             blocked == s.blocked \/ (RAAMMT > 0 /\ raa >= RAAMMT)
  <2>1. raa \in Nat /\ rfm \in BOOLEAN /\ blocked \in BOOLEAN
    BY RaaAssumption DEF Slice
  <2>2. Update(s, type, row) = [s EXCEPT !.page = row, !.age = "activing", !.raa = raa,
                                         !.rfm = rfm, !.blocked = blocked]
    BY <1>1, Zenon DEF Update
  <2> HIDE DEF raa, rfm, blocked
  <2>3. QED
    BY <1>1, <2>1, <2>2 DEF Slice
<1>2. CASE type \in {"PRE", "RD", "WR", "RDA", "WRA"}
  BY <1>2 DEF Update, Slice
<1>3. QED
  BY <1>1, <1>2 DEF RowCommands, ColCommands

-----------------------------------------------------------------------------
(* The updates of the candidates *)

LEMMA RecordedIn ==
  ASSUME NEW batch, NEW is_rd, NEW x, NEW kind, NEW i,
         NEW u \in Recorded(batch, is_rd, x, kind, i)
  PROVE  u \in batch \/ u = [is_rd |-> is_rd, bsc |-> x, kind |-> kind, index |-> i]
BY Zenon DEF Recorded

(* A recorded update names a stored command of the bank. *)
LEMMA RecordInv ==
  ASSUME NEW sl, NEW rd, NEW wr, CamInv(rd, RdEntry), CamInv(wr, WrEntry),
         NEW batch, Updates(batch, sl, rd, wr),
         NEW x \in Bsc, sl[x].ba # NoBank, NEW kind
  PROVE  /\ Updates(UpdateRdNttPip(batch, rd, x, sl[x].ba, kind), sl, rd, wr)
         /\ Updates(UpdateWrNttPip(batch, wr, x, sl[x].ba, kind), sl, rd, wr)
<1>1. \A cam, b : BaOrderList(cam, b) \in SUBSET Used(cam)
  BY DEF BaOrderList
<1>2. \A cam : IsBaListAvail(cam, sl[x].ba) => BaOrderList(cam, sl[x].ba) # {}
  BY DEF IsBaListAvail
<1>3. ASSUME IsBaListAvail(rd, sl[x].ba)
      PROVE  Updates(UpdateRdNttPip(batch, rd, x, sl[x].ba, kind), sl, rd, wr)
  <2> DEFINE i == GetSelectedRdCamIndex(rd, BaOrderList(rd, sl[x].ba), "LPR" \in critical)
  <2>1. i \in BaOrderList(rd, sl[x].ba)
    <3>1. ("LPR" \in critical) \in BOOLEAN
      OBVIOUS
    <3>2. BaOrderList(rd, sl[x].ba) \in SUBSET Used(rd) /\ BaOrderList(rd, sl[x].ba) # {}
      BY <1>1, <1>2, <1>3
    <3>3. QED
      BY <3>1, <3>2, SelectedRdIn, Zenon
  <2>2. UpdateRdNttPip(batch, rd, x, sl[x].ba, kind) = Recorded(batch, TRUE, x, kind, i)
    BY <1>3, Zenon DEF UpdateRdNttPip
  <2> HIDE DEF i
  <2>3. ASSUME NEW u \in Recorded(batch, TRUE, x, kind, i)
        PROVE  /\ u.bsc \in Bsc /\ sl[u.bsc].ba # NoBank /\ u.is_rd \in BOOLEAN
               /\ u.index \in BaOrderList(CamOfUpdate(u, rd, wr), sl[u.bsc].ba)
    <3>1. CASE u \in batch
      BY <3>1 DEF Updates
    <3>2. CASE u = [is_rd |-> TRUE, bsc |-> x, kind |-> kind, index |-> i]
      BY <2>1, <3>2 DEF CamOfUpdate
    <3>3. QED
      BY <3>1, <3>2, RecordedIn
  <2>4. QED
    BY <2>2, <2>3 DEF Updates
<1>4. ASSUME IsBaListAvail(wr, sl[x].ba)
      PROVE  Updates(UpdateWrNttPip(batch, wr, x, sl[x].ba, kind), sl, rd, wr)
  <2> DEFINE i == GetSelectedWrCamIndex(wr, BaOrderList(wr, sl[x].ba))
  <2>1. i \in BaOrderList(wr, sl[x].ba)
    BY <1>1, <1>2, <1>4, SelectedWrIn
  <2>2. UpdateWrNttPip(batch, wr, x, sl[x].ba, kind) = Recorded(batch, FALSE, x, kind, i)
    BY <1>4, Zenon DEF UpdateWrNttPip
  <2> HIDE DEF i
  <2>3. ASSUME NEW u \in Recorded(batch, FALSE, x, kind, i)
        PROVE  /\ u.bsc \in Bsc /\ sl[u.bsc].ba # NoBank /\ u.is_rd \in BOOLEAN
               /\ u.index \in BaOrderList(CamOfUpdate(u, rd, wr), sl[u.bsc].ba)
    <3>1. CASE u \in batch
      BY <3>1 DEF Updates
    <3>2. CASE u = [is_rd |-> FALSE, bsc |-> x, kind |-> kind, index |-> i]
      BY <2>1, <3>2 DEF CamOfUpdate
    <3>3. QED
      BY <3>1, <3>2, RecordedIn
  <2>4. QED
    BY <2>2, <2>3 DEF Updates
<1>5. QED
  BY <1>3, <1>4 DEF UpdateRdNttPip, UpdateWrNttPip

(* More commands in the lists leave candidates and updates valid. *)
LEMMA GrownLists ==
  ASSUME NEW sl, NEW batch, NEW rd, NEW wr, NEW rd2, NEW wr2,
         Candidates(sl, rd, wr), Updates(batch, sl, rd, wr),
         \A b : BaOrderList(rd, b) \subseteq BaOrderList(rd2, b),
         \A b : BaOrderList(wr, b) \subseteq BaOrderList(wr2, b)
  PROVE  Candidates(sl, rd2, wr2) /\ Updates(batch, sl, rd2, wr2)
<1>1. Candidates(sl, rd2, wr2)
  BY DEF Candidates
<1>2. Updates(batch, sl, rd2, wr2)
  BY DEF Updates, CamOfUpdate
<1>3. QED
  BY <1>1, <1>2

(* An update of a command that is no longer stored is ignored; any other names a
   command of the bank. *)
StillGood(batch, sl, rd, wr) ==
  \A u \in batch :
    /\ u.bsc \in Bsc /\ u.is_rd \in BOOLEAN
    /\ IsCamExist(CamOfUpdate(u, rd, wr), u.index)
         => u.index \in BaOrderList(CamOfUpdate(u, rd, wr), sl[u.bsc].ba)

LEMMA NttUpdateInv ==
  ASSUME NEW sl \in [Bsc -> Slice], NEW batch, NEW rd, NEW wr,
         Candidates(sl, rd, wr), StillGood(batch, sl, rd, wr)
  PROVE  /\ SamePages(sl, NttUpdate(sl, batch, rd, wr))
         /\ Candidates(NttUpdate(sl, batch, rd, wr), rd, wr)
<1> DEFINE Stored(x, is_rd, cam) ==
             {i \in {u.index : u \in {u \in batch : u.bsc = x /\ u.is_rd = is_rd}} : IsCamExist(cam, i)}
           New(x, is_rd, cam, old) ==
             IF Stored(x, is_rd, cam) = {} THEN old ELSE CHOOSE i \in Stored(x, is_rd, cam) : TRUE
           t == NttUpdate(sl, batch, rd, wr)
<1>1. t = [x \in Bsc |-> [sl[x] EXCEPT !.rd = New(x, TRUE, rd, @), !.wr = New(x, FALSE, wr, @)]]
  BY Zenon DEF NttUpdate
<1>2. ASSUME NEW x \in Bsc
      PROVE  /\ New(x, TRUE, rd, sl[x].rd) = sl[x].rd
                \/ New(x, TRUE, rd, sl[x].rd) \in BaOrderList(rd, sl[x].ba)
             /\ New(x, FALSE, wr, sl[x].wr) = sl[x].wr
                \/ New(x, FALSE, wr, sl[x].wr) \in BaOrderList(wr, sl[x].ba)
  <2>1. ASSUME NEW i \in Stored(x, TRUE, rd) PROVE i \in BaOrderList(rd, sl[x].ba)
    <3>1. PICK u \in batch : u.bsc = x /\ u.is_rd = TRUE /\ u.index = i /\ IsCamExist(rd, i)
      BY <2>1
    <3>2. QED
      BY <3>1 DEF StillGood, CamOfUpdate
  <2>2. ASSUME NEW i \in Stored(x, FALSE, wr) PROVE i \in BaOrderList(wr, sl[x].ba)
    <3>1. PICK u \in batch : u.bsc = x /\ u.is_rd = FALSE /\ u.index = i /\ IsCamExist(wr, i)
      BY <2>2
    <3>2. QED
      BY <3>1 DEF StillGood, CamOfUpdate
  <2> HIDE DEF Stored
  <2>3. QED
    BY <2>1, <2>2
<1>3. \A cam, b : BaOrderList(cam, b) \subseteq CamIndex
  BY DEF BaOrderList, Used
<1>4. ASSUME NEW x \in Bsc
      PROVE  /\ t[x] \in Slice /\ t[x].ba = sl[x].ba /\ t[x].page = sl[x].page
             /\ t[x].rd = New(x, TRUE, rd, sl[x].rd) /\ t[x].wr = New(x, FALSE, wr, sl[x].wr)
  <2>1. sl[x] \in Slice
    OBVIOUS
  <2>2. PICK v, w : v = New(x, TRUE, rd, sl[x].rd) /\ w = New(x, FALSE, wr, sl[x].wr)
    OBVIOUS
  <2>3. t[x] = [sl[x] EXCEPT !.rd = v, !.wr = w]
    BY <1>1, <2>2, Zenon
  <2> HIDE DEF New, t
  <2>4. v \in CamIndex \union {NoEntry} /\ w \in CamIndex \union {NoEntry}
    BY <1>2, <1>3, <2>1, <2>2 DEF Slice
  <2>5. QED
    BY <2>1, <2>2, <2>3, <2>4 DEF Slice
<1>5. t \in [Bsc -> Slice]
  <2>1. t = [x \in Bsc |-> t[x]]
    BY <1>1, Zenon
  <2> HIDE DEF t
  <2>2. QED
    BY <1>4, <2>1
<1> HIDE DEF New, t
<1>6. SamePages(sl, t)
  BY <1>4, <1>5 DEF SamePages
<1>7. Candidates(t, rd, wr)
  BY <1>2, <1>4 DEF Candidates
<1>8. QED
  BY <1>6, <1>7 DEF t

-----------------------------------------------------------------------------
(* CmdSend *)

LEMMA NextCommandFacts ==
  ASSUME NEW s, NEW cam
  PROVE  /\ LET type == NextRdCommand(s, cam)
            IN  /\ type \in {"NOP", "ACT", "PRE", "RD", "RDA"}
                /\ type # "NOP" => s.rd # NoEntry
                /\ type = "ACT" => s.page = Closed
                /\ type \in {"RD", "RDA"} => s.page # Closed /\ cam.store[s.rd].row = s.page
         /\ LET type == NextWrCommand(s, cam)
            IN  /\ type \in {"NOP", "ACT", "PRE", "WR", "WRA"}
                /\ type # "NOP" => s.wr # NoEntry
                /\ type = "ACT" => s.page = Closed
                /\ type \in {"WR", "WRA"} => s.page # Closed /\ cam.store[s.wr].row = s.page
BY DEF NextRdCommand, NextWrCommand, NextCommand, IsPageOpen

(* The commands a slice offers, with the CAM they are looked up in. *)
LEMMA ReadyIs ==
  ASSUME ModeInv, NEW x, NEW c \in ReadyCommands(x)
  PROVE  /\ c.type # "NOP"
         /\ \/ c = [type |-> NextRdCommand(slices[x], rd_cam), index |-> slices[x].rd,
                    ba |-> slices[x].ba, is_rd |-> TRUE]
            \/ c = [type |-> NextWrCommand(slices[x], wr_cam), index |-> slices[x].wr,
                    ba |-> slices[x].ba, is_rd |-> FALSE]
            \/ /\ c = [type |-> NextRdCommand(slices[x], rd_cam), index |-> slices[x].rd,
                       ba |-> slices[x].ba, is_rd |-> FALSE]
               /\ c.type \in RowCommands /\ mode.current_state = "Wr2Rd"
<1> DEFINE R(tag) == [type |-> NextRdCommand(slices[x], rd_cam), index |-> slices[x].rd,
                      ba |-> slices[x].ba, is_rd |-> tag]
           W == [type |-> NextWrCommand(slices[x], wr_cam), index |-> slices[x].wr,
                 ba |-> slices[x].ba, is_rd |-> FALSE]
           Of(d, types) == IF d.type \in types THEN {d} ELSE {}
           commands == CASE mode.current_state = "Rd"    -> {R(TRUE)}
                         [] mode.current_state = "Rd2Wr" -> Of(R(TRUE), ColCommands) \union Of(W, RowCommands)
                         [] mode.current_state = "Wr"    -> {W}
                         [] mode.current_state = "Wr2Rd" -> Of(R(FALSE), RowCommands) \union Of(W, ColCommands)
<1>1. ReadyCommands(x) = InTime(slices[x], commands)
  BY Zenon DEF ReadyCommands, GetAvailCommand
<1>2. c \in commands /\ c.type # "NOP"
  BY <1>1, Zenon DEF InTime
<1>3. mode.current_state \in {"Rd", "Rd2Wr", "Wr", "Wr2Rd"}
  BY DEF ModeInv, ModeConsistent, Mode
<1> HIDE DEF R, W
<1>4. \A d, types : Of(d, types) \subseteq {d} /\ \A f \in Of(d, types) : f.type \in types
  OBVIOUS
<1>5. c = R(TRUE) \/ c = W \/ (c = R(FALSE) /\ c.type \in RowCommands /\ mode.current_state = "Wr2Rd")
  <2> HIDE DEF Of
  <2>1. CASE mode.current_state = "Rd"
    BY <1>2, <2>1
  <2>2. CASE mode.current_state = "Rd2Wr"
    BY <1>2, <1>4, <2>2
  <2>3. CASE mode.current_state = "Wr"
    BY <1>2, <2>3
  <2>4. CASE mode.current_state = "Wr2Rd"
    BY <1>2, <1>4, <2>4
  <2>5. QED
    BY <1>3, <2>1, <2>2, <2>3, <2>4
<1>6. QED
  BY <1>2, <1>5 DEF R, W

(* What holds of a command that is offered; only in Wr2Rd may a row command be
   looked up in the other CAM. *)
LEMMA ReadyCommand ==
  ASSUME ModeInv, Candidates(slices, rd_cam, wr_cam), NEW x \in Bsc, slices[x].ba # NoBank,
         NEW c \in ReadyCommands(x)
  PROVE  /\ c.ba = slices[x].ba /\ c.is_rd \in BOOLEAN
         /\ c.type \in RowCommands \union ColCommands
         /\ c.type = "ACT" => slices[x].page = Closed
         /\ c.type \in ColCommands =>
              /\ c.type \in IF c.is_rd THEN {"RD", "RDA"} ELSE {"WR", "WRA"}
              /\ c.index = IF c.is_rd THEN slices[x].rd ELSE slices[x].wr
              /\ CamOf(c).store[c.index].row = slices[x].page /\ slices[x].page # Closed
         /\ c.type \in ColCommands \/ mode.current_state # "Wr2Rd" =>
              c.index \in BaOrderList(CamOf(c), c.ba)
<1> DEFINE rdType == NextRdCommand(slices[x], rd_cam)
           wrType == NextWrCommand(slices[x], wr_cam)
<1>1. /\ rdType \in {"NOP", "ACT", "PRE", "RD", "RDA"}
      /\ rdType # "NOP" => slices[x].rd # NoEntry
      /\ rdType = "ACT" => slices[x].page = Closed
      /\ rdType \in {"RD", "RDA"} =>
           slices[x].page # Closed /\ rd_cam.store[slices[x].rd].row = slices[x].page
      /\ wrType \in {"NOP", "ACT", "PRE", "WR", "WRA"}
      /\ wrType # "NOP" => slices[x].wr # NoEntry
      /\ wrType = "ACT" => slices[x].page = Closed
      /\ wrType \in {"WR", "WRA"} =>
           slices[x].page # Closed /\ wr_cam.store[slices[x].wr].row = slices[x].page
  BY NextCommandFacts, Zenon
<1>2. /\ slices[x].rd # NoEntry => slices[x].rd \in BaOrderList(rd_cam, slices[x].ba)
      /\ slices[x].wr # NoEntry => slices[x].wr \in BaOrderList(wr_cam, slices[x].ba)
  BY DEF Candidates
<1>3. /\ c.type # "NOP"
      /\ \/ c = [type |-> rdType, index |-> slices[x].rd, ba |-> slices[x].ba, is_rd |-> TRUE]
         \/ c = [type |-> wrType, index |-> slices[x].wr, ba |-> slices[x].ba, is_rd |-> FALSE]
         \/ /\ c = [type |-> rdType, index |-> slices[x].rd, ba |-> slices[x].ba, is_rd |-> FALSE]
            /\ c.type \in RowCommands /\ mode.current_state = "Wr2Rd"
  BY ReadyIs, Zenon
<1> HIDE DEF rdType, wrType
<1>4. CASE c = [type |-> rdType, index |-> slices[x].rd, ba |-> slices[x].ba, is_rd |-> TRUE]
  <2>1. /\ c.type = rdType /\ c.index = slices[x].rd /\ c.ba = slices[x].ba /\ c.is_rd = TRUE
        /\ CamOf(c) = rd_cam
    BY <1>4 DEF CamOf
  <2>2. QED
    BY <1>1, <1>2, <1>3, <2>1 DEF RowCommands, ColCommands
<1>5. CASE c = [type |-> wrType, index |-> slices[x].wr, ba |-> slices[x].ba, is_rd |-> FALSE]
  <2>1. /\ c.type = wrType /\ c.index = slices[x].wr /\ c.ba = slices[x].ba /\ c.is_rd = FALSE
        /\ CamOf(c) = wr_cam
    BY <1>5 DEF CamOf
  <2>2. QED
    BY <1>1, <1>2, <1>3, <2>1 DEF RowCommands, ColCommands
<1>6. CASE /\ c = [type |-> rdType, index |-> slices[x].rd, ba |-> slices[x].ba, is_rd |-> FALSE]
           /\ c.type \in RowCommands /\ mode.current_state = "Wr2Rd"
  <2>1. c.type = rdType /\ c.ba = slices[x].ba /\ c.is_rd = FALSE
    BY <1>6
  <2>2. QED
    BY <1>1, <1>6, <2>1 DEF RowCommands, ColCommands
<1>7. QED
  BY <1>3, <1>4, <1>5, <1>6

(* A CAM after a command: `own' when the command takes its entry out. *)
Hits(cam, c, e) == CASE c.type = "ACT" -> SetBaPageHit(cam, c.ba, e.row)
                     [] c.type = "PRE" -> SetBaPageClose(cam, c.ba)
                     [] c.type \in ColCommands -> cam
After(cam, own, c, e) == IF own THEN DeleteCamEntry(cam, c.index) ELSE Hits(cam, c, e)

(* The entries that are left keep what they are, and the marks of their pages fit. *)
AfterMarks(cam, new, c, e) ==
  \A i \in Used(new) :
    LET f == new.store[i]
        g == cam.store[i]
    IN  /\ f.ba = g.ba /\ f.row = g.row /\ f.alloc = g.alloc
        /\ g.ba # c.ba \/ c.type \in ColCommands => f.hit = g.hit
        /\ g.ba = c.ba /\ c.type = "ACT" => (f.hit <=> g.row = e.row)

LEMMA AfterCam ==
  ASSUME NEW E \in {RdEntry, WrEntry}, NEW cam, CamInv(cam, E), NEW own \in BOOLEAN,
         NEW c, c.type \in RowCommands \union ColCommands, NEW e,
         own => c.type \in ColCommands /\ c.index \in Used(cam)
  PROVE  /\ CamInv(After(cam, own, c, e), E)
         /\ Used(After(cam, own, c, e)) = IF own THEN Used(cam) \ {c.index} ELSE Used(cam)
         /\ AfterMarks(cam, After(cam, own, c, e), c, e)
<1> DEFINE new == After(cam, own, c, e)
<1>1. c.type = "ACT" \/ c.type = "PRE" \/ c.type \in ColCommands
  BY DEF RowCommands
<1>2. CASE own
  <2>1. new = DeleteCamEntry(cam, c.index)
    BY <1>2 DEF After
  <2>2. c.index \in Used(cam) /\ c.type \in ColCommands
    BY <1>2
  <2>3. /\ CamInv(new, E) /\ Used(new) = Used(cam) \ {c.index}
        /\ new.store = [cam.store EXCEPT ![c.index] = NoEntry]
    BY <2>1, <2>2, DeleteCamEntryCam
  <2>4. \A i \in Used(new) : new.store[i] = cam.store[i]
    BY <2>3 DEF CamInv, Used
  <2>5. c.type # "ACT"
    BY <2>2 DEF ColCommands
  <2> HIDE DEF new
  <2>6. AfterMarks(cam, new, c, e)
    BY <2>4, <2>5 DEF AfterMarks
  <2>7. QED
    BY <1>2, <2>3, <2>6 DEF new
<1>3. CASE ~own /\ c.type \in ColCommands
  <2>1. new = cam /\ c.type # "ACT" /\ c.type # "PRE"
    BY <1>3 DEF After, Hits, ColCommands
  <2>2. AfterMarks(cam, cam, c, e)
    BY <2>1 DEF AfterMarks
  <2>3. QED
    BY <1>3, <2>1, <2>2
<1>4. CASE ~own /\ c.type = "ACT"
  <2>1. new = SetBaPageHit(cam, c.ba, e.row)
    BY <1>4 DEF After, Hits, ColCommands
  <2>2. Remarked(cam, new) /\ HitMarks(cam, new, c.ba, e.row)
    BY <2>1, PageMarks, Zenon
  <2> HIDE DEF new
  <2>3. CamInv(new, E) /\ Used(new) = Used(cam)
    BY <2>2, RemarkedCam
  <2>4. ASSUME NEW i \in Used(cam)
        PROVE  /\ new.store[i].ba = cam.store[i].ba /\ new.store[i].row = cam.store[i].row
               /\ new.store[i].alloc = cam.store[i].alloc
               /\ cam.store[i].ba # c.ba => new.store[i].hit = cam.store[i].hit
               /\ cam.store[i].ba = c.ba => (new.store[i].hit <=> cam.store[i].row = e.row)
    <3>1. /\ new.store[i].ba = cam.store[i].ba /\ new.store[i].row = cam.store[i].row
      BY <2>2, RemarkedCam
    <3>2. QED
      BY <2>2, <3>1 DEF HitMarks
  <2>5. c.type \notin ColCommands
    BY <1>4 DEF ColCommands
  <2>6. AfterMarks(cam, new, c, e)
    BY <1>4, <2>3, <2>4, <2>5 DEF AfterMarks
  <2>7. QED
    BY <1>4, <2>3, <2>6 DEF new
<1>5. CASE ~own /\ c.type = "PRE"
  <2>1. new = SetBaPageClose(cam, c.ba)
    BY <1>5 DEF After, Hits, ColCommands
  <2>2. Remarked(cam, new) /\ CloseMarks(cam, new, c.ba)
    BY <2>1, PageMarks, Zenon
  <2> HIDE DEF new
  <2>3. CamInv(new, E) /\ Used(new) = Used(cam)
    BY <2>2, RemarkedCam
  <2>4. ASSUME NEW i \in Used(cam)
        PROVE  /\ new.store[i].ba = cam.store[i].ba /\ new.store[i].row = cam.store[i].row
               /\ new.store[i].alloc = cam.store[i].alloc
               /\ cam.store[i].ba # c.ba => new.store[i].hit = cam.store[i].hit
    <3>1. /\ new.store[i].ba = cam.store[i].ba /\ new.store[i].row = cam.store[i].row
      BY <2>2, RemarkedCam
    <3>2. QED
      BY <2>2, <3>1 DEF CloseMarks
  <2>5. c.type \notin ColCommands /\ c.type # "ACT"
    BY <1>5 DEF ColCommands
  <2>6. AfterMarks(cam, new, c, e)
    BY <1>5, <2>3, <2>4, <2>5 DEF AfterMarks
  <2>7. QED
    BY <1>5, <2>3, <2>6 DEF new
<1>6. QED
  BY <1>1, <1>2, <1>3, <1>4, <1>5

(* The marks after a change of one slice's page. *)
LEMMA MarksAfter ==
  ASSUME NEW sl, NEW tbl, Tables(sl, tbl), NEW E \in {RdEntry, WrEntry},
         NEW cam, CamInv(cam, E), Marks(cam, sl, tbl),
         NEW x \in Bsc, sl[x].ba # NoBank,
         NEW t \in [Bsc -> Slice], \A y \in Bsc : t[y].ba = sl[y].ba,
         \A y \in Bsc \ {x} : t[y].page = sl[y].page,
         NEW new, Used(new) \subseteq Used(cam),
         \A i \in Used(new) :
           LET f == new.store[i]
               g == cam.store[i]
           IN  /\ f.ba = g.ba /\ f.row = g.row /\ f.alloc = g.alloc
               /\ g.ba # sl[x].ba => f.hit = g.hit
               /\ g.ba = sl[x].ba /\ t[x].page # Closed => (f.hit <=> g.row = t[x].page)
  PROVE  Marks(new, t, tbl)
<1> SUFFICES ASSUME NEW i \in Used(new)
             PROVE  /\ new.store[i].alloc <=> tbl[new.store[i].ba] # NoBsc
                    /\ tbl[new.store[i].ba] # NoBsc /\ t[tbl[new.store[i].ba]].page # Closed
                         => (new.store[i].hit <=> new.store[i].row = t[tbl[new.store[i].ba]].page)
  BY DEF Marks, MarkOK
<1> DEFINE f == new.store[i]
           g == cam.store[i]
           y == tbl[g.ba]
<1>1. i \in Used(cam) /\ g \in E
  BY DEF CamInv, Used
<1>2. g.ba \in Bank /\ f.ba = g.ba /\ f.row = g.row /\ f.alloc = g.alloc
  BY <1>1, EntryUpdate
<1>3. g.alloc <=> y # NoBsc
  BY <1>1 DEF Marks, MarkOK
<1>4. CASE g.ba = sl[x].ba
  <2>1. y = x
    BY <1>4 DEF Tables
  <2>2. QED
    BY <1>2, <1>3, <1>4, <2>1
<1>5. CASE g.ba # sl[x].ba
  <2>1. y # NoBsc => y \in Bsc \ {x}
    BY <1>2, <1>5 DEF Tables
  <2>2. y # NoBsc => t[y].page = sl[y].page
    BY <2>1
  <2>3. y # NoBsc /\ sl[y].page # Closed => (g.hit <=> g.row = sl[y].page)
    BY <1>1 DEF Marks, MarkOK
  <2>4. f.hit = g.hit
    BY <1>5
  <2>5. QED
    BY <1>2, <1>3, <2>2, <2>3, <2>4
<1>6. QED
  BY <1>4, <1>5

(* What is left of the updates when commands are taken out. *)
LEMMA ShrunkStillGood ==
  ASSUME NEW sl, NEW t, NEW batch, NEW rd, NEW wr, NEW rd2, NEW wr2,
         Updates(batch, sl, rd, wr), \A y \in Bsc : t[y].ba = sl[y].ba,
         \A i \in Used(rd2) : i \in Used(rd) /\ rd2.store[i].ba = rd.store[i].ba,
         \A i \in Used(wr2) : i \in Used(wr) /\ wr2.store[i].ba = wr.store[i].ba
  PROVE  StillGood(batch, t, rd2, wr2)
<1> SUFFICES ASSUME NEW u \in batch
             PROVE  /\ u.bsc \in Bsc /\ u.is_rd \in BOOLEAN
                    /\ IsCamExist(CamOfUpdate(u, rd2, wr2), u.index)
                         => u.index \in BaOrderList(CamOfUpdate(u, rd2, wr2), t[u.bsc].ba)
  BY DEF StillGood
<1>1. /\ u.bsc \in Bsc /\ u.is_rd \in BOOLEAN
      /\ u.index \in BaOrderList(CamOfUpdate(u, rd, wr), t[u.bsc].ba)
  BY DEF Updates
<1>2. CASE u.is_rd
  BY <1>1, <1>2 DEF CamOfUpdate, IsCamExist, BaOrderList, Used
<1>3. CASE ~u.is_rd
  BY <1>1, <1>3 DEF CamOfUpdate, IsCamExist, BaOrderList, Used
<1>4. QED
  BY <1>1, <1>2, <1>3

(* What CmdSend leaves is consistent if what it hands over to NttUpdate is. *)
LEMMA SentTables ==
  ASSUME NEW command, NEW sl \in [Bsc -> Slice], NEW rd, NEW wr, NEW batch,
         CamInv(rd, RdEntry), CamInv(wr, WrEntry), Tables(sl, ba2bsc),
         Marks(rd, sl, ba2bsc), Marks(wr, sl, ba2bsc),
         Candidates(sl, rd, wr), StillGood(ntt, sl, rd, wr), Updates(batch, sl, rd, wr),
         Sent(command, sl, rd, wr, batch)
  PROVE  SamePages(sl, slices') /\ TablesInv(slices', ba2bsc', rd_cam', wr_cam', ntt')
<1>1. /\ slices' = NttUpdate(sl, ntt, rd, wr) /\ ba2bsc' = ba2bsc
      /\ rd_cam' = rd /\ wr_cam' = wr /\ ntt' = batch
  BY Zenon DEF Sent
<1>2. SamePages(sl, slices') /\ Candidates(slices', rd, wr)
  BY <1>1, NttUpdateInv, Zenon
<1>3. /\ \A i \in Used(rd) : rd.store[i].ba \in Bank
      /\ \A i \in Used(wr) : wr.store[i].ba \in Bank
  BY EntryUpdate DEF CamInv, Used
<1>4. /\ Tables(slices', ba2bsc) /\ Marks(rd, slices', ba2bsc) /\ Marks(wr, slices', ba2bsc)
      /\ Updates(batch, slices', rd, wr)
  BY <1>2, <1>3, SamePagesKeep, Zenon
<1>5. QED
  BY <1>1, <1>2, <1>4, Zenon DEF TablesInv

(* A step that sends no command to a bank takes no entry out. *)
LEMMA QuietTables ==
  ASSUME TablesInv(slices, ba2bsc, rd_cam, wr_cam, ntt), NEW command, NEW sl,
         SamePages(slices, sl), SameCandidates(slices, sl),
         Sent(command, sl, rd_cam, wr_cam, {})
  PROVE  SamePages(slices, slices') /\ TablesInv(slices', ba2bsc', rd_cam', wr_cam', ntt')
<1>1. TablesInv(sl, ba2bsc, rd_cam, wr_cam, ntt)
  BY SamePagesInv, Zenon
<1>2. sl \in [Bsc -> Slice]
  BY DEF SamePages
<1>3. StillGood(ntt, sl, rd_cam, wr_cam)
  <2>1. Updates(ntt, sl, rd_cam, wr_cam)
    BY <1>1 DEF TablesInv
  <2>2. QED
    BY <2>1 DEF Updates, StillGood
<1>4. Updates({}, sl, rd_cam, wr_cam)
  BY DEF Updates
<1>5. SamePages(sl, slices') /\ TablesInv(slices', ba2bsc', rd_cam', wr_cam', ntt')
  BY <1>1, <1>2, <1>3, <1>4, SentTables, Zenon DEF TablesInv
<1>6. SamePages(slices, slices')
  BY <1>5 DEF SamePages
<1>7. QED
  BY <1>5, <1>6

(* SendBankCommand, with its intermediate values named. *)
SentFor(x, c, e, rd, wr, batch) ==
  /\ IsCamExist(CamOf(c), c.index) /\ e = CamOf(c).store[c.index]
  /\ rd = After(rd_cam, c.type \in ColCommands /\ c.is_rd, c, e)
  /\ wr = After(wr_cam, c.type \in ColCommands /\ ~c.is_rd, c, e)
  /\ \E kind : \E b \in {{}, UpdateWrNttPip({}, wr, x, c.ba, kind)} :
       batch \in {b, UpdateRdNttPip(b, rd, x, c.ba, kind)}
  /\ Sent([type |-> c.type, ba |-> e.ba, row |-> e.row],
          [slices EXCEPT ![x] = Update(@, c.type, e.row)], rd, wr, batch)

LEMMA BankCommandIs ==
  ASSUME NEW x \in Bsc, SendBankCommand(x)
  PROVE  /\ slices[x].ba # NoBank /\ UNCHANGED refresh
         /\ \E c \in ReadyCommands(x) : \E e, rd, wr, batch : SentFor(x, c, e, rd, wr, batch)
<1> DEFINE e(c) == CamOf(c).store[c.index]
           rd(c) == IF c.type \in ColCommands /\ c.is_rd THEN DeleteCamEntry(rd_cam, c.index)
                                                        ELSE Hits(rd_cam, c, e(c))
           wr(c) == IF c.type \in ColCommands /\ ~c.is_rd THEN DeleteCamEntry(wr_cam, c.index)
                                                         ELSE Hits(wr_cam, c, e(c))
           kind(c) == IF c.type \in ColCommands THEN "CmdExe" ELSE "Pre_Act"
           updates_rd(c) == \/ c.type = "PRE" \/ (c.type = "ACT" /\ ~c.is_rd)
                            \/ (c.type \in ColCommands /\ c.is_rd)
           updates_wr(c) == \/ c.type = "PRE" \/ (c.type = "ACT" /\ c.is_rd)
                            \/ (c.type \in ColCommands /\ ~c.is_rd)
           b(c) == IF updates_wr(c) THEN UpdateWrNttPip({}, wr(c), x, c.ba, kind(c)) ELSE {}
           batch(c) == IF updates_rd(c) THEN UpdateRdNttPip(b(c), rd(c), x, c.ba, kind(c)) ELSE b(c)
<1>1. PICK c \in ReadyCommands(x) :
        /\ IsCamExist(CamOf(c), c.index)
        /\ Sent([type |-> c.type, ba |-> e(c).ba, row |-> e(c).row],
                [slices EXCEPT ![x] = Update(@, c.type, e(c).row)], rd(c), wr(c), batch(c))
  BY ZenonT(60) DEF SendBankCommand, Hits
<1>2. rd(c) = After(rd_cam, c.type \in ColCommands /\ c.is_rd, c, e(c))
      /\ wr(c) = After(wr_cam, c.type \in ColCommands /\ ~c.is_rd, c, e(c))
  BY Zenon DEF After
<1>3. b(c) \in {{}, UpdateWrNttPip({}, wr(c), x, c.ba, kind(c))}
      /\ batch(c) \in {b(c), UpdateRdNttPip(b(c), rd(c), x, c.ba, kind(c))}
  <2> HIDE DEF rd, wr, kind, updates_rd, updates_wr
  <2>1. QED
    BY Zenon
<1> HIDE DEF e, rd, wr, b, batch, kind
<1>4. SentFor(x, c, e(c), rd(c), wr(c), batch(c))
  BY <1>1, <1>2, <1>3, Zenon DEF SentFor, e
<1>5. slices[x].ba # NoBank /\ UNCHANGED refresh
  BY Zenon DEF SendBankCommand, Allocated, AllocatedIn
<1>6. QED
  BY <1>4, <1>5

(* What is known of the parts of such a step. *)
LEMMA BankCommandParts ==
  ASSUME ModeInv, TablesInv(slices, ba2bsc, rd_cam, wr_cam, ntt),
         NEW x \in Bsc, slices[x].ba # NoBank, NEW c \in ReadyCommands(x),
         NEW e, NEW rd, NEW wr, NEW batch, SentFor(x, c, e, rd, wr, batch)
  PROVE  /\ CamInv(rd, RdEntry) /\ CamInv(wr, WrEntry) /\ e.row \in Row /\ e.ba \in Bank
         /\ Used(rd) = IF c.type \in ColCommands /\ c.is_rd THEN Used(rd_cam) \ {c.index} ELSE Used(rd_cam)
         /\ Used(wr) = IF c.type \in ColCommands /\ ~c.is_rd THEN Used(wr_cam) \ {c.index} ELSE Used(wr_cam)
         /\ AfterMarks(rd_cam, rd, c, e)
         /\ AfterMarks(wr_cam, wr, c, e)
<1>1. CamInv(rd_cam, RdEntry) /\ CamInv(wr_cam, WrEntry) /\ Candidates(slices, rd_cam, wr_cam)
  BY DEF TablesInv
<1>2. /\ c.ba = slices[x].ba /\ c.is_rd \in BOOLEAN /\ c.type \in RowCommands \union ColCommands
      /\ c.type \in ColCommands => c.index \in BaOrderList(CamOf(c), c.ba)
  BY <1>1, ReadyCommand
<1>3. /\ IsCamExist(CamOf(c), c.index) /\ e = CamOf(c).store[c.index]
      /\ rd = After(rd_cam, c.type \in ColCommands /\ c.is_rd, c, e)
      /\ wr = After(wr_cam, c.type \in ColCommands /\ ~c.is_rd, c, e)
  BY DEF SentFor
<1>4. e.row \in Row /\ e.ba \in Bank
  <2>1. e \in RdEntry \/ e \in WrEntry
    BY <1>1, <1>3 DEF IsCamExist, CamOf, CamInv
  <2>2. QED
    BY <2>1, EntryUpdate
<1> DEFINE own_rd == c.type \in ColCommands /\ c.is_rd
           own_wr == c.type \in ColCommands /\ ~c.is_rd
<1>5. /\ own_rd \in BOOLEAN /\ own_wr \in BOOLEAN
      /\ own_rd => c.type \in ColCommands /\ c.index \in Used(rd_cam)
      /\ own_wr => c.type \in ColCommands /\ c.index \in Used(wr_cam)
  BY <1>2 DEF CamOf, BaOrderList
<1>6. rd = After(rd_cam, own_rd, c, e) /\ wr = After(wr_cam, own_wr, c, e)
  BY <1>3
<1> HIDE DEF own_rd, own_wr
<1>7. /\ CamInv(rd, RdEntry)
      /\ Used(rd) = IF own_rd THEN Used(rd_cam) \ {c.index} ELSE Used(rd_cam)
      /\ AfterMarks(rd_cam, rd, c, e)
  <2>1. RdEntry \in {RdEntry, WrEntry} /\ CamInv(rd_cam, RdEntry)
    BY <1>1
  <2>2. own_rd \in BOOLEAN /\ (own_rd => c.type \in ColCommands /\ c.index \in Used(rd_cam))
        /\ c.type \in RowCommands \union ColCommands
    BY <1>2, <1>5
  <2>3. /\ CamInv(After(rd_cam, own_rd, c, e), RdEntry)
        /\ Used(After(rd_cam, own_rd, c, e)) =
             IF own_rd THEN Used(rd_cam) \ {c.index} ELSE Used(rd_cam)
        /\ AfterMarks(rd_cam, After(rd_cam, own_rd, c, e), c, e)
    BY <2>1, <2>2, AfterCam
  <2>4. QED
    BY <1>6, <2>3
<1>8. /\ CamInv(wr, WrEntry)
      /\ Used(wr) = IF own_wr THEN Used(wr_cam) \ {c.index} ELSE Used(wr_cam)
      /\ AfterMarks(wr_cam, wr, c, e)
  <2>1. WrEntry \in {RdEntry, WrEntry} /\ CamInv(wr_cam, WrEntry)
    BY <1>1
  <2>2. own_wr \in BOOLEAN /\ (own_wr => c.type \in ColCommands /\ c.index \in Used(wr_cam))
        /\ c.type \in RowCommands \union ColCommands
    BY <1>2, <1>5
  <2>3. /\ CamInv(After(wr_cam, own_wr, c, e), WrEntry)
        /\ Used(After(wr_cam, own_wr, c, e)) =
             IF own_wr THEN Used(wr_cam) \ {c.index} ELSE Used(wr_cam)
        /\ AfterMarks(wr_cam, After(wr_cam, own_wr, c, e), c, e)
    BY <2>1, <2>2, AfterCam
  <2>4. QED
    BY <1>6, <2>3
<1>9. QED
  BY <1>4, <1>7, <1>8, Zenon DEF own_rd, own_wr

LEMMA BankCommandTables ==
  ASSUME ModeInv, TablesInv(slices, ba2bsc, rd_cam, wr_cam, ntt),
         NEW x \in Bsc, slices[x].ba # NoBank, NEW c \in ReadyCommands(x),
         NEW e, NEW rd, NEW wr, NEW batch, SentFor(x, c, e, rd, wr, batch)
  PROVE  /\ SamePages([slices EXCEPT ![x] = Update(@, c.type, e.row)], slices')
         /\ TablesInv(slices', ba2bsc', rd_cam', wr_cam', ntt')
<1> DEFINE u == Update(slices[x], c.type, e.row)
           sl == [slices EXCEPT ![x] = Update(@, c.type, e.row)]
<1>1. /\ CamInv(rd_cam, RdEntry) /\ CamInv(wr_cam, WrEntry) /\ Candidates(slices, rd_cam, wr_cam)
      /\ Tables(slices, ba2bsc) /\ Marks(rd_cam, slices, ba2bsc) /\ Marks(wr_cam, slices, ba2bsc)
      /\ Updates(ntt, slices, rd_cam, wr_cam)
  BY DEF TablesInv
<1>2. /\ c.ba = slices[x].ba /\ c.is_rd \in BOOLEAN /\ c.type \in RowCommands \union ColCommands
      /\ c.type \in ColCommands =>
           /\ c.type \in IF c.is_rd THEN {"RD", "RDA"} ELSE {"WR", "WRA"}
           /\ c.index = IF c.is_rd THEN slices[x].rd ELSE slices[x].wr
           /\ c.index \in BaOrderList(CamOf(c), c.ba)
  BY <1>1, ReadyCommand
<1>3. /\ CamInv(rd, RdEntry) /\ CamInv(wr, WrEntry) /\ e.row \in Row
      /\ Used(rd) = IF c.type \in ColCommands /\ c.is_rd THEN Used(rd_cam) \ {c.index} ELSE Used(rd_cam)
      /\ Used(wr) = IF c.type \in ColCommands /\ ~c.is_rd THEN Used(wr_cam) \ {c.index} ELSE Used(wr_cam)
  BY BankCommandParts, Zenon
<1>4. slices \in [Bsc -> Slice]
  BY <1>1 DEF Tables
<1>5. /\ u \in Slice /\ u.ba = slices[x].ba
      /\ u.page = IF c.type = "ACT" THEN e.row
                  ELSE IF c.type \in {"PRE", "RDA", "WRA"} THEN Closed ELSE slices[x].page
      /\ u.rd = IF c.type \in {"RD", "RDA"} THEN NoEntry ELSE slices[x].rd
      /\ u.wr = IF c.type \in {"WR", "WRA"} THEN NoEntry ELSE slices[x].wr
  BY <1>2, <1>3, <1>4, CommandUpdate
<1>6. \A y \in Bsc : sl[y] = IF y = x THEN u ELSE slices[y]
  BY <1>4
<1>7. sl \in [Bsc -> Slice]
  BY <1>4, <1>5
<1> HIDE DEF u, sl
<1>8. \A y \in Bsc : sl[y].ba = slices[y].ba
  BY <1>5, <1>6
<1>9. Tables(sl, ba2bsc)
  BY <1>1, <1>7, <1>8 DEF Tables
<1>10. sl[x].page # Closed =>
         (c.type = "ACT" /\ sl[x].page = e.row) \/ (c.type \in ColCommands /\ sl[x].page = slices[x].page)
  BY <1>2, <1>5, <1>6 DEF RowCommands, ColCommands
<1>11. /\ \A y \in Bsc \ {x} : sl[y].page = slices[y].page
       /\ Used(rd) \subseteq Used(rd_cam) /\ Used(wr) \subseteq Used(wr_cam)
  BY <1>3, <1>6
<1>12. ba2bsc[slices[x].ba] = x
  BY <1>1 DEF Tables
<1>13. Marks(rd, sl, ba2bsc)
  <2>1. ASSUME NEW i \in Used(rd)
        PROVE  /\ rd.store[i].ba = rd_cam.store[i].ba /\ rd.store[i].row = rd_cam.store[i].row
               /\ rd.store[i].alloc = rd_cam.store[i].alloc
               /\ rd_cam.store[i].ba # slices[x].ba => rd.store[i].hit = rd_cam.store[i].hit
               /\ rd_cam.store[i].ba = slices[x].ba /\ sl[x].page # Closed =>
                    (rd.store[i].hit <=> rd_cam.store[i].row = sl[x].page)
    <3>1. /\ rd.store[i].ba = rd_cam.store[i].ba /\ rd.store[i].row = rd_cam.store[i].row
          /\ rd.store[i].alloc = rd_cam.store[i].alloc
          /\ rd_cam.store[i].ba # c.ba \/ c.type \in ColCommands => rd.store[i].hit = rd_cam.store[i].hit
          /\ rd_cam.store[i].ba = c.ba /\ c.type = "ACT" => (rd.store[i].hit <=> rd_cam.store[i].row = e.row)
      <4>1. AfterMarks(rd_cam, rd, c, e)
        BY BankCommandParts, Zenon
      <4>2. QED
        BY <4>1 DEF AfterMarks
    <3>2. i \in Used(rd_cam)
      BY <1>11
    <3>3. rd_cam.store[i].ba = slices[x].ba /\ slices[x].page # Closed =>
            (rd_cam.store[i].hit <=> rd_cam.store[i].row = slices[x].page)
      <4>1. x # NoBsc
        BY ControllerAssumption
      <4>2. QED
        BY <1>1, <1>12, <3>2, <4>1 DEF Marks, MarkOK
    <3>4. QED
      BY <1>2, <1>10, <3>1, <3>3
  <2>2. QED
    BY <1>1, <1>7, <1>8, <1>11, <2>1, MarksAfter
<1>14. Marks(wr, sl, ba2bsc)
  <2>1. ASSUME NEW i \in Used(wr)
        PROVE  /\ wr.store[i].ba = wr_cam.store[i].ba /\ wr.store[i].row = wr_cam.store[i].row
               /\ wr.store[i].alloc = wr_cam.store[i].alloc
               /\ wr_cam.store[i].ba # slices[x].ba => wr.store[i].hit = wr_cam.store[i].hit
               /\ wr_cam.store[i].ba = slices[x].ba /\ sl[x].page # Closed =>
                    (wr.store[i].hit <=> wr_cam.store[i].row = sl[x].page)
    <3>1. /\ wr.store[i].ba = wr_cam.store[i].ba /\ wr.store[i].row = wr_cam.store[i].row
          /\ wr.store[i].alloc = wr_cam.store[i].alloc
          /\ wr_cam.store[i].ba # c.ba \/ c.type \in ColCommands => wr.store[i].hit = wr_cam.store[i].hit
          /\ wr_cam.store[i].ba = c.ba /\ c.type = "ACT" => (wr.store[i].hit <=> wr_cam.store[i].row = e.row)
      <4>1. AfterMarks(wr_cam, wr, c, e)
        BY BankCommandParts, Zenon
      <4>2. QED
        BY <4>1 DEF AfterMarks
    <3>2. i \in Used(wr_cam)
      BY <1>11
    <3>3. wr_cam.store[i].ba = slices[x].ba /\ slices[x].page # Closed =>
            (wr_cam.store[i].hit <=> wr_cam.store[i].row = slices[x].page)
      <4>1. x # NoBsc
        BY ControllerAssumption
      <4>2. QED
        BY <1>1, <1>12, <3>2, <4>1 DEF Marks, MarkOK
    <3>4. QED
      BY <1>2, <1>10, <3>1, <3>3
  <2>2. QED
    BY <1>1, <1>7, <1>8, <1>11, <2>1, MarksAfter
<1>15. /\ \A i \in Used(rd) : i \in Used(rd_cam) /\ rd.store[i].ba = rd_cam.store[i].ba
       /\ \A i \in Used(wr) : i \in Used(wr_cam) /\ wr.store[i].ba = wr_cam.store[i].ba
  <2>1. AfterMarks(rd_cam, rd, c, e) /\ AfterMarks(wr_cam, wr, c, e)
    BY BankCommandParts, Zenon
  <2>2. QED
    BY <1>11, <2>1 DEF AfterMarks
<1>16. StillGood(ntt, sl, rd, wr)
  BY <1>1, <1>8, <1>15, ShrunkStillGood
<1>17. Candidates(sl, rd, wr)
  <2>1. SUFFICES ASSUME NEW y \in Bsc, sl[y].ba # NoBank
                 PROVE  /\ sl[y].rd # NoEntry => sl[y].rd \in BaOrderList(rd, sl[y].ba)
                        /\ sl[y].wr # NoEntry => sl[y].wr \in BaOrderList(wr, sl[y].ba)
    BY DEF Candidates
  <2>2. /\ slices[y].rd # NoEntry => slices[y].rd \in BaOrderList(rd_cam, slices[y].ba)
        /\ slices[y].wr # NoEntry => slices[y].wr \in BaOrderList(wr_cam, slices[y].ba)
    BY <1>1, <1>8, <2>1 DEF Candidates
  <2>3. y # x => slices[y].ba # slices[x].ba
    BY <1>1, <1>8, <1>12, <2>1 DEF Tables
  <2>4. /\ \A i \in BaOrderList(rd_cam, slices[y].ba) : i \in Used(rd) => i \in BaOrderList(rd, slices[y].ba)
        /\ \A i \in BaOrderList(wr_cam, slices[y].ba) : i \in Used(wr) => i \in BaOrderList(wr, slices[y].ba)
    BY <1>15 DEF BaOrderList
  <2>5. /\ \A b, i : i \in BaOrderList(rd_cam, b) => i \in Used(rd_cam) /\ rd_cam.store[i].ba = b
        /\ \A b, i : i \in BaOrderList(wr_cam, b) => i \in Used(wr_cam) /\ wr_cam.store[i].ba = b
    BY DEF BaOrderList
  <2>6. sl[y].rd # NoEntry => sl[y].rd = slices[y].rd /\ slices[y].rd \in Used(rd)
    <3>1. CASE c.type \in ColCommands /\ c.is_rd
      <4>1. c.index \in BaOrderList(rd_cam, slices[x].ba) /\ c.type \in {"RD", "RDA"}
        BY <1>2, <3>1 DEF CamOf
      <4>2. y = x => sl[y].rd = NoEntry
        BY <1>5, <1>6, <4>1
      <4>3. QED
        BY <1>3, <1>6, <2>2, <2>3, <2>5, <3>1, <4>1, <4>2
    <3>2. CASE ~(c.type \in ColCommands /\ c.is_rd)
      <4>1. sl[y].rd # NoEntry => sl[y].rd = slices[y].rd
        BY <1>5, <1>6
      <4>2. Used(rd) = Used(rd_cam)
        BY <1>3, <3>2
      <4>3. QED
        BY <2>2, <2>5, <4>1, <4>2
    <3>3. QED
      BY <3>1, <3>2
  <2>7. sl[y].wr # NoEntry => sl[y].wr = slices[y].wr /\ slices[y].wr \in Used(wr)
    <3>1. CASE c.type \in ColCommands /\ ~c.is_rd
      <4>1. c.index \in BaOrderList(wr_cam, slices[x].ba) /\ c.type \in {"WR", "WRA"}
        BY <1>2, <3>1 DEF CamOf
      <4>2. y = x => sl[y].wr = NoEntry
        BY <1>5, <1>6, <4>1
      <4>3. QED
        BY <1>3, <1>6, <2>2, <2>3, <2>5, <3>1, <4>1, <4>2
    <3>2. CASE ~(c.type \in ColCommands /\ ~c.is_rd)
      <4>1. sl[y].wr # NoEntry => sl[y].wr = slices[y].wr
        BY <1>5, <1>6
      <4>2. Used(wr) = Used(wr_cam)
        BY <1>3, <3>2
      <4>3. QED
        BY <2>2, <2>5, <4>1, <4>2
    <3>3. QED
      BY <3>1, <3>2
  <2>8. QED
    BY <1>8, <2>1, <2>2, <2>4, <2>6, <2>7
<1>18. Updates(batch, sl, rd, wr)
  <2>1. sl[x].ba = c.ba /\ sl[x].ba # NoBank
    BY <1>2, <1>8
  <2>2. PICK kind : \E b \in {{}, UpdateWrNttPip({}, wr, x, c.ba, kind)} :
               batch \in {b, UpdateRdNttPip(b, rd, x, c.ba, kind)}
    BY Zenon DEF SentFor
  <2>3. PICK b \in {{}, UpdateWrNttPip({}, wr, x, c.ba, kind)} :
               batch \in {b, UpdateRdNttPip(b, rd, x, c.ba, kind)}
    BY <2>2
  <2>4. Updates({}, sl, rd, wr)
    BY DEF Updates
  <2>5. Updates(b, sl, rd, wr)
    <3>1. Updates(UpdateWrNttPip({}, wr, x, sl[x].ba, kind), sl, rd, wr)
      BY <1>3, <2>1, <2>4, RecordInv
    <3>2. QED
      BY <2>1, <2>3, <2>4, <3>1
  <2>6. Updates(UpdateRdNttPip(b, rd, x, sl[x].ba, kind), sl, rd, wr)
    BY <1>3, <2>1, <2>5, RecordInv
  <2>7. QED
    BY <2>1, <2>3, <2>5, <2>6
<1>19. Sent([type |-> c.type, ba |-> e.ba, row |-> e.row], sl, rd, wr, batch)
  BY Zenon DEF SentFor, sl
<1>20. SamePages(sl, slices') /\ TablesInv(slices', ba2bsc', rd_cam', wr_cam', ntt')
  BY <1>3, <1>7, <1>9, <1>13, <1>14, <1>16, <1>17, <1>18, <1>19, SentTables, Zenon
<1>21. QED
  BY <1>20 DEF sl

-----------------------------------------------------------------------------
(* The release of a slice, and what else Evaluate does *)

PageOf(sl, tbl) == [b \in Bank |-> IF tbl[b] # NoBsc THEN sl[tbl[b]].page ELSE Closed]

LEMMA ReleaseTables ==
  ASSUME TablesInv(slices, ba2bsc, rd_cam, wr_cam, ntt),
         NEW x \in IF EmptyBsc = {} THEN {NoBsc} ELSE EmptyBsc,
         NEW sl, sl = [y \in Bsc |-> IF y = x THEN Release(slices[y]) ELSE slices[y]],
         NEW tbl, tbl = [b \in Bank |-> IF ba2bsc[b] = x THEN NoBsc ELSE ba2bsc[b]]
  PROVE  TablesInv(sl, tbl, rd_cam, wr_cam, ntt) /\ PageOf(sl, tbl) = PageOf(slices, ba2bsc)
<1>1. /\ CamInv(rd_cam, RdEntry) /\ CamInv(wr_cam, WrEntry) /\ Candidates(slices, rd_cam, wr_cam)
      /\ Tables(slices, ba2bsc) /\ Marks(rd_cam, slices, ba2bsc) /\ Marks(wr_cam, slices, ba2bsc)
      /\ Updates(ntt, slices, rd_cam, wr_cam)
  BY DEF TablesInv
<1>2. /\ slices \in [Bsc -> Slice] /\ ba2bsc \in [Bank -> Bsc \union {NoBsc}]
      /\ NoBsc \notin Bsc /\ NoBank \notin Bank
  BY <1>1, ControllerAssumption DEF Tables
<1>3. CASE x = NoBsc
  <2>1. sl = slices /\ tbl = ba2bsc
    BY <1>2, <1>3
  <2>2. QED
    BY <2>1
<1>4. CASE x \in EmptyBsc
  <2>1. /\ x \in Bsc /\ slices[x].ba # NoBank /\ slices[x].page = Closed
        /\ BaOrderList(rd_cam, slices[x].ba) = {} /\ BaOrderList(wr_cam, slices[x].ba) = {}
    BY <1>4 DEF EmptyBsc, Allocated, AllocatedIn, IsPageOpen
  <2>2. /\ sl \in [Bsc -> Slice] /\ sl[x].ba = NoBank
        /\ \A y \in Bsc \ {x} : sl[y] = slices[y]
    <3>1. \A s \in Slice : Release(s) \in Slice /\ Release(s).ba = NoBank
      BY DEF Release, Slice
    <3>2. slices[x] \in Slice
      BY <1>2, <2>1
    <3>3. Release(slices[x]) \in Slice /\ Release(slices[x]).ba = NoBank
      BY <3>1, <3>2
    <3>4. QED
      BY <1>2, <2>1, <3>3
  <2>3. /\ tbl \in [Bank -> Bsc \union {NoBsc}]
        /\ \A b \in Bank : tbl[b] = IF ba2bsc[b] = x THEN NoBsc ELSE ba2bsc[b]
    BY <1>2
  <2>4. slices[x].ba \in Bank /\ ba2bsc[slices[x].ba] = x
    BY <1>1, <1>2, <2>1 DEF Tables, Slice
  <2>5. \A b \in Bank : ba2bsc[b] = x <=> b = slices[x].ba
    BY <1>1, <1>2, <2>1, <2>4 DEF Tables
  <2>6. Tables(sl, tbl)
    <3>1. \A b \in Bank : tbl[b] # NoBsc => sl[tbl[b]].ba = b
      <4>1. \A b \in Bank : tbl[b] # NoBsc => ba2bsc[b] # x /\ tbl[b] = ba2bsc[b] /\ tbl[b] \in Bsc
        BY <1>2, <2>3
      <4>2. QED
        BY <1>1, <2>2, <4>1 DEF Tables
    <3>2. \A y \in Bsc : sl[y].ba # NoBank => tbl[sl[y].ba] = y
      <4>1. SUFFICES ASSUME NEW y \in Bsc \ {x}, slices[y].ba # NoBank PROVE tbl[slices[y].ba] = y
        BY <2>2
      <4>2. ba2bsc[slices[y].ba] = y /\ slices[y].ba \in Bank
        BY <1>1, <1>2, <4>1 DEF Tables, Slice
      <4>3. QED
        BY <2>3, <4>2
    <3>3. QED
      BY <2>2, <2>3, <3>1, <3>2 DEF Tables
  <2>7. ASSUME NEW E \in {RdEntry, WrEntry}, NEW cam, CamInv(cam, E), Marks(cam, slices, ba2bsc),
               BaOrderList(cam, slices[x].ba) = {}
        PROVE  Marks(cam, sl, tbl)
    <3>1. SUFFICES ASSUME NEW i \in Used(cam) PROVE MarkOK(cam.store[i], sl, tbl)
      BY DEF Marks
    <3>2. cam.store[i] \in E /\ MarkOK(cam.store[i], slices, ba2bsc)
      BY <2>7 DEF CamInv, Used, Marks
    <3>3. cam.store[i].ba \in Bank /\ cam.store[i].ba # slices[x].ba
      BY <2>7, <3>2, EntryUpdate DEF BaOrderList
    <3>4. tbl[cam.store[i].ba] = ba2bsc[cam.store[i].ba] /\ ba2bsc[cam.store[i].ba] # x
      BY <2>3, <2>5, <3>3
    <3>5. ba2bsc[cam.store[i].ba] # NoBsc => sl[ba2bsc[cam.store[i].ba]] = slices[ba2bsc[cam.store[i].ba]]
      BY <1>2, <2>2, <3>3, <3>4
    <3>6. QED
      BY <3>2, <3>4, <3>5 DEF MarkOK
  <2>8. Marks(rd_cam, sl, tbl) /\ Marks(wr_cam, sl, tbl)
    BY <1>1, <2>1, <2>7
  <2>9. Candidates(sl, rd_cam, wr_cam)
    BY <1>1, <2>2 DEF Candidates
  <2>10. Updates(ntt, sl, rd_cam, wr_cam)
    <3>1. \A u \in ntt : u.bsc # x
      BY <1>1, <2>1 DEF Updates, CamOfUpdate
    <3>2. QED
      BY <1>1, <2>2, <3>1 DEF Updates
  <2>11. PageOf(sl, tbl) = PageOf(slices, ba2bsc)
    <3>1. ASSUME NEW b \in Bank
          PROVE  (IF tbl[b] # NoBsc THEN sl[tbl[b]].page ELSE Closed)
                  = IF ba2bsc[b] # NoBsc THEN slices[ba2bsc[b]].page ELSE Closed
      <4>1. CASE ba2bsc[b] = x
        BY <1>2, <2>1, <2>3, <4>1
      <4>2. CASE ba2bsc[b] # x
        BY <1>2, <2>2, <2>3, <4>2
      <4>3. QED
        BY <4>1, <4>2
    <3>2. QED
      BY <3>1 DEF PageOf
  <2>12. QED
    BY <1>1, <2>6, <2>8, <2>9, <2>10, <2>11 DEF TablesInv
<1>5. QED
  BY <1>3, <1>4

LEMMA WaitingKeeps ==
  ASSUME NEW sl \in [Bsc -> Slice], NEW k, NEW waiting \in BOOLEAN
  PROVE  SamePages(sl, SetWaiting(sl, k, waiting)) /\ SameCandidates(sl, SetWaiting(sl, k, waiting))
<1> DEFINE t == SetWaiting(sl, k, waiting)
<1>1. ASSUME NEW x \in Bsc PROVE SameSlice(sl[x], t[x])
  <2>1. t[x] = sl[x] \/ t[x] = [sl[x] EXCEPT !.waiting = waiting]
    BY Zenon DEF SetWaiting
  <2>2. sl[x] \in Slice
    OBVIOUS
  <2>3. SameSlice(sl[x], sl[x]) /\ SameSlice(sl[x], [sl[x] EXCEPT !.waiting = waiting])
    BY <2>2, SliceUpdate, Zenon
  <2> HIDE DEF t
  <2>4. QED
    BY <2>1, <2>3, Zenon
<1>2. t = [x \in Bsc |-> t[x]]
  BY DEF SetWaiting
<1> HIDE DEF t
<1>3. QED
  BY <1>1, <1>2, SameSlices, Zenon DEF t

(* Pages that stay, in slices that stay, are the pages of the banks. *)
LEMMA SamePagesOf ==
  ASSUME NEW sl, NEW tbl, Tables(sl, tbl), NEW t, SamePages(sl, t)
  PROVE  PageOf(t, tbl) = PageOf(sl, tbl)
<1>1. \A b \in Bank : tbl[b] # NoBsc => t[tbl[b]].page = sl[tbl[b]].page
  BY DEF Tables, SamePages
<1>2. QED
  BY <1>1 DEF PageOf

LEMMA EvaluateSlices ==
  ASSUME SliceInv, NEW due \in BOOLEAN, Evaluate(due)
  PROVE  /\ TablesInv(slices', ba2bsc', rd_cam', wr_cam', ntt')
         /\ PageOf(slices', ba2bsc') = PageOf(slices, ba2bsc)
         /\ RefreshInv'
<1>1. PICK x \in IF EmptyBsc = {} THEN {NoBsc} ELSE EmptyBsc, late \in BOOLEAN, idle \in BOOLEAN :
        /\ ba2bsc' = [b \in Bank |-> IF ba2bsc[b] = x THEN NoBsc ELSE ba2bsc[b]]
        /\ EvaluateRefresh([y \in Bsc |-> IF y = x THEN Release(slices[y]) ELSE slices[y]],
                           due, late, idle)
  BY Zenon DEF Evaluate
<1> DEFINE sl == [y \in Bsc |-> IF y = x THEN Release(slices[y]) ELSE slices[y]]
           tbl == [b \in Bank |-> IF ba2bsc[b] = x THEN NoBsc ELSE ba2bsc[b]]
           k == refresh.refsb_ba
           pending == IF due THEN refresh.pending + 1 ELSE refresh.pending
           is_critical == \/ refresh.is_critical
                          \/ (pending > 0 /\ (late \/ pending >= POST_PONE_THRESHOLD))
           closed == IsAllBanksClosed(sl, k)
           next == IF pending > 0 /\ closed THEN IF REFAB_ENABLE THEN "REFab" ELSE "REFsb" ELSE "NOP"
<1>2. TablesInv(sl, tbl, rd_cam, wr_cam, ntt) /\ PageOf(sl, tbl) = PageOf(slices, ba2bsc)
  BY <1>1, ReleaseTables DEF SliceInv
<1>3. /\ refresh' = [refresh EXCEPT !.pending = pending, !.is_critical = is_critical, !.next = next]
      /\ slices' = IF pending > 0 /\ ~closed /\ (is_critical \/ idle) THEN SetWaiting(sl, k, TRUE) ELSE sl
  BY <1>1, Zenon DEF EvaluateRefresh
<1>4. /\ ba2bsc' = tbl /\ rd_cam' = rd_cam /\ wr_cam' = wr_cam /\ ntt' = ntt
      /\ (due => refresh.pending < MaxPending)
  BY <1>1, Zenon DEF Evaluate, cams
<1>5. /\ refresh.pending \in 0 .. MaxPending /\ refresh.is_critical \in BOOLEAN
      /\ refresh.sent \in BOOLEAN /\ k \in 0 .. NumOfBanksPerBg - 1
      /\ DOMAIN refresh = {"pending", "is_critical", "sent", "refsb_ba", "next"}
      /\ MaxPending \in Nat
  BY ControllerAssumption DEF SliceInv, RefreshInv
<1>6. pending \in 0 .. MaxPending /\ is_critical \in BOOLEAN /\ next \in {"NOP", "REFab", "REFsb"}
      /\ (next # "NOP" => pending > 0 /\ closed /\ next = IF REFAB_ENABLE THEN "REFab" ELSE "REFsb")
  <2>1. pending \in 0 .. MaxPending
    BY <1>4, <1>5
  <2>2. is_critical \in BOOLEAN
    BY <1>5
  <2> HIDE DEF pending, is_critical, closed
  <2>3. QED
    BY <2>1, <2>2
<1> HIDE DEF sl, tbl, pending, is_critical, next
<1>7. /\ TablesInv(slices', tbl, rd_cam, wr_cam, ntt) /\ PageOf(slices', tbl) = PageOf(sl, tbl)
  <2>1. CASE slices' = sl
    BY <1>2, <2>1
  <2>2. CASE slices' = SetWaiting(sl, k, TRUE)
    <3>1. Tables(sl, tbl) /\ sl \in [Bsc -> Slice]
      BY <1>2 DEF TablesInv, Tables
    <3>2. SamePages(sl, slices') /\ SameCandidates(sl, slices')
      BY <2>2, <3>1, WaitingKeeps
    <3>3. QED
      BY <1>2, <3>1, <3>2, SamePagesInv, SamePagesOf, Zenon
  <2>3. QED
    BY <1>3, <2>1, <2>2
<1>8. /\ refresh'.pending = pending /\ refresh'.is_critical = is_critical /\ refresh'.next = next
      /\ refresh'.sent = refresh.sent /\ refresh'.refsb_ba = k
      /\ refresh' \in [pending : 0 .. MaxPending, is_critical : BOOLEAN, sent : BOOLEAN,
                       refsb_ba : 0 .. NumOfBanksPerBg - 1, next : {"NOP", "REFab", "REFsb"}]
  <2>1. refresh \in [pending : 0 .. MaxPending, is_critical : BOOLEAN, sent : BOOLEAN,
                     refsb_ba : 0 .. NumOfBanksPerBg - 1, next : {"NOP", "REFab", "REFsb"}]
    BY DEF SliceInv, RefreshInv
  <2>2. QED
    BY <1>3, <1>6, <2>1
<1>9. RefreshInv'
  <2>1. next # "NOP" => slices' = sl
    BY <1>3, <1>6
  <2>2. next # "NOP" => IsAllBanksClosed(slices', k)
    BY <1>6, <2>1
  <2>3. QED
    BY <1>6, <1>8, <2>2 DEF RefreshInv
<1>10. QED
  BY <1>2, <1>4, <1>7, <1>9

-----------------------------------------------------------------------------
(* Refreshes, and runs that send nothing *)

LEMMA QuietSends ==
  ASSUME SliceInv, SendRfm \/ SendRefresh \/ SendNothing
  PROVE  /\ TablesInv(slices', ba2bsc', rd_cam', wr_cam', ntt')
         /\ SamePages(slices, slices') /\ UNCHANGED << ba2bsc, rd_cam, wr_cam >>
<1>1. TablesInv(slices, ba2bsc, rd_cam, wr_cam, ntt) /\ \A x \in Bsc : slices[x] \in Slice
  BY DEF SliceInv, TablesInv, Tables
<1>2. ASSUME NEW command, NEW sl, sl = [x \in Bsc |-> sl[x]],
             \A x \in Bsc : SameSlice(slices[x], sl[x]),
             Sent(command, sl, rd_cam, wr_cam, {})
      PROVE  /\ TablesInv(slices', ba2bsc', rd_cam', wr_cam', ntt')
             /\ SamePages(slices, slices') /\ UNCHANGED << ba2bsc, rd_cam, wr_cam >>
  <2>1. UNCHANGED << ba2bsc, rd_cam, wr_cam >>
    BY <1>2, Zenon DEF Sent
  <2>2. SamePages(slices, sl) /\ SameCandidates(slices, sl)
    BY <1>2, SameSlices, Zenon
  <2>3. QED
    BY <1>1, <1>2, <2>1, <2>2, QuietTables, Zenon
<1>3. \A x \in Bsc : /\ SameSlice(slices[x], slices[x]) /\ SameSlice(slices[x], Refreshed(slices[x]))
                     /\ SameSlice(slices[x], DecreaseRaa(slices[x]))
                     /\ \A k : SameSlice(slices[x], Managed(slices[x], k))
  BY <1>1, SliceUpdate, Zenon
<1>4. CASE SendNothing
  <2>1. Sent(Nop, slices, rd_cam, wr_cam, {})
    BY <1>4, Zenon DEF SendNothing
  <2>2. slices = [x \in Bsc |-> slices[x]]
    BY <1>1 DEF TablesInv, Tables
  <2>3. QED
    BY <1>2, <1>3, <2>1, <2>2, Zenon
<1>5. CASE SendRfm
  <2>1. PICK c, k :
          Sent(c, [x \in Bsc |-> IF x \in Allocated THEN Managed(slices[x], k) ELSE slices[x]],
               rd_cam, wr_cam, {})
    BY <1>5, Zenon DEF SendRfm
  <2> DEFINE t == [x \in Bsc |-> IF x \in Allocated THEN Managed(slices[x], k) ELSE slices[x]]
  <2>2. t = [x \in Bsc |-> t[x]] /\ \A x \in Bsc : t[x] = slices[x] \/ t[x] = Managed(slices[x], k)
    BY Zenon
  <2>3. Sent(c, t, rd_cam, wr_cam, {})
    BY <2>1, Zenon
  <2> HIDE DEF t
  <2>4. \A x \in Bsc : SameSlice(slices[x], t[x])
    BY <1>3, <2>2, Zenon
  <2>5. QED
    BY <1>2, <2>2, <2>3, <2>4, Zenon
<1>6. CASE SendRefresh
  <2> DEFINE decreased == [y \in Bsc |-> IF y \in Allocated THEN DecreaseRaa(slices[y]) ELSE slices[y]]
             critical_left == refresh.is_critical /\ refresh.pending - 1 > POSTPONE_LOW_THRESHOLD
  <2>1. PICK c, next_ba :
          Sent(c, [x \in Bsc |-> IF InRefresh(slices[x], refresh.refsb_ba)
                     THEN Refreshed(SetWaiting(decreased, next_ba, critical_left)[x])
                     ELSE SetWaiting(decreased, next_ba, critical_left)[x]],
               rd_cam, wr_cam, {})
    BY <1>6, Zenon DEF SendRefresh
  <2> DEFINE waiting == SetWaiting(decreased, next_ba, critical_left)
             t == [x \in Bsc |-> IF InRefresh(slices[x], refresh.refsb_ba) THEN Refreshed(waiting[x]) ELSE waiting[x]]
  <2>2. Sent(c, t, rd_cam, wr_cam, {})
    BY <2>1, Zenon
  <2>3. decreased = [x \in Bsc |-> decreased[x]]
        /\ \A x \in Bsc : decreased[x] = slices[x] \/ decreased[x] = DecreaseRaa(slices[x])
    BY Zenon
  <2>4. t = [x \in Bsc |-> t[x]] /\ \A x \in Bsc : t[x] = waiting[x] \/ t[x] = Refreshed(waiting[x])
    <3> HIDE DEF waiting
    <3>1. QED
      BY Zenon
  <2>5. critical_left \in BOOLEAN
    OBVIOUS
  <2> HIDE DEF decreased, t, critical_left
  <2>6. \A x \in Bsc : SameSlice(slices[x], decreased[x])
    BY <1>3, <2>3, Zenon
  <2>7. decreased \in [Bsc -> Slice]
    BY <2>3, <2>6, SameSlices, Zenon DEF SamePages
  <2>8. SamePages(decreased, waiting) /\ SameCandidates(decreased, waiting)
    BY <2>5, <2>7, WaitingKeeps, Zenon
  <2> HIDE DEF waiting
  <2>9. \A x \in Bsc : waiting[x] \in Slice /\ SameSlice(slices[x], waiting[x])
    BY <2>6, <2>8 DEF SamePages, SameCandidates, SameSlice
  <2>10. ASSUME NEW x \in Bsc PROVE SameSlice(slices[x], t[x])
    <3>1. SameSlice(waiting[x], Refreshed(waiting[x]))
      BY <2>9, SliceUpdate, Zenon
    <3>2. SameSlice(slices[x], Refreshed(waiting[x]))
      BY <2>9, <3>1 DEF SameSlice
    <3>3. QED
      BY <2>4, <2>9, <3>2, Zenon
  <2>11. QED
    BY <1>2, <2>2, <2>4, <2>10, Zenon
<1>7. QED
  BY <1>4, <1>5, <1>6

(* Steps that are not sends, and the sends, leave the refresh machine in order. *)
LEMMA RefreshKeeps ==
  ASSUME RefreshInv, refresh' = refresh, stage' # "send"
  PROVE  RefreshInv'
BY DEF RefreshInv

LEMMA SendRefreshInv ==
  ASSUME SliceInv, SendRefresh
  PROVE  RefreshInv'
<1> DEFINE sent == refresh.refsb_ba
           next_ba == IF refresh.next = "REFsb" THEN (sent + 1) % NumOfBanksPerBg ELSE sent
           pending == refresh.pending - 1
           is_critical == refresh.is_critical /\ pending > POSTPONE_LOW_THRESHOLD
<1>1. /\ refresh.next # "NOP" /\ stage = "send" /\ stage' = "store"
      /\ refresh' = [refresh EXCEPT !.pending = pending, !.is_critical = is_critical,
                                    !.refsb_ba = next_ba, !.sent = TRUE]
  BY Zenon DEF SendRefresh, Sent
<1>2. /\ refresh \in [pending : 0 .. MaxPending, is_critical : BOOLEAN, sent : BOOLEAN,
                      refsb_ba : 0 .. NumOfBanksPerBg - 1, next : {"NOP", "REFab", "REFsb"}]
      /\ refresh.pending > 0
  BY <1>1 DEF SliceInv, RefreshInv
<1>3. NumOfBanksPerBg \in Nat \ {0} /\ MaxPending \in Nat
  BY ControllerAssumption
<1>4. pending \in 0 .. MaxPending
  BY <1>2, <1>3
<1>5. next_ba \in 0 .. NumOfBanksPerBg - 1
  BY <1>2, <1>3
<1>6. is_critical \in BOOLEAN
  OBVIOUS
<1> HIDE DEF pending, next_ba, is_critical
<1>7. refresh' \in [pending : 0 .. MaxPending, is_critical : BOOLEAN, sent : BOOLEAN,
                    refsb_ba : 0 .. NumOfBanksPerBg - 1, next : {"NOP", "REFab", "REFsb"}]
  BY <1>1, <1>2, <1>4, <1>5, <1>6
<1>8. QED
  BY <1>1, <1>7 DEF RefreshInv

-----------------------------------------------------------------------------
(* What comes between two runs *)

LEMMA WaitMarksKeep ==
  ASSUME NEW E \in {RdEntry, WrEntry}, NEW cam, CamInv(cam, E), NEW new, Remarked(cam, new),
         WaitMarks(cam, new), NEW sl, NEW tbl, Marks(cam, sl, tbl)
  PROVE  Marks(new, sl, tbl)
<1>1. /\ Used(new) = Used(cam)
      /\ \A i \in Used(cam) : new.store[i].ba = cam.store[i].ba /\ new.store[i].row = cam.store[i].row
  BY RemarkedCam
<1>2. QED
  BY <1>1 DEF Marks, MarkOK, WaitMarks

LEMMA MatchKeep ==
  ASSUME NEW E \in {RdEntry, WrEntry}, NEW cam, CamInv(cam, E), NEW new, Remarked(cam, new),
         NEW sl, NEW tbl, NEW j \in Used(cam), tbl[cam.store[j].ba] # NoBsc,
         MatchMarks(cam, new, j, sl[tbl[cam.store[j].ba]].page),
         \A i \in Used(cam) \ {j} : MarkOK(cam.store[i], sl, tbl)
  PROVE  Marks(new, sl, tbl)
<1>1. /\ Used(new) = Used(cam)
      /\ \A i \in Used(cam) : new.store[i].ba = cam.store[i].ba /\ new.store[i].row = cam.store[i].row
  BY RemarkedCam
<1>2. MarkOK(new.store[j], sl, tbl)
  BY <1>1 DEF MarkOK, MatchMarks
<1>3. \A i \in Used(cam) \ {j} : MarkOK(new.store[i], sl, tbl)
  BY DEF MatchMarks
<1>4. QED
  BY <1>1, <1>2, <1>3 DEF Marks

LEMMA WriteDataTables ==
  ASSUME SliceInv, NEW i \in CamIndex, WriteData(i)
  PROVE  TablesInv(slices', ba2bsc', rd_cam', wr_cam', ntt') /\ Used(wr_cam') = Used(wr_cam)
<1>1. /\ CamInv(rd_cam, RdEntry) /\ CamInv(wr_cam, WrEntry) /\ Candidates(slices, rd_cam, wr_cam)
      /\ Tables(slices, ba2bsc) /\ Marks(rd_cam, slices, ba2bsc) /\ Marks(wr_cam, slices, ba2bsc)
      /\ Updates(ntt, slices, rd_cam, wr_cam)
  BY DEF SliceInv, TablesInv
<1> DEFINE b == wr_cam.store[i].ba
           ready == [wr_cam EXCEPT !.store[i].wait = 0]
           matched == SetBaMatch(ready, i, slices[ba2bsc[b]].page)
<1>2. i \in Used(wr_cam)
  BY Zenon DEF WriteData, IsCamExist, Used
<1>3. /\ UNCHANGED << slices, ba2bsc, rd_cam >>
      /\ \/ ba2bsc[b] = NoBsc /\ wr_cam' = ready /\ ntt' = ntt
         \/ /\ ba2bsc[b] # NoBsc /\ wr_cam' = matched
            /\ ntt' \in {ntt, UpdateWrNttPip(ntt, matched, ba2bsc[b], b, "NewCmdStore")}
  <2>1. UNCHANGED << slices, ba2bsc, rd_cam >>
    BY Zenon DEF WriteData
  <2>2. CASE ba2bsc[b] = NoBsc
    BY <2>1, <2>2, Zenon DEF WriteData, IsBscMatch, SliceOf
  <2>3. CASE ba2bsc[b] # NoBsc
    BY <2>1, <2>3, Zenon DEF WriteData, IsBscMatch, SliceOf
  <2>4. QED
    BY <2>2, <2>3
<1>4. Remarked(wr_cam, ready) /\ WaitMarks(wr_cam, ready)
  BY <1>1, <1>2, CommandMarks, Zenon
<1> HIDE DEF ready
<1>5. /\ CamInv(ready, WrEntry) /\ Used(ready) = Used(wr_cam)
      /\ \A d : BaOrderList(ready, d) = BaOrderList(wr_cam, d)
      /\ ready.store[i].ba = b
  BY <1>1, <1>2, <1>4, RemarkedCam
<1>6. Marks(ready, slices, ba2bsc)
  BY <1>1, <1>4, WaitMarksKeep
<1>7. Candidates(slices, rd_cam, ready) /\ Updates(ntt, slices, rd_cam, ready)
  BY <1>1, <1>5, GrownLists
<1>8. CASE ba2bsc[b] = NoBsc /\ wr_cam' = ready /\ ntt' = ntt
  BY <1>1, <1>3, <1>5, <1>6, <1>7, <1>8 DEF TablesInv
<1>9. CASE /\ ba2bsc[b] # NoBsc /\ wr_cam' = matched
           /\ ntt' \in {ntt, UpdateWrNttPip(ntt, matched, ba2bsc[b], b, "NewCmdStore")}
  <2>1. /\ Remarked(ready, matched)
        /\ MatchMarks(ready, matched, i, slices[ba2bsc[b]].page)
    BY <1>2, <1>5, CommandMarks, Zenon
  <2> HIDE DEF matched
  <2>2. /\ CamInv(matched, WrEntry) /\ Used(matched) = Used(wr_cam)
        /\ \A d : BaOrderList(matched, d) = BaOrderList(ready, d)
    BY <1>5, <2>1, RemarkedCam
  <2>3. Marks(matched, slices, ba2bsc)
    <3>1. \A j \in Used(ready) \ {i} : MarkOK(ready.store[j], slices, ba2bsc)
      BY <1>6 DEF Marks
    <3>2. i \in Used(ready)
      BY <1>2, <1>5
    <3>3. QED
      BY <1>5, <1>9, <2>1, <3>1, <3>2, MatchKeep
  <2>4. Candidates(slices, rd_cam, matched) /\ Updates(ntt, slices, rd_cam, matched)
    BY <1>7, <2>2, GrownLists
  <2>5. /\ b \in Bank /\ ba2bsc[b] \in Bsc /\ slices[ba2bsc[b]].ba = b /\ b # NoBank
    <3>1. wr_cam.store[i] \in WrEntry
      BY <1>1, <1>2 DEF CamInv, Used
    <3>2. b \in Bank
      BY <3>1, EntryUpdate
    <3> HIDE DEF b
    <3>3. QED
      BY <1>1, <1>9, <3>2, ControllerAssumption DEF Tables
  <2> HIDE DEF b
  <2>6. Updates(UpdateWrNttPip(ntt, matched, ba2bsc[b], b, "NewCmdStore"), slices, rd_cam, matched)
    <3>1. ba2bsc[b] \in Bsc /\ slices[ba2bsc[b]].ba # NoBank
      BY <2>5
    <3>2. Updates(UpdateWrNttPip(ntt, matched, ba2bsc[b], slices[ba2bsc[b]].ba, "NewCmdStore"),
                  slices, rd_cam, matched)
      BY <1>1, <2>2, <2>4, <3>1, RecordInv
    <3>3. QED
      BY <2>5, <3>2
  <2>7. QED
    BY <1>1, <1>3, <1>9, <2>2, <2>3, <2>4, <2>6 DEF TablesInv
<1>10. QED
  BY <1>3, <1>8, <1>9

LEMMA TimeTables ==
  ASSUME SliceInv, NEW x \in Bsc, Activated(x) \/ Overdue(x)
  PROVE  TablesInv(slices', ba2bsc', rd_cam', wr_cam', ntt') /\ SamePages(slices, slices')
<1>1. TablesInv(slices, ba2bsc, rd_cam, wr_cam, ntt) /\ slices \in [Bsc -> Slice]
  BY DEF SliceInv, TablesInv, Tables
<1>2. /\ \E v \in {"activing", "open", "overdue"} : slices' = [slices EXCEPT ![x].age = v]
      /\ UNCHANGED << ba2bsc, rd_cam, wr_cam, ntt >>
  BY Zenon DEF Activated, Overdue, cams
<1>3. PICK v \in {"activing", "open", "overdue"} : slices' = [slices EXCEPT ![x].age = v]
  BY <1>2
<1>4. slices' = [y \in Bsc |-> slices'[y]]
      /\ \A y \in Bsc : slices'[y] = slices[y] \/ slices'[y] = [slices[y] EXCEPT !.age = v]
  BY <1>1, <1>3
<1>5. ASSUME NEW y \in Bsc PROVE SameSlice(slices[y], slices'[y])
  <2>1. slices[y] \in Slice
    BY <1>1
  <2>2. SameSlice(slices[y], slices[y]) /\ SameSlice(slices[y], [slices[y] EXCEPT !.age = v])
    BY <2>1, SliceUpdate, Zenon
  <2>3. QED
    BY <1>4, <2>2, Zenon
<1>6. SamePages(slices, slices') /\ SameCandidates(slices, slices')
  BY <1>4, <1>5, SameSlices, Zenon
<1>7. QED
  BY <1>1, <1>2, <1>6, SamePagesInv, Zenon

LEMMA ArrivePip ==
  ASSUME NEW r \in Requests, Arrive(r)
  PROVE  PipInv'
<1>1. PICK i \in IF r.cmd = "WR" THEN {NoEntry} ELSE Free(rd_cam),
           j \in IF r.cmd = "RD" THEN {NoEntry} ELSE Free(wr_cam) :
        pip' = [req |-> r, rd |-> i, wr |-> j]
  BY Zenon DEF Arrive
<1>2. rd_cam' = rd_cam /\ wr_cam' = wr_cam
  BY Zenon DEF Arrive, cams
<1>3. pip'.req = r /\ pip'.rd = i /\ pip'.wr = j
  BY <1>1
<1>4. QED
  BY <1>1, <1>2, <1>3 DEF PipInv, PipFree, Free, Used

-----------------------------------------------------------------------------
(* The allocation of a slice *)

LEMMA AllocatedBankFree ==
  ASSUME CamInv(rd_cam, RdEntry), CamInv(wr_cam, WrEntry),
         Marks(rd_cam, slices, ba2bsc), Marks(wr_cam, slices, ba2bsc),
         UnallocatedBscCamIndex(rd_cam) \union UnallocatedBscCamIndex(wr_cam) # {}
  PROVE  AllocatedBank \in Bank /\ ba2bsc[AllocatedBank] = NoBsc
<1> DEFINE rds == UnallocatedBscCamIndex(rd_cam)
           wrs == UnallocatedBscCamIndex(wr_cam)
           i == GetSelectedRdCamIndex(rd_cam, rds, "LPR" \in critical)
           j == GetSelectedWrCamIndex(wr_cam, wrs)
           Free1(b) == b \in Bank /\ ba2bsc[b] = NoBsc
<1>1. rds \in SUBSET Used(rd_cam) /\ wrs \in SUBSET Used(wr_cam)
  BY DEF UnallocatedBscCamIndex
<1>2. /\ \A k \in rds : Free1(rd_cam.store[k].ba)
      /\ \A k \in wrs : Free1(wr_cam.store[k].ba)
  <2>1. ASSUME NEW k \in rds PROVE Free1(rd_cam.store[k].ba)
    <3>1. k \in Used(rd_cam) /\ ~rd_cam.store[k].alloc /\ rd_cam.store[k] \in RdEntry
      BY DEF UnallocatedBscCamIndex, CamInv, Used
    <3>2. rd_cam.store[k].ba \in Bank
      BY <3>1, EntryUpdate
    <3>3. QED
      BY <3>1, <3>2 DEF Marks, MarkOK
  <2>2. ASSUME NEW k \in wrs PROVE Free1(wr_cam.store[k].ba)
    <3>1. k \in Used(wr_cam) /\ ~wr_cam.store[k].alloc /\ wr_cam.store[k] \in WrEntry
      BY DEF UnallocatedBscCamIndex, CamInv, Used
    <3>2. wr_cam.store[k].ba \in Bank
      BY <3>1, EntryUpdate
    <3>3. QED
      BY <3>1, <3>2 DEF Marks, MarkOK
  <2>3. QED
    BY <2>1, <2>2
<1> HIDE DEF rds, wrs, Free1
<1>3. rds # {} => i \in rds
  <2>1. ("LPR" \in critical) \in BOOLEAN
    OBVIOUS
  <2>2. QED
    BY <1>1, <2>1, SelectedRdIn, Zenon
<1>4. wrs # {} => j \in wrs
  BY <1>1, SelectedWrIn
<1>5. AllocatedBank = IF rds # {} /\ (wrs = {} \/ rd_cam.store[i].coll \/ ~wr_cam.store[j].coll)
                        THEN rd_cam.store[i].ba ELSE wr_cam.store[j].ba
  BY Zenon DEF AllocatedBank, rds, wrs
<1> HIDE DEF i, j
<1>6. rds \union wrs # {}
  BY DEF rds, wrs
<1>7. Free1(AllocatedBank)
  BY <1>2, <1>3, <1>4, <1>5, <1>6
<1>8. QED
  BY <1>7 DEF Free1

(* The marks of one CAM when bank b gets slice x. *)
LEMMA AllocKeep ==
  ASSUME NEW E \in {RdEntry, WrEntry}, NEW cam, CamInv(cam, E), NEW new, Remarked(cam, new),
         NEW sl, NEW tbl, Tables(sl, tbl), Marks(cam, sl, tbl),
         NEW x \in Bsc, sl[x].ba = NoBank, NEW b \in Bank, tbl[b] = NoBsc,
         AllocMarks(cam, new, b),
         NEW t, t[x].page = Closed, \A y \in Bsc \ {x} : t[y] = sl[y],
         NEW tbl2, tbl2[b] = x, \A d \in Bank \ {b} : tbl2[d] = tbl[d]
  PROVE  Marks(new, t, tbl2)
<1>1. /\ Used(new) = Used(cam)
      /\ \A i \in Used(cam) : new.store[i].ba = cam.store[i].ba /\ new.store[i].row = cam.store[i].row
  BY RemarkedCam
<1>2. NoBsc \notin Bsc /\ NoBank \notin Bank
  BY ControllerAssumption
<1>3. ASSUME NEW i \in Used(cam) PROVE MarkOK(new.store[i], t, tbl2)
  <2>1. cam.store[i] \in E
    BY DEF CamInv, Used
  <2>2. cam.store[i].ba \in Bank
    BY <2>1, EntryUpdate
  <2>3. CASE cam.store[i].ba = b
    BY <1>1, <1>2, <2>3 DEF AllocMarks, MarkOK
  <2>4. CASE cam.store[i].ba # b
    <3>1. new.store[i] = cam.store[i] /\ tbl2[cam.store[i].ba] = tbl[cam.store[i].ba]
      BY <2>2, <2>4 DEF AllocMarks
    <3>2. tbl[cam.store[i].ba] # NoBsc => tbl[cam.store[i].ba] \in Bsc \ {x}
      BY <1>2, <2>2 DEF Tables
    <3>3. MarkOK(cam.store[i], sl, tbl)
      BY DEF Marks
    <3>4. QED
      BY <3>1, <3>2, <3>3 DEF MarkOK
  <2>5. QED
    BY <2>3, <2>4
<1>4. QED
  BY <1>1, <1>3 DEF Marks

(* The state that Store hands on. *)
AInv(a) ==
  /\ DOMAIN a = {"slices", "ba2bsc", "rd", "wr", "ntt"}
  /\ TablesInv(a.slices, a.ba2bsc, a.rd, a.wr, a.ntt)

LEMMA AllocationTables ==
  ASSUME TablesInv(slices, ba2bsc, rd_cam, wr_cam, ntt),
         NEW x \in Bsc, slices[x].ba = NoBank, NEW b \in Bank, ba2bsc[b] = NoBsc,
         NEW now, now = BankSliceAllocation(x, b)
  PROVE  /\ AInv(now) /\ Used(now.rd) = Used(rd_cam) /\ Used(now.wr) = Used(wr_cam)
         /\ PageOf(now.slices, now.ba2bsc) = PageOf(slices, ba2bsc)
<1> DEFINE rd == SetAllocateBsc(rd_cam, b)
           wr == SetAllocateBsc(wr_cam, b)
           batch == UpdateRdNttPip(ntt, rd, x, b, "BscAllocate")
           all == UpdateWrNttPip(batch, wr, x, b, "BscAllocate")
           t == [slices EXCEPT ![x] = Allocate(@, b)]
           tbl == [ba2bsc EXCEPT ![b] = IF @ = NoBsc THEN x ELSE @]
<1>1. now = [slices |-> t, ba2bsc |-> tbl, rd |-> rd, wr |-> wr, ntt |-> all]
  BY Zenon DEF BankSliceAllocation
<1>2. /\ DOMAIN now = {"slices", "ba2bsc", "rd", "wr", "ntt"}
      /\ now.slices = t /\ now.ba2bsc = tbl /\ now.rd = rd /\ now.wr = wr /\ now.ntt = all
  BY <1>1
<1>3. /\ CamInv(rd_cam, RdEntry) /\ CamInv(wr_cam, WrEntry) /\ Candidates(slices, rd_cam, wr_cam)
      /\ Tables(slices, ba2bsc) /\ Marks(rd_cam, slices, ba2bsc) /\ Marks(wr_cam, slices, ba2bsc)
      /\ Updates(ntt, slices, rd_cam, wr_cam)
  BY DEF TablesInv
<1>4. /\ slices \in [Bsc -> Slice] /\ ba2bsc \in [Bank -> Bsc \union {NoBsc}]
      /\ NoBsc \notin Bsc /\ NoBank \notin Bank
  BY <1>3, ControllerAssumption DEF Tables
<1>5. /\ Remarked(rd_cam, rd) /\ AllocMarks(rd_cam, rd, b)
      /\ Remarked(wr_cam, wr) /\ AllocMarks(wr_cam, wr, b)
  BY <1>3, PageMarks, Zenon
<1> HIDE DEF rd, wr
<1>6. /\ CamInv(rd, RdEntry) /\ Used(rd) = Used(rd_cam)
      /\ \A d : BaOrderList(rd, d) = BaOrderList(rd_cam, d)
      /\ CamInv(wr, WrEntry) /\ Used(wr) = Used(wr_cam)
      /\ \A d : BaOrderList(wr, d) = BaOrderList(wr_cam, d)
  BY <1>3, <1>5, RemarkedCam
<1>7. /\ t \in [Bsc -> Slice] /\ t[x].ba = b /\ t[x].page = Closed
      /\ t[x].rd = NoEntry /\ t[x].wr = NoEntry
      /\ \A y \in Bsc \ {x} : t[y] = slices[y]
  <2>1. /\ Allocate(slices[x], b) \in Slice /\ Allocate(slices[x], b).ba = b
        /\ Allocate(slices[x], b).page = Closed
        /\ Allocate(slices[x], b).rd = NoEntry /\ Allocate(slices[x], b).wr = NoEntry
    <3>1. PICK s \in Slice : s = slices[x]
      BY <1>4
    <3>2. [s EXCEPT !.ba = b, !.page = Closed, !.rd = NoEntry, !.wr = NoEntry] \in Slice
      BY DEF Slice
    <3>3. /\ Allocate(s, b).ba = b /\ Allocate(s, b).page = Closed
          /\ Allocate(s, b).rd = NoEntry /\ Allocate(s, b).wr = NoEntry
      BY DEF Allocate, Slice
    <3>4. QED
      BY <3>1, <3>2, <3>3 DEF Allocate
  <2>2. QED
    BY <1>4, <2>1
<1>8. tbl \in [Bank -> Bsc \union {NoBsc}] /\ tbl[b] = x /\ \A d \in Bank \ {b} : tbl[d] = ba2bsc[d]
  BY <1>4
<1> HIDE DEF t, tbl
<1>9. Tables(t, tbl)
  <2>1. \A d \in Bank : tbl[d] # NoBsc => t[tbl[d]].ba = d
    <3>1. ASSUME NEW d \in Bank \ {b}, ba2bsc[d] # NoBsc PROVE t[ba2bsc[d]].ba = d
      <4>1. ba2bsc[d] \in Bsc /\ slices[ba2bsc[d]].ba = d
        BY <1>3, <1>4, <3>1 DEF Tables
      <4>2. ba2bsc[d] # x
        BY <1>4, <4>1
      <4>3. QED
        BY <1>7, <4>1, <4>2
    <3>2. QED
      BY <1>7, <1>8, <3>1
  <2>2. \A y \in Bsc : t[y].ba # NoBank => tbl[t[y].ba] = y
    <3>1. ASSUME NEW y \in Bsc \ {x}, slices[y].ba # NoBank PROVE tbl[slices[y].ba] = y
      <4>1. ba2bsc[slices[y].ba] = y /\ slices[y].ba \in Bank
        BY <1>3, <1>4, <3>1 DEF Tables, Slice
      <4>2. slices[y].ba # b
        BY <1>4, <4>1
      <4>3. QED
        BY <1>8, <4>1, <4>2
    <3>2. QED
      BY <1>7, <1>8, <3>1
  <2>3. QED
    BY <1>7, <1>8, <2>1, <2>2 DEF Tables
<1>10. Marks(rd, t, tbl) /\ Marks(wr, t, tbl)
  <2>1. Marks(rd, t, tbl)
    BY <1>3, <1>5, <1>7, <1>8, AllocKeep
  <2>2. Marks(wr, t, tbl)
    BY <1>3, <1>5, <1>7, <1>8, AllocKeep
  <2>3. QED
    BY <2>1, <2>2
<1>11. Candidates(t, rd, wr)
  BY <1>3, <1>6, <1>7 DEF Candidates
<1>12. Updates(ntt, t, rd, wr)
  <2>1. \A u \in ntt : u.bsc \in Bsc \ {x}
    BY <1>3 DEF Updates
  <2>2. \A u \in ntt : u.index \in BaOrderList(CamOfUpdate(u, rd, wr), slices[u.bsc].ba)
    BY <1>3, <1>6 DEF Updates, CamOfUpdate
  <2>3. QED
    BY <1>3, <1>7, <2>1, <2>2 DEF Updates
<1>13. t[x].ba # NoBank
  BY <1>4, <1>7
<1>14. Updates(batch, t, rd, wr)
  <2>1. Updates(UpdateRdNttPip(ntt, rd, x, t[x].ba, "BscAllocate"), t, rd, wr)
    BY <1>6, <1>12, <1>13, RecordInv
  <2>2. QED
    BY <1>7, <2>1
<1>15. Updates(all, t, rd, wr)
  <2> HIDE DEF batch
  <2>1. Updates(UpdateWrNttPip(batch, wr, x, t[x].ba, "BscAllocate"), t, rd, wr)
    BY <1>6, <1>13, <1>14, RecordInv
  <2>2. QED
    BY <1>7, <2>1
<1> HIDE DEF all
<1>16. AInv(now)
  BY <1>2, <1>6, <1>9, <1>10, <1>11, <1>15 DEF AInv, TablesInv
<1>17. PageOf(t, tbl) = PageOf(slices, ba2bsc)
  <2>1. ASSUME NEW d \in Bank
        PROVE  (IF tbl[d] # NoBsc THEN t[tbl[d]].page ELSE Closed)
                = IF ba2bsc[d] # NoBsc THEN slices[ba2bsc[d]].page ELSE Closed
    <3>1. CASE d = b
      BY <1>4, <1>7, <1>8, <3>1
    <3>2. CASE d # b
      <4>1. ba2bsc[d] # NoBsc => ba2bsc[d] \in Bsc \ {x}
        BY <1>3, <1>4 DEF Tables
      <4>2. QED
        BY <1>7, <1>8, <3>2, <4>1
    <3>3. QED
      BY <3>1, <3>2
  <2>2. QED
    BY <2>1 DEF PageOf
<1>18. QED
  BY <1>2, <1>6, <1>16, <1>17

LEMMA ReqUpdateTables ==
  ASSUME TablesInv(slices, ba2bsc, rd_cam, wr_cam, ntt), NEW now \in ReqUpdate
  PROVE  /\ AInv(now) /\ Used(now.rd) = Used(rd_cam) /\ Used(now.wr) = Used(wr_cam)
         /\ PageOf(now.slices, now.ba2bsc) = PageOf(slices, ba2bsc)
<1> DEFINE unallocated == UnallocatedBscCamIndex(rd_cam) \union UnallocatedBscCamIndex(wr_cam)
<1>1. \/ now = Current
      \/ unallocated # {} /\ \E x \in Bsc \ Allocated : now = BankSliceAllocation(x, AllocatedBank)
  BY Zenon DEF ReqUpdate
<1>2. CASE now = Current
  <2>1. /\ DOMAIN now = {"slices", "ba2bsc", "rd", "wr", "ntt"}
        /\ now.slices = slices /\ now.ba2bsc = ba2bsc /\ now.rd = rd_cam /\ now.wr = wr_cam
        /\ now.ntt = ntt
    BY <1>2 DEF Current
  <2>2. QED
    BY <2>1 DEF AInv
<1>3. ASSUME unallocated # {}, NEW x \in Bsc \ Allocated, now = BankSliceAllocation(x, AllocatedBank)
      PROVE  /\ AInv(now) /\ Used(now.rd) = Used(rd_cam) /\ Used(now.wr) = Used(wr_cam)
             /\ PageOf(now.slices, now.ba2bsc) = PageOf(slices, ba2bsc)
  <2>1. AllocatedBank \in Bank /\ ba2bsc[AllocatedBank] = NoBsc
    BY <1>3, AllocatedBankFree, Zenon DEF TablesInv
  <2>2. x \in Bsc /\ slices[x].ba = NoBank
    BY DEF Allocated, AllocatedIn
  <2>3. QED
    BY <1>3, <2>1, <2>2, AllocationTables, Zenon
<1>4. QED
  BY <1>1, <1>2, <1>3

-----------------------------------------------------------------------------
(* The store of a request *)

(* A command as a CAM holds it once it is stored. *)
Stored(cam, i, e, sl, tbl) ==
  IF tbl[e.ba] = NoBsc THEN StoreRequest(cam, i, e)
  ELSE SetBaMatch(StoreRequest(cam, i, e), i, sl[tbl[e.ba]].page)

LEMMA StoredCam ==
  ASSUME NEW E \in {RdEntry, WrEntry}, NEW cam, CamInv(cam, E), NEW sl, NEW tbl,
         Marks(cam, sl, tbl), NEW i \in CamIndex, i \notin Used(cam), NEW e \in E, ~e.alloc
  PROVE  /\ CamInv(Stored(cam, i, e, sl, tbl), E)
         /\ Marks(Stored(cam, i, e, sl, tbl), sl, tbl)
         /\ Used(Stored(cam, i, e, sl, tbl)) = Used(cam) \union {i}
         /\ \A b : BaOrderList(cam, b) \subseteq BaOrderList(Stored(cam, i, e, sl, tbl), b)
<1> DEFINE stored == StoreRequest(cam, i, e)
           new == Stored(cam, i, e, sl, tbl)
<1>1. /\ CamInv(stored, E) /\ Used(stored) = Used(cam) \union {i}
      /\ stored.store = [cam.store EXCEPT ![i] = e]
  BY StoreRequestCam
<1>2. stored.store[i] = e /\ \A j \in Used(cam) : stored.store[j] = cam.store[j]
  BY <1>1 DEF CamInv, Used
<1>3. \A j \in Used(cam) : MarkOK(stored.store[j], sl, tbl)
  BY <1>2 DEF Marks
<1>4. \A b : BaOrderList(cam, b) \subseteq BaOrderList(stored, b)
  BY <1>1, <1>2 DEF BaOrderList
<1>5. CASE tbl[e.ba] = NoBsc
  <2>1. new = stored
    BY <1>5 DEF Stored
  <2> HIDE DEF stored, new
  <2>2. MarkOK(stored.store[i], sl, tbl)
    BY <1>2, <1>5 DEF MarkOK
  <2>3. Marks(stored, sl, tbl)
    BY <1>1, <1>3, <2>2 DEF Marks
  <2>4. QED
    BY <1>1, <1>4, <2>1, <2>3 DEF new
<1>6. CASE tbl[e.ba] # NoBsc
  <2>1. new = SetBaMatch(stored, i, sl[tbl[e.ba]].page)
    BY <1>6 DEF Stored
  <2> HIDE DEF stored, new
  <2>2. i \in Used(stored)
    BY <1>1
  <2>3. Remarked(stored, new) /\ MatchMarks(stored, new, i, sl[tbl[e.ba]].page)
    BY <1>1, <2>1, <2>2, CommandMarks, Zenon
  <2>4. /\ CamInv(new, E) /\ Used(new) = Used(stored)
        /\ \A b : BaOrderList(new, b) = BaOrderList(stored, b)
    BY <1>1, <2>3, RemarkedCam
  <2>5. \A j \in Used(stored) \ {i} : MarkOK(stored.store[j], sl, tbl)
    BY <1>1, <1>3
  <2>6. Marks(new, sl, tbl)
    BY <1>1, <1>2, <1>6, <2>2, <2>3, <2>5, MatchKeep
  <2>7. QED
    BY <1>1, <1>4, <2>4, <2>6 DEF new
<1>7. QED
  BY <1>5, <1>6

LEMMA NewEntryType ==
  ASSUME NEW r \in Requests
  PROVE  /\ r.cmd # "WR" => NewEntry(r, 0) \in RdEntry
         /\ r.cmd # "RD" => NewEntry(r, WriteDelay) \in WrEntry
         /\ \A w : NewEntry(r, w).ba = r.ba /\ ~NewEntry(r, w).alloc
<1>1. /\ r.cmd \in {"RD", "WR", "RMW"} /\ r.ba \in Bank /\ r.row \in Row /\ r.col \in Column
      /\ r.prio \in {"HPR", "LPR", "TPW"} /\ (r.cmd = "WR" <=> r.prio = "TPW")
  BY ControllerAssumption DEF Requests
<1>2. WriteDelay \in Nat /\ 0 \in Nat
  BY CamAssumption
<1>3. QED
  BY <1>1, <1>2 DEF NewEntry, RdEntry, WrEntry, Entry

(* The parts of a state that a store leaves alone or lets grow. *)
Grown(a, c) ==
  /\ c.slices = a.slices /\ c.ba2bsc = a.ba2bsc
  /\ Used(a.rd) \subseteq Used(c.rd) /\ Used(a.wr) \subseteq Used(c.wr)

LEMMA StoreRd ==
  ASSUME NEW a, AInv(a), pip.req \in Requests,
         pip.rd \in IF pip.req.cmd = "WR" THEN {NoEntry} ELSE Free(a.rd)
  PROVE  AInv(StoreRdRequest(a)) /\ Grown(a, StoreRdRequest(a)) /\ StoreRdRequest(a).wr = a.wr
<1> DEFINE e == NewEntry(pip.req, 0)
           x == a.ba2bsc[pip.req.ba]
           cam == Stored(a.rd, pip.rd, e, a.slices, a.ba2bsc)
           batch == UpdateRdNttPip(a.ntt, cam, x, pip.req.ba, "NewCmdStore")
<1>1. /\ DOMAIN a = {"slices", "ba2bsc", "rd", "wr", "ntt"}
      /\ CamInv(a.rd, RdEntry) /\ CamInv(a.wr, WrEntry) /\ Candidates(a.slices, a.rd, a.wr)
      /\ Tables(a.slices, a.ba2bsc) /\ Marks(a.rd, a.slices, a.ba2bsc)
      /\ Marks(a.wr, a.slices, a.ba2bsc) /\ Updates(a.ntt, a.slices, a.rd, a.wr)
  BY DEF AInv, TablesInv
<1>2. CASE pip.rd = NoEntry
  <2>1. StoreRdRequest(a) = a
    BY <1>2, Zenon DEF StoreRdRequest
  <2>2. QED
    BY <2>1 DEF Grown
<1>3. CASE pip.rd # NoEntry
  <2>1. pip.rd \in CamIndex /\ pip.rd \notin Used(a.rd) /\ pip.req.cmd # "WR"
    BY <1>3 DEF Free
  <2>2. e \in RdEntry /\ e.ba = pip.req.ba /\ ~e.alloc /\ pip.req.ba \in Bank
    <3>1. pip.req.ba \in Bank
      BY DEF Requests
    <3>2. QED
      BY <2>1, <3>1, NewEntryType
  <2>3. \/ x = NoBsc /\ StoreRdRequest(a) = [a EXCEPT !.rd = cam]
        \/ x # NoBsc /\ \E n \in {a.ntt, batch} : StoreRdRequest(a) = [a EXCEPT !.rd = cam, !.ntt = n]
    <3>1. CASE x = NoBsc
      <4>1. cam = StoreRequest(a.rd, pip.rd, e)
        BY <2>2, <3>1 DEF Stored
      <4>2. StoreRdRequest(a) = [a EXCEPT !.rd = StoreRequest(a.rd, pip.rd, e)]
        BY <1>3, <3>1, Zenon DEF StoreRdRequest
      <4>3. QED
        BY <3>1, <4>1, <4>2
    <3>2. CASE x # NoBsc
      <4>1. cam = SetBaMatch(StoreRequest(a.rd, pip.rd, e), pip.rd, a.slices[x].page)
        BY <2>2, <3>2 DEF Stored
      <4> HIDE DEF cam
      <4>2. PICK n : n = IF cam.store[pip.rd].hit \/ ~IsActiving(a.slices[x]) \/ a.slices[x].rd # NoEntry
                           THEN batch ELSE a.ntt
        OBVIOUS
      <4>3. StoreRdRequest(a) = [a EXCEPT !.rd = cam, !.ntt = n]
        BY <1>3, <3>2, <4>1, <4>2, Zenon DEF StoreRdRequest
      <4>4. n \in {a.ntt, batch}
        BY <4>2
      <4>5. QED
        BY <3>2, <4>3, <4>4
    <3>3. QED
      BY <3>1, <3>2
  <2>4. /\ CamInv(cam, RdEntry) /\ Marks(cam, a.slices, a.ba2bsc)
        /\ Used(cam) = Used(a.rd) \union {pip.rd}
        /\ \A b : BaOrderList(a.rd, b) \subseteq BaOrderList(cam, b)
    BY <1>1, <2>1, <2>2, StoredCam
  <2> HIDE DEF cam, e
  <2>5. Candidates(a.slices, cam, a.wr) /\ Updates(a.ntt, a.slices, cam, a.wr)
    BY <1>1, <2>4, GrownLists
  <2>6. x # NoBsc => Updates(batch, a.slices, cam, a.wr)
    <3>1. ASSUME x # NoBsc PROVE Updates(batch, a.slices, cam, a.wr)
      <4>1. x \in Bsc /\ a.slices[x].ba = pip.req.ba /\ a.slices[x].ba # NoBank
        BY <1>1, <2>2, <3>1, ControllerAssumption DEF Tables
      <4>2. Updates(UpdateRdNttPip(a.ntt, cam, x, a.slices[x].ba, "NewCmdStore"), a.slices, cam, a.wr)
        BY <1>1, <2>4, <2>5, <4>1, RecordInv
      <4>3. QED
        BY <4>1, <4>2
    <3>2. QED
      BY <3>1
  <2>7. PICK n : Updates(n, a.slices, cam, a.wr) /\
                 StoreRdRequest(a) \in {[a EXCEPT !.rd = cam, !.ntt = n]}
    <3>1. [a EXCEPT !.rd = cam] = [a EXCEPT !.rd = cam, !.ntt = a.ntt]
      BY <1>1
    <3> HIDE DEF batch, x
    <3>2. QED
      BY <2>3, <2>5, <2>6, <3>1, Zenon
  <2>8. /\ DOMAIN StoreRdRequest(a) = {"slices", "ba2bsc", "rd", "wr", "ntt"}
        /\ StoreRdRequest(a).slices = a.slices /\ StoreRdRequest(a).ba2bsc = a.ba2bsc
        /\ StoreRdRequest(a).rd = cam /\ StoreRdRequest(a).wr = a.wr /\ StoreRdRequest(a).ntt = n
    BY <1>1, <2>7
  <2>9. QED
    BY <1>1, <2>4, <2>5, <2>7, <2>8 DEF AInv, TablesInv, Grown
<1>4. QED
  BY <1>2, <1>3

LEMMA StoreWr ==
  ASSUME NEW a, AInv(a), pip.req \in Requests,
         pip.wr \in IF pip.req.cmd = "RD" THEN {NoEntry} ELSE Free(a.wr)
  PROVE  AInv(StoreWrRequest(a)) /\ Grown(a, StoreWrRequest(a))
<1> DEFINE e == NewEntry(pip.req, WriteDelay)
           cam == Stored(a.wr, pip.wr, e, a.slices, a.ba2bsc)
<1>1. /\ DOMAIN a = {"slices", "ba2bsc", "rd", "wr", "ntt"}
      /\ CamInv(a.rd, RdEntry) /\ CamInv(a.wr, WrEntry) /\ Candidates(a.slices, a.rd, a.wr)
      /\ Tables(a.slices, a.ba2bsc) /\ Marks(a.rd, a.slices, a.ba2bsc)
      /\ Marks(a.wr, a.slices, a.ba2bsc) /\ Updates(a.ntt, a.slices, a.rd, a.wr)
  BY DEF AInv, TablesInv
<1>2. CASE pip.wr = NoEntry
  <2>1. StoreWrRequest(a) = a
    BY <1>2, Zenon DEF StoreWrRequest
  <2>2. QED
    BY <2>1 DEF Grown
<1>3. CASE pip.wr # NoEntry
  <2>1. pip.wr \in CamIndex /\ pip.wr \notin Used(a.wr) /\ pip.req.cmd # "RD"
    BY <1>3 DEF Free
  <2>2. e \in WrEntry /\ e.ba = pip.req.ba /\ ~e.alloc
    BY <2>1, NewEntryType
  <2>3. StoreWrRequest(a) = [a EXCEPT !.wr = cam]
    <3>1. cam = IF a.ba2bsc[pip.req.ba] = NoBsc THEN StoreRequest(a.wr, pip.wr, e)
                ELSE SetBaMatch(StoreRequest(a.wr, pip.wr, e), pip.wr, a.slices[a.ba2bsc[pip.req.ba]].page)
      BY <2>2 DEF Stored
    <3> HIDE DEF cam
    <3>2. QED
      BY <1>3, <3>1, Zenon DEF StoreWrRequest
  <2>4. /\ CamInv(cam, WrEntry) /\ Marks(cam, a.slices, a.ba2bsc)
        /\ Used(cam) = Used(a.wr) \union {pip.wr}
        /\ \A b : BaOrderList(a.wr, b) \subseteq BaOrderList(cam, b)
    BY <1>1, <2>1, <2>2, StoredCam
  <2> HIDE DEF cam, e
  <2>5. Candidates(a.slices, a.rd, cam) /\ Updates(a.ntt, a.slices, a.rd, cam)
    BY <1>1, <2>4, GrownLists
  <2>6. /\ DOMAIN StoreWrRequest(a) = {"slices", "ba2bsc", "rd", "wr", "ntt"}
        /\ StoreWrRequest(a).slices = a.slices /\ StoreWrRequest(a).ba2bsc = a.ba2bsc
        /\ StoreWrRequest(a).rd = a.rd /\ StoreWrRequest(a).wr = cam
        /\ StoreWrRequest(a).ntt = a.ntt
    BY <1>1, <2>3
  <2>7. QED
    BY <1>1, <2>4, <2>5, <2>6 DEF AInv, TablesInv, Grown
<1>4. QED
  BY <1>2, <1>3

LEMMA CloserTables ==
  ASSUME NEW a, AInv(a)
  PROVE  LET c == [a EXCEPT !.wr = Closer(@)]
         IN  AInv(c) /\ Grown(a, c) /\ Used(c.rd) = Used(a.rd) /\ Used(c.wr) = Used(a.wr)
<1>1. /\ DOMAIN a = {"slices", "ba2bsc", "rd", "wr", "ntt"}
      /\ CamInv(a.rd, RdEntry) /\ CamInv(a.wr, WrEntry) /\ Candidates(a.slices, a.rd, a.wr)
      /\ Tables(a.slices, a.ba2bsc) /\ Marks(a.rd, a.slices, a.ba2bsc)
      /\ Marks(a.wr, a.slices, a.ba2bsc) /\ Updates(a.ntt, a.slices, a.rd, a.wr)
  BY DEF AInv, TablesInv
<1> DEFINE wr == Closer(a.wr)
           c == [a EXCEPT !.wr = wr]
<1>2. Remarked(a.wr, wr) /\ WaitMarks(a.wr, wr)
  BY <1>1, CloserMarks, Zenon
<1> HIDE DEF wr
<1>3. CamInv(wr, WrEntry) /\ Used(wr) = Used(a.wr) /\ \A b : BaOrderList(wr, b) = BaOrderList(a.wr, b)
  BY <1>1, <1>2, RemarkedCam
<1>4. Marks(wr, a.slices, a.ba2bsc)
  BY <1>1, <1>2, WaitMarksKeep
<1>5. Candidates(a.slices, a.rd, wr) /\ Updates(a.ntt, a.slices, a.rd, wr)
  BY <1>1, <1>3, GrownLists
<1>6. /\ DOMAIN c = {"slices", "ba2bsc", "rd", "wr", "ntt"}
      /\ c.slices = a.slices /\ c.ba2bsc = a.ba2bsc /\ c.rd = a.rd /\ c.wr = wr /\ c.ntt = a.ntt
  BY <1>1
<1> HIDE DEF c
<1>7. AInv(c) /\ Grown(a, c) /\ Used(c.rd) = Used(a.rd) /\ Used(c.wr) = Used(a.wr)
  BY <1>1, <1>3, <1>4, <1>5, <1>6 DEF AInv, TablesInv, Grown
<1>8. QED
  BY <1>7, Zenon DEF c, wr

LEMMA CollisionKeeps ==
  ASSUME NEW E \in {RdEntry, WrEntry}, NEW cam, CamInv(cam, E), NEW d,
         NEW sl, NEW tbl, Marks(cam, sl, tbl)
  PROVE  /\ Marks(DetectAddrCollision(cam, d), sl, tbl)
         /\ \A b : BaOrderList(DetectAddrCollision(cam, d), b) = BaOrderList(cam, b)
<1> DEFINE new == DetectAddrCollision(cam, d)
<1>1. /\ Used(new) = Used(cam)
      /\ CollMarks(cam, new)
  BY CollisionCam, Zenon
<1> HIDE DEF new
<1>2. ASSUME NEW i \in Used(cam)
      PROVE  /\ new.store[i].ba = cam.store[i].ba /\ new.store[i].row = cam.store[i].row
             /\ new.store[i].hit = cam.store[i].hit /\ new.store[i].alloc = cam.store[i].alloc
  <2>1. cam.store[i] \in E
    BY DEF CamInv, Used
  <2>2. DOMAIN cam.store[i] = {"cmd", "ba", "row", "col", "prio", "hit", "alloc", "coll", "wait"}
    BY <2>1, EntryUpdate
  <2>3. PICK c \in BOOLEAN : new.store[i] = [cam.store[i] EXCEPT !.coll = c]
    BY <1>1 DEF CollMarks
  <2>4. QED
    BY <2>2, <2>3
<1>3. Marks(new, sl, tbl)
  BY <1>1, <1>2 DEF Marks, MarkOK
<1>4. \A b : BaOrderList(new, b) = BaOrderList(cam, b)
  BY <1>1, <1>2 DEF BaOrderList
<1>5. QED
  BY <1>3, <1>4 DEF new

LEMMA SeenTables ==
  ASSUME NEW a, AInv(a), NEW d
  PROVE  LET c == [a EXCEPT !.rd = DetectAddrCollision(@, d), !.wr = DetectAddrCollision(@, d)]
         IN  AInv(c) /\ Grown(a, c) /\ Used(c.rd) = Used(a.rd) /\ Used(c.wr) = Used(a.wr)
<1>1. /\ DOMAIN a = {"slices", "ba2bsc", "rd", "wr", "ntt"}
      /\ CamInv(a.rd, RdEntry) /\ CamInv(a.wr, WrEntry) /\ Candidates(a.slices, a.rd, a.wr)
      /\ Tables(a.slices, a.ba2bsc) /\ Marks(a.rd, a.slices, a.ba2bsc)
      /\ Marks(a.wr, a.slices, a.ba2bsc) /\ Updates(a.ntt, a.slices, a.rd, a.wr)
  BY DEF AInv, TablesInv
<1> DEFINE rd == DetectAddrCollision(a.rd, d)
           wr == DetectAddrCollision(a.wr, d)
           c == [a EXCEPT !.rd = rd, !.wr = wr]
<1>2. /\ CamInv(rd, RdEntry) /\ Used(rd) = Used(a.rd)
      /\ CamInv(wr, WrEntry) /\ Used(wr) = Used(a.wr)
  BY <1>1, CollisionCam, Zenon
<1>3. /\ Marks(rd, a.slices, a.ba2bsc) /\ \A b : BaOrderList(rd, b) = BaOrderList(a.rd, b)
      /\ Marks(wr, a.slices, a.ba2bsc) /\ \A b : BaOrderList(wr, b) = BaOrderList(a.wr, b)
  BY <1>1, CollisionKeeps, Zenon
<1> HIDE DEF rd, wr
<1>4. Candidates(a.slices, rd, wr) /\ Updates(a.ntt, a.slices, rd, wr)
  BY <1>1, <1>3, GrownLists
<1>5. /\ DOMAIN c = {"slices", "ba2bsc", "rd", "wr", "ntt"}
      /\ c.slices = a.slices /\ c.ba2bsc = a.ba2bsc /\ c.rd = rd /\ c.wr = wr /\ c.ntt = a.ntt
  BY <1>1
<1> HIDE DEF c
<1>6. AInv(c) /\ Grown(a, c) /\ Used(c.rd) = Used(a.rd) /\ Used(c.wr) = Used(a.wr)
  BY <1>1, <1>2, <1>3, <1>4, <1>5 DEF AInv, TablesInv, Grown
<1>7. QED
  BY <1>6, Zenon DEF c, rd, wr

(* The request is stored, or it stays in the pipe buffer and its indices stay free. *)
LEMMA CqStoreTables ==
  ASSUME NEW a, AInv(a), PipFree(pip, a.rd, a.wr), NEW n \in CqStore(a)
  PROVE  AInv(n.a) /\ Grown(a, n.a) /\ PipFree(n.pip, n.a.rd, n.a.wr)
<1> DEFINE Both(c) == StoreWrRequest(StoreRdRequest(c))
           seen(d) == [a EXCEPT !.rd = DetectAddrCollision(@, d), !.wr = DetectAddrCollision(@, d)]
           SameUse(c) == AInv(c) /\ Grown(a, c) /\ Used(c.rd) = Used(a.rd) /\ Used(c.wr) = Used(a.wr)
<1>1. ASSUME NEW c, SameUse(c), pip # NoPip
      PROVE  AInv(Both(c)) /\ Grown(a, Both(c))
  <2>1. /\ pip.req \in Requests
        /\ pip.rd \in IF pip.req.cmd = "WR" THEN {NoEntry} ELSE Free(c.rd)
        /\ pip.wr \in IF pip.req.cmd = "RD" THEN {NoEntry} ELSE Free(c.wr)
    BY <1>1 DEF PipFree, Free
  <2>2. /\ AInv(StoreRdRequest(c)) /\ Grown(c, StoreRdRequest(c)) /\ StoreRdRequest(c).wr = c.wr
    BY <1>1, <2>1, StoreRd
  <2>3. AInv(Both(c)) /\ Grown(StoreRdRequest(c), Both(c))
    BY <2>1, <2>2, StoreWr
  <2>4. QED
    BY <1>1, <2>2, <2>3 DEF Grown
<1>2. SameUse(a)
  BY DEF Grown
<1>3. \A d : SameUse(seen(d))
  BY SeenTables, Zenon
<1>4. CASE pip = NoPip
  <2>1. n = [a |-> a, pip |-> pip]
    BY <1>4, Zenon DEF CqStore
  <2>2. n.a = a /\ n.pip = NoPip
    BY <1>4, <2>1
  <2>3. QED
    BY <1>2, <2>2 DEF PipFree
<1>5. CASE pip # NoPip /\ a.rd.order = <<>> /\ a.wr.order = <<>>
  <2>1. n = [a |-> Both(a), pip |-> NoPip]
    BY <1>5, Zenon DEF CqStore
  <2> HIDE DEF Both, SameUse
  <2>2. n.a = Both(a) /\ n.pip = NoPip
    BY <2>1
  <2>3. QED
    BY <1>1, <1>2, <1>5, <2>2 DEF PipFree
<1>6. CASE pip # NoPip /\ ~(a.rd.order = <<>> /\ a.wr.order = <<>>)
  <2>1. PICK d \in Detected :
          n \in {[a |-> Both(seen(d)), pip |-> NoPip], [a |-> seen(d), pip |-> pip]}
    BY <1>6, Zenon DEF CqStore
  <2>2. PICK c : c = seen(d) /\ SameUse(c)
    BY <1>3, Zenon
  <2> HIDE DEF seen
  <2>3. CASE n = [a |-> Both(c), pip |-> NoPip]
    <3> HIDE DEF Both, SameUse
    <3>1. n.a = Both(c) /\ n.pip = NoPip
      BY <2>3
    <3>2. QED
      BY <1>1, <1>6, <2>2, <3>1 DEF PipFree
  <2>4. CASE n = [a |-> c, pip |-> pip]
    <3>1. n.a = c /\ n.pip = pip
      BY <2>4
    <3>2. QED
      BY <2>2, <3>1 DEF PipFree, Free
  <2>5. QED
    BY <2>1, <2>2, <2>3, <2>4
<1>7. QED
  BY <1>4, <1>5, <1>6

LEMMA StoreTables ==
  ASSUME SliceInv, Store
  PROVE  /\ TablesInv(slices', ba2bsc', rd_cam', wr_cam', ntt') /\ PipInv'
         /\ PageOf(slices', ba2bsc') = PageOf(slices, ba2bsc)
         /\ Used(rd_cam) \subseteq Used(rd_cam') /\ Used(wr_cam) \subseteq Used(wr_cam')
<1>1. PICK now \in ReqUpdate : \E next \in CqStore([now EXCEPT !.wr = Closer(@)]) :
        /\ slices' = next.a.slices /\ ba2bsc' = next.a.ba2bsc
        /\ rd_cam' = next.a.rd /\ wr_cam' = next.a.wr /\ ntt' = next.a.ntt
        /\ pip' = next.pip
  BY Zenon DEF Store
<1>2. PICK a : /\ a = [now EXCEPT !.wr = Closer(@)]
               /\ AInv(a) /\ Grown(now, a) /\ Used(a.rd) = Used(now.rd) /\ Used(a.wr) = Used(now.wr)
               /\ AInv(now) /\ Used(now.rd) = Used(rd_cam) /\ Used(now.wr) = Used(wr_cam)
               /\ PageOf(now.slices, now.ba2bsc) = PageOf(slices, ba2bsc)
  <2>1. /\ AInv(now) /\ Used(now.rd) = Used(rd_cam) /\ Used(now.wr) = Used(wr_cam)
        /\ PageOf(now.slices, now.ba2bsc) = PageOf(slices, ba2bsc)
    BY ReqUpdateTables, Zenon DEF SliceInv
  <2>2. QED
    BY <2>1, CloserTables, Zenon
<1>3. PICK n \in CqStore(a) :
        /\ slices' = n.a.slices /\ ba2bsc' = n.a.ba2bsc
        /\ rd_cam' = n.a.rd /\ wr_cam' = n.a.wr /\ ntt' = n.a.ntt /\ pip' = n.pip
  BY <1>1, <1>2, Zenon
<1>4. PipFree(pip, a.rd, a.wr)
  BY <1>2 DEF SliceInv, PipInv, PipFree, Free
<1>5. AInv(n.a) /\ Grown(a, n.a) /\ PipFree(n.pip, n.a.rd, n.a.wr)
  BY <1>2, <1>4, CqStoreTables, Zenon
<1>6. TablesInv(slices', ba2bsc', rd_cam', wr_cam', ntt')
  BY <1>3, <1>5, Zenon DEF AInv
<1>7. PipInv'
  <2>1. PipFree(pip', rd_cam', wr_cam')
    BY <1>3, <1>5, Zenon
  <2>2. QED
    BY <2>1, Zenon DEF PipInv, PipFree, Free, Used
<1>8. PageOf(slices', ba2bsc') = PageOf(slices, ba2bsc)
  BY <1>2, <1>3, <1>5 DEF Grown
<1>9. Used(rd_cam) \subseteq Used(rd_cam') /\ Used(wr_cam) \subseteq Used(wr_cam')
  BY <1>2, <1>3, <1>5 DEF Grown
<1>10. QED
  BY <1>6, <1>7, <1>8, <1>9

-----------------------------------------------------------------------------
(* The invariant *)

LEMMA PipShrinks ==
  ASSUME NEW p, NEW rd, NEW wr, PipFree(p, rd, wr),
         NEW rd2, NEW wr2, Used(rd2) \subseteq Used(rd), Used(wr2) \subseteq Used(wr)
  PROVE  PipFree(p, rd2, wr2)
BY DEF PipFree, Free

(* What a command to a bank leaves, with the entry it takes out. *)
LEMMA BankCommandLeaves ==
  ASSUME SliceInv, NEW x \in Bsc, SendBankCommand(x)
  PROVE  \E c \in ReadyCommands(x) : \E e :
           /\ TablesInv(slices', ba2bsc', rd_cam', wr_cam', ntt')
           /\ SamePages([slices EXCEPT ![x] = Update(@, c.type, e.row)], slices')
           /\ ba2bsc' = ba2bsc /\ e = CamOf(c).store[c.index]
           /\ dfi' = [type |-> c.type, ba |-> e.ba, row |-> e.row]
           /\ Used(rd_cam') = IF c.type \in ColCommands /\ c.is_rd THEN Used(rd_cam) \ {c.index} ELSE Used(rd_cam)
           /\ Used(wr_cam') = IF c.type \in ColCommands /\ ~c.is_rd THEN Used(wr_cam) \ {c.index} ELSE Used(wr_cam)
           /\ e.row \in Row /\ e.ba \in Bank
           /\ slices[x].ba # NoBank /\ stage = "send"
<1>1. ModeInv /\ TablesInv(slices, ba2bsc, rd_cam, wr_cam, ntt)
  BY DEF SliceInv
<1>2. slices[x].ba # NoBank
  BY BankCommandIs
<1>3. PICK c, e, rd, wr, batch : c \in ReadyCommands(x) /\ SentFor(x, c, e, rd, wr, batch)
  BY BankCommandIs, Zenon
<1>4. /\ SamePages([slices EXCEPT ![x] = Update(@, c.type, e.row)], slices')
      /\ TablesInv(slices', ba2bsc', rd_cam', wr_cam', ntt')
  BY <1>1, <1>2, <1>3, BankCommandTables, Zenon
<1>5. /\ e.row \in Row /\ e.ba \in Bank
      /\ Used(rd) = IF c.type \in ColCommands /\ c.is_rd THEN Used(rd_cam) \ {c.index} ELSE Used(rd_cam)
      /\ Used(wr) = IF c.type \in ColCommands /\ ~c.is_rd THEN Used(wr_cam) \ {c.index} ELSE Used(wr_cam)
  BY <1>1, <1>2, <1>3, BankCommandParts, Zenon
<1>6. /\ ba2bsc' = ba2bsc /\ e = CamOf(c).store[c.index] /\ stage = "send"
      /\ dfi' = [type |-> c.type, ba |-> e.ba, row |-> e.row]
      /\ rd_cam' = rd /\ wr_cam' = wr
  BY <1>3, Zenon DEF SentFor, Sent
<1>7. /\ Used(rd_cam') = IF c.type \in ColCommands /\ c.is_rd THEN Used(rd_cam) \ {c.index} ELSE Used(rd_cam)
      /\ Used(wr_cam') = IF c.type \in ColCommands /\ ~c.is_rd THEN Used(wr_cam) \ {c.index} ELSE Used(wr_cam)
  BY <1>5, <1>6
<1>8. QED
  BY <1>2, <1>3, <1>4, <1>5, <1>6, <1>7, Zenon

LEMMA SliceInvInit == Init => SliceInv
<1> SUFFICES ASSUME Init PROVE SliceInv
  OBVIOUS
<1>1. /\ CamInv(rd_cam, RdEntry) /\ CamInv(wr_cam, WrEntry) /\ Used(rd_cam) = {} /\ Used(wr_cam) = {}
  BY EmptyCamInv DEF Init
<1>2. FreshSlice \in Slice /\ FreshSlice.ba = NoBank
  BY DEF FreshSlice, Slice
<1>3. /\ slices \in [Bsc -> Slice] /\ \A x \in Bsc : slices[x].ba = NoBank
      /\ ba2bsc \in [Bank -> Bsc \union {NoBsc}] /\ \A b \in Bank : ba2bsc[b] = NoBsc
      /\ ntt = {}
  BY <1>2 DEF Init
<1>4. TablesInv(slices, ba2bsc, rd_cam, wr_cam, ntt)
  BY <1>1, <1>3 DEF TablesInv, Tables, Marks, Candidates, Updates
<1>5. PipInv
  BY DEF Init, PipInv, PipFree
<1>6. RefreshInv
  BY ControllerAssumption DEF Init, RefreshInv
<1>7. wr_cam_expired \in BOOLEAN /\ critical \subseteq CriticalClasses
      /\ stage \in {"idle", "send", "store"}
  BY ControllerAssumption DEF Init
<1>8. QED
  BY <1>4, <1>5, <1>6, <1>7, ModeInvInit DEF SliceInv

LEMMA SliceInvNext == SliceInv /\ [Next]_vars => SliceInv'
<1> SUFFICES ASSUME SliceInv, [Next]_vars PROVE SliceInv'
  OBVIOUS
<1> DEFINE T == TablesInv(slices, ba2bsc, rd_cam, wr_cam, ntt)
<1>1. /\ T /\ PipFree(pip, rd_cam, wr_cam) /\ RefreshInv /\ ModeInv
      /\ wr_cam_expired \in BOOLEAN /\ critical \subseteq CriticalClasses
      /\ stage \in {"idle", "send", "store"}
  BY DEF SliceInv, PipInv
<1>2. ModeInv'
  BY <1>1, ModeInvNext
(* All but the tables, the pipe buffer and the refresh machine is simple. *)
<1>3. ASSUME T', PipInv', RefreshInv', wr_cam_expired' = wr_cam_expired,
             critical' = critical \/ critical' \subseteq CriticalClasses,
             stage' = stage \/ stage' \in {"idle", "send", "store"}
      PROVE  SliceInv'
  BY <1>1, <1>2, <1>3 DEF SliceInv
<1>4. ASSUME pip' = pip, Used(rd_cam') \subseteq Used(rd_cam), Used(wr_cam') \subseteq Used(wr_cam)
      PROVE  PipInv'
  <2>1. PipFree(pip', rd_cam', wr_cam')
    BY <1>1, <1>4, PipShrinks, Zenon
  <2>2. QED
    BY <2>1, Zenon DEF PipInv, PipFree, Free, Used
<1>5. ASSUME NEW r \in Requests, Arrive(r) PROVE SliceInv'
  <2>1. /\ UNCHANGED << slices, ba2bsc, rd_cam, wr_cam, ntt, refresh, stage, wr_cam_expired, critical >>
        /\ stage = "idle"
    BY <1>5, Zenon DEF Arrive, cams
  <2>2. T' /\ RefreshInv'
    BY <1>1, <2>1, RefreshKeeps
  <2>3. QED
    BY <1>3, <1>5, <2>1, <2>2, ArrivePip
<1>6. ASSUME NEW i \in CamIndex, WriteData(i) PROVE SliceInv'
  <2>1. /\ UNCHANGED << rd_cam, refresh, stage, wr_cam_expired, critical, pip >> /\ stage = "idle"
    BY <1>6, Zenon DEF WriteData
  <2>2. T' /\ Used(wr_cam') = Used(wr_cam)
    BY <1>6, WriteDataTables
  <2>3. RefreshInv'
    BY <1>1, <2>1, RefreshKeeps
  <2>4. QED
    BY <1>3, <1>4, <2>1, <2>2, <2>3
<1>7. ASSUME NEW x \in Bsc, Activated(x) \/ Overdue(x) PROVE SliceInv'
  <2>1. /\ UNCHANGED << rd_cam, wr_cam, refresh, stage, wr_cam_expired, critical, pip >> /\ stage = "idle"
    BY <1>7, Zenon DEF Activated, Overdue, cams
  <2>2. T'
    BY <1>7, TimeTables
  <2>3. RefreshInv'
    BY <1>1, <2>1, RefreshKeeps
  <2>4. QED
    BY <1>3, <1>4, <2>1, <2>2, <2>3
<1>8. ASSUME NEW due \in BOOLEAN, Evaluate(due) PROVE SliceInv'
  <2>1. /\ UNCHANGED << rd_cam, wr_cam, wr_cam_expired, pip >> /\ stage' = "send"
        /\ critical' \subseteq CriticalClasses
    BY <1>8, Zenon DEF Evaluate, cams
  <2>2. T' /\ RefreshInv'
    BY <1>8, EvaluateSlices
  <2>3. QED
    BY <1>3, <1>4, <2>1, <2>2
<1>9. CASE SendRfm \/ SendRefresh \/ SendNothing
  <2>1. T' /\ UNCHANGED << rd_cam, wr_cam >>
    BY <1>9, QuietSends
  <2>2. UNCHANGED << wr_cam_expired, critical, pip >> /\ stage' = "store"
    BY <1>9, Zenon DEF SendRfm, SendRefresh, SendNothing, Sent
  <2>3. RefreshInv'
    <3>1. CASE SendRefresh
      BY <3>1, SendRefreshInv
    <3>2. CASE SendRfm \/ SendNothing
      <4>1. refresh' = refresh
        BY <3>2, Zenon DEF SendRfm, SendNothing
      <4>2. QED
        BY <1>1, <2>2, <4>1, RefreshKeeps
    <3>3. QED
      BY <1>9, <3>1, <3>2
  <2>4. QED
    BY <1>3, <1>4, <2>1, <2>2, <2>3
<1>10. ASSUME NEW x \in Bsc, SendBankCommand(x) PROVE SliceInv'
  <2>1. T' /\ Used(rd_cam') \subseteq Used(rd_cam) /\ Used(wr_cam') \subseteq Used(wr_cam)
    BY <1>10, BankCommandLeaves
  <2>2. UNCHANGED << refresh, wr_cam_expired, critical, pip >> /\ stage' = "store"
    BY <1>10, Zenon DEF SendBankCommand, Sent
  <2>3. RefreshInv'
    BY <1>1, <2>2, RefreshKeeps
  <2>4. QED
    BY <1>3, <1>4, <2>1, <2>2, <2>3
<1>11. CASE Store
  <2>1. T' /\ PipInv'
    BY <1>11, StoreTables
  <2>2. UNCHANGED << refresh, wr_cam_expired, critical >> /\ stage' = "idle"
    BY <1>11, Zenon DEF Store
  <2>3. RefreshInv'
    BY <1>1, <2>2, RefreshKeeps
  <2>4. QED
    BY <1>3, <2>1, <2>2, <2>3
<1>12. CASE UNCHANGED vars
  <2>1. UNCHANGED << slices, ba2bsc, rd_cam, wr_cam, ntt, pip, refresh, mode, wr_cam_expired, critical, stage >>
    BY <1>12, Zenon DEF vars
  <2>2. T' /\ RefreshInv'
    BY <1>1, <2>1 DEF RefreshInv
  <2>3. QED
    BY <1>3, <1>4, <2>1, <2>2
<1>13. QED
  BY <1>5, <1>6, <1>7, <1>8, <1>9, <1>10, <1>11, <1>12, Zenon DEF Next, CmdSend

-----------------------------------------------------------------------------
(* The theorems *)

(* The tables of the controller are consistent between any two steps: the lists and
   stores of the CAMs, the bank slices, the bank tables, the marks of the stored
   commands, the candidates and the updates recorded for the next run, whatever
   commands are sent, refused or refreshed away meanwhile. *)
THEOREM SliceInvariant == Safety => []SliceInv
BY SliceInvInit, SliceInvNext, PTL DEF Safety

(* The variables of the controller have their types, and the order list of a CAM
   names every command in its store once, for any depth. *)
THEOREM ControllerTypeCorrect == Safety => []TypeOK
<1>1. SliceInv => TypeOK
  <2> SUFFICES ASSUME SliceInv PROVE TypeOK
    OBVIOUS
  <2>1. CamOK(rd_cam, RdEntry) /\ CamOK(wr_cam, WrEntry)
    BY CamInvOK DEF SliceInv, TablesInv
  <2>2. slices \in [Bsc -> Slice] /\ ba2bsc \in [Bank -> Bsc \union {NoBsc}]
    BY DEF SliceInv, TablesInv, Tables
  <2>3. \A u \in ntt : u.bsc \in Bsc /\ u.index \in CamIndex
    BY DEF SliceInv, TablesInv, Updates, BaOrderList, Used
  <2>4. QED
    BY <2>1, <2>2, <2>3 DEF SliceInv, ModeInv, RefreshInv, TypeOK
<1>2. QED
  BY <1>1, SliceInvariant, PTL

(* A bank has at most one slice, the two tables of BankSliceManager agree, and a
   command is marked allocated exactly while its bank has a slice. *)
THEOREM SlicesAlwaysConsistent == Safety => []SlicesConsistent
<1>1. SliceInv => SlicesConsistent
  <2> SUFFICES ASSUME SliceInv PROVE SlicesConsistent
    OBVIOUS
  <2>1. Tables(slices, ba2bsc) /\ Marks(rd_cam, slices, ba2bsc) /\ Marks(wr_cam, slices, ba2bsc)
    BY DEF SliceInv, TablesInv
  <2>2. \A b \in Bank : IsBscMatch(b) => SliceOf(b).ba = b
    BY <2>1 DEF Tables, IsBscMatch, SliceOf
  <2>3. \A x \in Allocated : ba2bsc[slices[x].ba] = x
    BY <2>1 DEF Tables, Allocated, AllocatedIn
  <2>4. \A cam \in {rd_cam, wr_cam} : \A i \in Used(cam) :
          cam.store[i].alloc <=> IsBscMatch(cam.store[i].ba)
    BY <2>1 DEF Marks, MarkOK, IsBscMatch
  <2>5. QED
    BY <2>2, <2>3, <2>4 DEF SlicesConsistent
<1>2. QED
  BY <1>1, SliceInvariant, PTL

(* A candidate of a slice is a stored command of its bank, although it was chosen a
   run before it is entered: NttUpdate drops the ones that went meanwhile, and an
   index is not given out again in between. *)
THEOREM CandidatesAlwaysStored == Safety => []CandidatesStored
<1>1. SliceInv => CandidatesStored
  BY DEF SliceInv, TablesInv, Candidates, CandidatesStored, Allocated, AllocatedIn
<1>2. QED
  BY <1>1, SliceInvariant, PTL

(* The page-hit marks are never stale while a page is open: each ACT renews those of
   its bank in both CAMs, and a command that is stored or whose data comes is
   compared with the page of that moment. *)
THEOREM HitsAlwaysOfOpenPage == Safety => []HitsOfOpenPage
<1>1. SliceInv => HitsOfOpenPage
  <2> SUFFICES ASSUME SliceInv, NEW cam \in {rd_cam, wr_cam}, NEW i \in Used(cam),
                      ba2bsc[cam.store[i].ba] # NoBsc, slices[ba2bsc[cam.store[i].ba]].page # Closed
               PROVE  cam.store[i].hit <=> cam.store[i].row = slices[ba2bsc[cam.store[i].ba]].page
    BY DEF HitsOfOpenPage, IsBscMatch, IsPageOpen, SliceOf
  <2>1. Marks(cam, slices, ba2bsc)
    BY DEF SliceInv, TablesInv
  <2>2. QED
    BY <2>1 DEF Marks, MarkOK
<1>2. QED
  BY <1>1, SliceInvariant, PTL

(* In every state of the mode switch but Wr2Rd, a command that GetAvailCommand offers
   is found in the CAM it is tagged with, under its bank.  In Wr2Rd the row commands
   of reads are tagged as those of writes, and nothing of the kind holds. *)
THEOREM CommandsAlwaysFound == Safety => [](mode.current_state # "Wr2Rd" => CommandsFound)
<1>1. SliceInv => (mode.current_state # "Wr2Rd" => CommandsFound)
  <2> SUFFICES ASSUME SliceInv, mode.current_state # "Wr2Rd",
                      NEW x \in Allocated, NEW c \in ReadyCommands(x)
               PROVE  c.index \in BaOrderList(CamOf(c), c.ba)
    BY Zenon DEF CommandsFound
  <2>1. ModeInv /\ Candidates(slices, rd_cam, wr_cam) /\ x \in Bsc /\ slices[x].ba # NoBank
    BY DEF SliceInv, TablesInv, Allocated, AllocatedIn
  <2>2. QED
    BY <2>1, ReadyCommand
<1>2. QED
  BY <1>1, SliceInvariant, PTL

-----------------------------------------------------------------------------
(* One command, one access *)

Gone(cam, later) == {i \in Used(cam) : cam.store[i] # NoEntry /\ later.store[i] = NoEntry}
ServedBy(cam, later, types) ==
  /\ \A i \in Gone(cam, later) :
       dfi'.type \in types /\ dfi'.ba = cam.store[i].ba /\ dfi'.row = cam.store[i].row
  /\ dfi'.type \in types /\ dfi = Nop => Cardinality(Gone(cam, later)) = 1

LEMMA NothingGone ==
  ASSUME NEW cam, NEW later, Used(cam) \subseteq Used(later), NEW types,
         dfi'.type \notin types \/ dfi # Nop
  PROVE  ServedBy(cam, later, types)
<1>1. Gone(cam, later) = {}
  BY DEF Gone, Used
<1>2. QED
  BY <1>1 DEF ServedBy

LEMMA OneGone ==
  ASSUME NEW cam, NEW later, NEW i \in Used(cam), Used(later) = Used(cam) \ {i}, NEW types,
         dfi'.type \in types, dfi'.ba = cam.store[i].ba, dfi'.row = cam.store[i].row
  PROVE  ServedBy(cam, later, types)
<1>1. Gone(cam, later) = {i}
  BY DEF Gone, Used
<1>2. Cardinality({i}) = 1
  BY FS_Singleton
<1>3. QED
  BY <1>1, <1>2 DEF ServedBy

LEMMA ServedStep == SliceInv /\ [Next]_vars => [ServedByItsCommand]_vars
<1> SUFFICES ASSUME SliceInv, Next PROVE ServedByItsCommand
  BY DEF vars
<1>1. ASSUME ServedBy(rd_cam, rd_cam', {"RD", "RDA"}), ServedBy(wr_cam, wr_cam', {"WR", "WRA"})
      PROVE  ServedByItsCommand
  BY <1>1, Zenon DEF ServedByItsCommand, ServedBy, Gone
<1>2. ASSUME Used(rd_cam) \subseteq Used(rd_cam'), Used(wr_cam) \subseteq Used(wr_cam'),
             dfi' = dfi \/ dfi'.type \notin ColCommands
      PROVE  ServedByItsCommand
  <2>1. dfi'.type \notin ColCommands \/ dfi # Nop
    BY <1>2 DEF Nop, ColCommands
  <2>2. (dfi'.type \notin {"RD", "RDA"} \/ dfi # Nop) /\ (dfi'.type \notin {"WR", "WRA"} \/ dfi # Nop)
    BY <2>1 DEF ColCommands
  <2>3. QED
    BY <1>1, <1>2, <2>2, NothingGone
<1>3. CASE \E r \in Requests : Arrive(r)
  BY <1>2, <1>3, Zenon DEF Arrive, cams
<1>4. ASSUME NEW i \in CamIndex, WriteData(i) PROVE ServedByItsCommand
  <2>1. rd_cam' = rd_cam /\ dfi' = dfi
    BY <1>4, Zenon DEF WriteData
  <2>2. QED
    BY <1>2, <1>4, <2>1, WriteDataTables
<1>5. CASE \E x \in Bsc : Activated(x) \/ Overdue(x)
  BY <1>2, <1>5, Zenon DEF Activated, Overdue, cams
<1>6. ASSUME NEW due \in BOOLEAN, Evaluate(due) PROVE ServedByItsCommand
  <2>1. rd_cam' = rd_cam /\ wr_cam' = wr_cam /\ dfi' = Nop
    BY <1>6, Zenon DEF Evaluate, cams
  <2>2. QED
    BY <1>2, <2>1 DEF Nop, ColCommands
<1>7. CASE SendRfm \/ SendRefresh \/ SendNothing
  <2>1. rd_cam' = rd_cam /\ wr_cam' = wr_cam
    BY <1>7, QuietSends
  <2>2. dfi'.type \notin ColCommands
    <3>1. \/ dfi' = [type |-> "RFMab"] \/ dfi' = [type |-> "REFab"] \/ dfi' = Nop
          \/ dfi' = [type |-> "REFsb", bank |-> refresh.refsb_ba]
          \/ \E k : dfi' = [type |-> "RFMsb", bank |-> k]
      BY <1>7, Zenon DEF SendRfm, SendRefresh, SendNothing, Sent
    <3>2. QED
      BY <3>1 DEF Nop, ColCommands
  <2>3. QED
    BY <1>2, <2>1, <2>2
<1>8. ASSUME NEW x \in Bsc, SendBankCommand(x) PROVE ServedByItsCommand
  <2>1. PICK c, e :
           /\ c \in ReadyCommands(x) /\ e = CamOf(c).store[c.index]
           /\ dfi' = [type |-> c.type, ba |-> e.ba, row |-> e.row]
           /\ Used(rd_cam') = IF c.type \in ColCommands /\ c.is_rd THEN Used(rd_cam) \ {c.index} ELSE Used(rd_cam)
           /\ Used(wr_cam') = IF c.type \in ColCommands /\ ~c.is_rd THEN Used(wr_cam) \ {c.index} ELSE Used(wr_cam)
           /\ slices[x].ba # NoBank
    BY <1>8, BankCommandLeaves, Zenon
  <2>2. /\ c.is_rd \in BOOLEAN /\ c.type \in RowCommands \union ColCommands
        /\ c.type \in ColCommands =>
             /\ c.type \in IF c.is_rd THEN {"RD", "RDA"} ELSE {"WR", "WRA"}
             /\ c.index \in BaOrderList(CamOf(c), c.ba)
    BY <2>1, ReadyCommand DEF SliceInv, TablesInv
  <2>3. dfi'.type = c.type /\ dfi'.ba = e.ba /\ dfi'.row = e.row
    BY <2>1
  <2>4. CASE c.type \in RowCommands
    <3>1. c.type \notin ColCommands
      BY <2>4 DEF RowCommands, ColCommands
    <3>2. QED
      BY <1>2, <2>1, <2>3, <3>1
  <2>5. CASE c.type \in ColCommands /\ c.is_rd
    <3>1. c.index \in Used(rd_cam) /\ e = rd_cam.store[c.index] /\ c.type \in {"RD", "RDA"}
      BY <2>1, <2>2, <2>5 DEF CamOf, BaOrderList
    <3>2. ServedBy(rd_cam, rd_cam', {"RD", "RDA"})
      BY <2>1, <2>3, <2>5, <3>1, OneGone
    <3>3. ServedBy(wr_cam, wr_cam', {"WR", "WRA"})
      BY <2>1, <2>3, <2>5, <3>1, NothingGone
    <3>4. QED
      BY <1>1, <3>2, <3>3
  <2>6. CASE c.type \in ColCommands /\ ~c.is_rd
    <3>1. c.index \in Used(wr_cam) /\ e = wr_cam.store[c.index] /\ c.type \in {"WR", "WRA"}
      BY <2>1, <2>2, <2>6 DEF CamOf, BaOrderList
    <3>2. ServedBy(wr_cam, wr_cam', {"WR", "WRA"})
      BY <2>1, <2>3, <2>6, <3>1, OneGone
    <3>3. ServedBy(rd_cam, rd_cam', {"RD", "RDA"})
      BY <2>1, <2>3, <2>6, <3>1, NothingGone
    <3>4. QED
      BY <1>1, <3>2, <3>3
  <2>7. QED
    BY <2>2, <2>4, <2>5, <2>6
<1>9. CASE Store
  <2>1. dfi' = dfi
    BY <1>9, Zenon DEF Store
  <2>2. QED
    BY <1>2, <1>9, <2>1, StoreTables
<1>10. QED
  BY <1>3, <1>4, <1>5, <1>6, <1>7, <1>8, <1>9, Zenon DEF Next, CmdSend

(* Each RD, RDA, WR or WRA sent takes exactly one command out of its CAM, one of the
   bank and row it is sent to, and no command leaves a CAM in another way: none is
   served twice and none is lost. *)
THEOREM EachServedOnce == Safety => ServedOnce
BY SliceInvariant, ServedStep, PTL DEF Safety, ServedOnce

-----------------------------------------------------------------------------
(* The controller implements DramBanks *)

(* No row command goes in Wr2Rd: there the entry of a read's row command is looked
   up in the CAM of the writes (GetAvailCommand). *)
NoRowInWr2Rd == stage = "send" /\ mode.current_state = "Wr2Rd" => dfi'.type \notin RowCommands

(* The page of every bank, as DramBanks has it. *)
Pages == [b \in Bank |-> IF IsBscMatch(b) THEN SliceOf(b).page ELSE Closed]

LEMMA PagesAre == Pages = PageOf(slices, ba2bsc) /\ Pages' = PageOf(slices', ba2bsc')
BY DEF Pages, PageOf, IsBscMatch, SliceOf

(* What one step may do to the pages and the command, bank by bank. *)
DramStep(p, q, command) ==
  \/ q = p /\ command = dfi
  \/ q = p /\ command \in {[type |-> "NOP"], [type |-> "RFMab"]}
  \/ \E k \in {b.bank : b \in Bank} : q = p /\ command = [type |-> "RFMsb", bank |-> k]
  \/ q = p /\ command = [type |-> "REFab"] /\ \A b \in Bank : p[b] = Closed
  \/ \E k \in {b.bank : b \in Bank} :
       q = p /\ command = [type |-> "REFsb", bank |-> k] /\ \A b \in Bank : b.bank = k => p[b] = Closed
  \/ \E b \in Bank, r \in Row :
       \/ p[b] = Closed /\ q = [p EXCEPT ![b] = r] /\ command = [type |-> "ACT", ba |-> b, row |-> r]
       \/ q = [p EXCEPT ![b] = Closed] /\ command = [type |-> "PRE", ba |-> b, row |-> r]
       \/ \E type \in {"RD", "RDA", "WR", "WRA"} :
            /\ p[b] = r /\ command = [type |-> type, ba |-> b, row |-> r]
            /\ q = IF type \in {"RDA", "WRA"} THEN [p EXCEPT ![b] = Closed] ELSE p

LEMMA DramStepIs == DramStep(Pages, Pages', dfi') => [Dram!Next]_<<Pages, dfi>>
<1> SUFFICES ASSUME DramStep(Pages, Pages', dfi'), ~(Pages' = Pages /\ dfi' = dfi)
             PROVE  Dram!Next
  OBVIOUS
<1>1. CASE Pages' = Pages /\ dfi' \in {[type |-> "NOP"], [type |-> "RFMab"]}
  BY <1>1 DEF Dram!Next, Dram!Deselect, Dram!Nop, Dram!RefreshManage, Pages
<1>2. CASE Pages' = Pages /\ dfi' = [type |-> "REFab"] /\ \A b \in Bank : Pages[b] = Closed
  BY <1>2, Zenon DEF Dram!Next, Dram!RefreshAll, Pages
<1>3. ASSUME NEW k \in {b.bank : b \in Bank}, Pages' = Pages,
             dfi' = [type |-> "REFsb", bank |-> k], \A b \in Bank : b.bank = k => Pages[b] = Closed
      PROVE  Dram!Next
  <2>1. Dram!RefreshSame(k)
    BY <1>3, Zenon DEF Dram!RefreshSame, Pages
  <2>2. QED
    BY <2>1, Zenon DEF Dram!Next
<1>4. ASSUME NEW b \in Bank, NEW r \in Row,
             Pages[b] = Closed, Pages' = [Pages EXCEPT ![b] = r],
             dfi' = [type |-> "ACT", ba |-> b, row |-> r]
      PROVE  Dram!Next
  <2>1. Dram!Activate(b, r)
    BY <1>4, Zenon DEF Dram!Activate, Pages
  <2>2. QED
    BY <2>1, Zenon DEF Dram!Next
<1>5. ASSUME NEW b \in Bank, NEW r \in Row,
             Pages' = [Pages EXCEPT ![b] = Closed], dfi' = [type |-> "PRE", ba |-> b, row |-> r]
      PROVE  Dram!Next
  <2>1. Dram!Precharge(b, r)
    BY <1>5, Zenon DEF Dram!Precharge, Pages
  <2>2. QED
    BY <2>1, Zenon DEF Dram!Next
<1>6. ASSUME NEW b \in Bank, NEW r \in Row, NEW type \in {"RD", "RDA", "WR", "WRA"},
             Pages[b] = r, dfi' = [type |-> type, ba |-> b, row |-> r],
             Pages' = IF type \in {"RDA", "WRA"} THEN [Pages EXCEPT ![b] = Closed] ELSE Pages
      PROVE  Dram!Next
  <2>1. Dram!Access(b, r, type)
    BY <1>6, Zenon DEF Dram!Access, Pages
  <2>2. QED
    BY <2>1, Zenon DEF Dram!Next
<1>7. ASSUME NEW k \in {b.bank : b \in Bank}, Pages' = Pages, dfi' = [type |-> "RFMsb", bank |-> k]
      PROVE  Dram!Next
  <2>1. Dram!RefreshManage
    BY <1>7, Zenon DEF Dram!RefreshManage, Pages
  <2>2. QED
    BY <2>1, Zenon DEF Dram!Next
<1>8. QED
  BY <1>1, <1>2, <1>3, <1>4, <1>5, <1>6, <1>7, Zenon DEF DramStep

LEMMA DramInit == Init => Dram!Init
<1> SUFFICES ASSUME Init PROVE Dram!Init
  OBVIOUS
<1>1. \A b \in Bank : ~IsBscMatch(b)
  BY DEF Init, IsBscMatch
<1>2. QED
  BY <1>1 DEF Init, Dram!Init, Dram!Nop, Nop

(* A refresh goes only while the banks it is for are closed. *)
LEMMA ClosedBanks ==
  ASSUME Tables(slices, ba2bsc), NEW k, IsAllBanksClosed(slices, k),
         NEW b \in Bank, REFAB_ENABLE \/ b.bank = k
  PROVE  PageOf(slices, ba2bsc)[b] = Closed
<1>1. CASE ba2bsc[b] = NoBsc
  BY <1>1 DEF PageOf
<1>2. CASE ba2bsc[b] # NoBsc
  <2>1. ba2bsc[b] \in Bsc /\ slices[ba2bsc[b]].ba = b /\ b # NoBank
    BY <1>2, ControllerAssumption DEF Tables
  <2>2. slices[ba2bsc[b]].page = Closed
    BY <2>1 DEF IsAllBanksClosed, InRefresh, IsPageOpen
  <2>3. QED
    BY <1>2, <2>2 DEF PageOf
<1>3. QED
  BY <1>1, <1>2

(* The command goes to the bank of its slice and changes that page only. *)
LEMMA BankCommandStep ==
  ASSUME SliceInv, NoRowInWr2Rd, NEW x \in Bsc, SendBankCommand(x)
  PROVE  DramStep(PageOf(slices, ba2bsc), PageOf(slices', ba2bsc'), dfi')
<1> DEFINE p == PageOf(slices, ba2bsc)
<1>1. PICK c, e :
         /\ c \in ReadyCommands(x)
         /\ SamePages([slices EXCEPT ![x] = Update(@, c.type, e.row)], slices')
         /\ ba2bsc' = ba2bsc /\ e = CamOf(c).store[c.index]
         /\ dfi' = [type |-> c.type, ba |-> e.ba, row |-> e.row]
         /\ e.row \in Row /\ e.ba \in Bank
         /\ slices[x].ba # NoBank /\ stage = "send"
  BY BankCommandLeaves, Zenon
<1>2. /\ ModeInv /\ Candidates(slices, rd_cam, wr_cam) /\ Tables(slices, ba2bsc)
      /\ slices \in [Bsc -> Slice]
  BY DEF SliceInv, TablesInv, Tables
<1>3. /\ c.ba = slices[x].ba /\ c.type \in RowCommands \union ColCommands
      /\ c.type = "ACT" => slices[x].page = Closed
      /\ c.type \in ColCommands => e.row = slices[x].page
      /\ c.type \in ColCommands \/ mode.current_state # "Wr2Rd" => c.index \in BaOrderList(CamOf(c), c.ba)
  BY <1>1, <1>2, ReadyCommand, Zenon
<1>4. dfi'.type = c.type
  BY <1>1
<1>5. c.type \in ColCommands \/ mode.current_state # "Wr2Rd"
  BY <1>1, <1>3, <1>4 DEF NoRowInWr2Rd
<1>6. e.ba = slices[x].ba
  BY <1>1, <1>3, <1>5 DEF BaOrderList
<1>7. PICK b \in Bank, r \in Row : b = e.ba /\ r = e.row
  BY <1>1
<1>8. /\ slices[x].ba = b /\ ba2bsc[b] = x /\ x # NoBsc /\ dfi' = [type |-> c.type, ba |-> b, row |-> r]
      /\ \A a \in Bank : ba2bsc[a] # NoBsc => ba2bsc[a] \in Bsc /\ (a # b => ba2bsc[a] # x)
  BY <1>1, <1>2, <1>6, <1>7, ControllerAssumption DEF Tables
<1> DEFINE u == Update(slices[x], c.type, r)
           page == IF c.type = "ACT" THEN r
                   ELSE IF c.type \in {"PRE", "RDA", "WRA"} THEN Closed ELSE slices[x].page
<1>9. u.page = page
  <2>1. slices[x] \in Slice /\ c.type \in RowCommands \union ColCommands
    BY <1>2, <1>3
  <2>2. QED
    BY <2>1, CommandUpdate
<1>10. \A y \in Bsc : slices'[y].page = IF y = x THEN u.page ELSE slices[y].page
  <2> HIDE DEF u
  <2>1. SamePages([slices EXCEPT ![x] = u], slices')
    BY <1>1, <1>7, Zenon DEF u
  <2>2. QED
    BY <1>2, <2>1 DEF SamePages
<1> HIDE DEF u, page
<1>11. p[b] = slices[x].page
  BY <1>8 DEF PageOf
<1>12. PageOf(slices', ba2bsc') = [p EXCEPT ![b] = page]
  <2>1. \A a \in Bank : IF ba2bsc[a] # NoBsc THEN slices'[ba2bsc[a]].page = (IF a = b THEN page ELSE slices[ba2bsc[a]].page) ELSE a # b
    BY <1>8, <1>9, <1>10
  <2>2. QED
    BY <1>1, <2>1 DEF PageOf
<1>13. p = [p EXCEPT ![b] = p[b]]
  BY DEF PageOf
<1> HIDE DEF p
<1>14. CASE c.type = "ACT"
  <2>1. page = r /\ p[b] = Closed
    BY <1>3, <1>11, <1>14 DEF page
  <2>2. QED
    BY <1>8, <1>12, <1>14, <2>1, Zenon DEF DramStep, p
<1>15. CASE c.type = "PRE"
  <2>1. page = Closed
    BY <1>15 DEF page
  <2>2. QED
    BY <1>8, <1>12, <1>15, <2>1, Zenon DEF DramStep, p
<1>16. CASE c.type \in ColCommands
  <2>1. p[b] = r
    BY <1>3, <1>7, <1>11, <1>16
  <2>2. [p EXCEPT ![b] = page] = IF c.type \in {"RDA", "WRA"} THEN [p EXCEPT ![b] = Closed] ELSE p
    BY <1>11, <1>13, <1>16 DEF page, ColCommands
  <2>3. c.type \in {"RD", "RDA", "WR", "WRA"}
    BY <1>16 DEF ColCommands
  <2>4. QED
    BY <1>8, <1>12, <2>1, <2>2, <2>3, Zenon DEF DramStep, p
<1>17. QED
  BY <1>3, <1>14, <1>15, <1>16 DEF RowCommands

LEMMA DramNext == SliceInv /\ [Next]_vars /\ [NoRowInWr2Rd]_vars => [Dram!Next]_<<Pages, dfi>>
<1> SUFFICES ASSUME SliceInv, Next, NoRowInWr2Rd PROVE DramStep(Pages, Pages', dfi')
  <2>1. CASE UNCHANGED vars
    BY <2>1 DEF vars, Pages, IsBscMatch, SliceOf
  <2>2. CASE Next /\ NoRowInWr2Rd
    BY <2>2, DramStepIs, Zenon
  <2>3. QED
    BY <2>1, <2>2
<1> DEFINE p == PageOf(slices, ba2bsc)
           q == PageOf(slices', ba2bsc')
<1>1. SUFFICES DramStep(p, q, dfi')
  BY PagesAre, Zenon
<1>2. Tables(slices, ba2bsc) /\ RefreshInv
  BY DEF SliceInv, TablesInv
<1>3. ASSUME SamePages(slices, slices'), ba2bsc' = ba2bsc PROVE q = p
  BY <1>2, <1>3, SamePagesOf, Zenon
<1>4. ASSUME q = p, dfi' = dfi \/ dfi' \in {[type |-> "NOP"], [type |-> "RFMab"]} PROVE DramStep(p, q, dfi')
  BY <1>4, Zenon DEF DramStep
<1>5. CASE \E r \in Requests : Arrive(r)
  BY <1>4, <1>5, Zenon DEF Arrive
<1>6. CASE \E i \in CamIndex : WriteData(i)
  BY <1>4, <1>6, Zenon DEF WriteData
<1>7. ASSUME NEW x \in Bsc, Activated(x) \/ Overdue(x) PROVE DramStep(p, q, dfi')
  <2>1. ba2bsc' = ba2bsc /\ dfi' = dfi
    BY <1>7, Zenon DEF Activated, Overdue
  <2>2. QED
    BY <1>3, <1>4, <1>7, <2>1, TimeTables
<1>8. ASSUME NEW due \in BOOLEAN, Evaluate(due) PROVE DramStep(p, q, dfi')
  <2>1. dfi' = [type |-> "NOP"]
    BY <1>8, Zenon DEF Evaluate, Nop
  <2>2. QED
    BY <1>4, <1>8, <2>1, EvaluateSlices
<1>9. CASE Store
  <2>1. dfi' = dfi
    BY <1>9, Zenon DEF Store
  <2>2. QED
    BY <1>4, <1>9, <2>1, StoreTables
<1>10. CASE SendRfm \/ SendNothing
  <2>1. q = p
    BY <1>3, <1>10, QuietSends
  <2>2. \/ dfi' \in {[type |-> "NOP"], [type |-> "RFMab"]}
        \/ \E a \in Allocated : dfi' = [type |-> "RFMsb", bank |-> slices[a].ba.bank]
    BY <1>10, Zenon DEF SendRfm, SendNothing, Sent, Nop
  <2>3. \A a \in Allocated : slices[a].ba.bank \in {b.bank : b \in Bank}
    BY <1>2 DEF Tables, Slice, Allocated, AllocatedIn
  <2>4. QED
    BY <1>4, <2>1, <2>2, <2>3, Zenon DEF DramStep
<1>11. CASE SendRefresh
  <2>1. q = p
    BY <1>3, <1>11, QuietSends
  <2>2. /\ stage = "send" /\ refresh.next # "NOP"
        /\ dfi' = IF refresh.next = "REFsb" THEN [type |-> "REFsb", bank |-> refresh.refsb_ba] ELSE [type |-> "REFab"]
    BY <1>11, Zenon DEF SendRefresh, Sent
  <2>3. /\ refresh.next = IF REFAB_ENABLE THEN "REFab" ELSE "REFsb"
        /\ IsAllBanksClosed(slices, refresh.refsb_ba)
        /\ refresh.refsb_ba \in 0 .. NumOfBanksPerBg - 1
    BY <1>2, <2>2 DEF RefreshInv
  <2>4. \A b \in Bank : REFAB_ENABLE \/ b.bank = refresh.refsb_ba => p[b] = Closed
    BY <1>2, <2>3, ClosedBanks, Zenon
  <2>5. CASE REFAB_ENABLE
    <3>1. dfi' = [type |-> "REFab"]
      BY <2>2, <2>3, <2>5
    <3>2. QED
      BY <2>1, <2>4, <2>5, <3>1, Zenon DEF DramStep
  <2>6. CASE ~REFAB_ENABLE
    <3>1. dfi' = [type |-> "REFsb", bank |-> refresh.refsb_ba]
      BY <2>2, <2>3, <2>6
    <3>2. refresh.refsb_ba \in {b.bank : b \in Bank}
      BY <2>3, ControllerAssumption
    <3>3. QED
      BY <2>1, <2>4, <3>1, <3>2, Zenon DEF DramStep
  <2>7. QED
    BY <2>5, <2>6
<1>12. ASSUME NEW x \in Bsc, SendBankCommand(x) PROVE DramStep(p, q, dfi')
  BY <1>12, BankCommandStep
<1>13. QED
  BY <1>5, <1>6, <1>7, <1>8, <1>9, <1>10, <1>11, <1>12, Zenon DEF Next, CmdSend

(* As long as no row command goes in Wr2Rd, the commands are ones a memory accepts:
   a page is opened in a closed bank only, each access goes to the open page of its
   bank, and a refresh finds its banks closed, for any banks, rows and traffic. *)
THEOREM ControllerImplementsDram == Safety /\ [][NoRowInWr2Rd]_vars => DramSpec
<1>1. Safety => []SliceInv
  BY SliceInvariant
<1>2. SliceInv /\ [Next]_vars /\ [NoRowInWr2Rd]_vars
      => [Dram!Next]_<<[b \in Bank |-> IF IsBscMatch(b) THEN SliceOf(b).page ELSE Closed], dfi>>
  BY DramNext DEF Pages
<1>3. QED
  BY <1>1, <1>2, DramInit, PTL DEF Safety, DramSpec, Dram!Spec

(* A step whose command is not a row command in Wr2Rd obeys the memory, whatever
   went before: what a misplaced row command of Wr2Rd leaves in the tables of the
   controller is still a state from which its accesses go to the pages that the
   tables have open, its activations to banks they have closed and its refreshes to
   banks they have closed. *)
THEOREM OnlyWr2RdMisplaces ==
  Safety => [][NoRowInWr2Rd => [Dram!Next]_<<Pages, dfi>>]_vars
<1>1. SliceInv /\ [Next]_vars => [NoRowInWr2Rd => [Dram!Next]_<<Pages, dfi>>]_vars
  BY DramNext
<1>2. QED
  BY <1>1, SliceInvariant, PTL DEF Safety

-----------------------------------------------------------------------------
(* Banks held for a refresh *)

RefreshCommands == {"REFab", "REFsb", "RFMab", "RFMsb"}

(* Of a slice that waits for a refresh: it opens no page, and only a refresh or
   refresh management ends the wait. *)
HeldSlice(s, t, command) ==
  s.waiting => /\ t.page \in {s.page, Closed}
               /\ t.waiting \/ command.type \in RefreshCommands
Held == \A x \in Bsc : HeldSlice(slices[x], slices'[x], dfi')

SameWait(s, t) == t.page \in {s.page, Closed} /\ (s.waiting => t.waiting)

LEMMA SliceWaits ==
  ASSUME NEW s \in Slice
  PROVE  /\ SameWait(s, s) /\ SameWait(s, Release(s)) /\ SameWait(s, [s EXCEPT !.waiting = TRUE])
         /\ SameWait(s, [Release(s) EXCEPT !.waiting = TRUE])
         /\ \A v : SameWait(s, [s EXCEPT !.age = v])
         /\ \A b : SameWait(s, Allocate(s, b))
         /\ \A v, w : [s EXCEPT !.rd = v, !.wr = w].waiting = s.waiting
BY DEF Slice, SameWait, Release, Allocate

LEMMA NttWaits ==
  ASSUME NEW sl \in [Bsc -> Slice], NEW batch, NEW rd, NEW wr, NEW x \in Bsc
  PROVE  NttUpdate(sl, batch, rd, wr)[x].waiting = sl[x].waiting
<1>1. PICK v, w : NttUpdate(sl, batch, rd, wr)[x] = [sl[x] EXCEPT !.rd = v, !.wr = w]
  BY Zenon DEF NttUpdate
<1>2. sl[x] \in Slice
  OBVIOUS
<1>3. QED
  BY <1>1, <1>2, SliceWaits

(* No command but ACT opens a page, and a slice that waits is offered none. *)
LEMMA CommandWaits ==
  ASSUME NEW s \in Slice, NEW row \in Row, NEW type \in RowCommands \union ColCommands,
         type = "ACT" => ~s.waiting
  PROVE  LET u == Update(s, type, row) IN s.waiting => SameWait(s, u)
<1>1. CASE type = "ACT"
  BY <1>1
<1>2. CASE type = "PRE"
  BY <1>2 DEF Update, Slice, SameWait
<1>3. CASE type \in {"RD", "WR"}
  BY <1>3 DEF Update, Slice, SameWait
<1>4. CASE type \in {"RDA", "WRA"}
  BY <1>4 DEF Update, Slice, SameWait
<1>5. QED
  BY <1>1, <1>2, <1>3, <1>4 DEF RowCommands, ColCommands

LEMMA WaitingOffered ==
  ASSUME ModeInv, NEW x, NEW c \in ReadyCommands(x), c.type = "ACT"
  PROVE  ~slices[x].waiting
<1>1. \A s, cam, candidate : NextCommand(s, cam, candidate, <<"RD", "RDA">>) = "ACT" => ~s.waiting
  BY DEF NextCommand
<1>2. \A s, cam, candidate : NextCommand(s, cam, candidate, <<"WR", "WRA">>) = "ACT" => ~s.waiting
  BY DEF NextCommand
<1>3. c.type = NextRdCommand(slices[x], rd_cam) \/ c.type = NextWrCommand(slices[x], wr_cam)
  BY ReadyIs
<1>4. QED
  BY <1>1, <1>2, <1>3 DEF NextRdCommand, NextWrCommand

LEMMA HeldStep == SliceInv /\ [Next]_vars => [Held]_vars
<1> SUFFICES ASSUME SliceInv, Next, NEW x \in Bsc PROVE HeldSlice(slices[x], slices'[x], dfi')
  BY Zenon DEF Held
<1>1. slices \in [Bsc -> Slice] /\ slices[x] \in Slice /\ ModeInv
      /\ Candidates(slices, rd_cam, wr_cam)
  BY DEF SliceInv, TablesInv, Tables
<1>2. ASSUME SameWait(slices[x], slices'[x]) PROVE HeldSlice(slices[x], slices'[x], dfi')
  BY <1>2 DEF SameWait, HeldSlice
<1>3. CASE (\E r \in Requests : Arrive(r)) \/ \E i \in CamIndex : WriteData(i)
  <2>1. slices' = slices
    BY <1>3, Zenon DEF Arrive, WriteData
  <2>2. QED
    BY <1>1, <1>2, <2>1, SliceWaits
<1>4. ASSUME NEW y \in Bsc, Activated(y) \/ Overdue(y) PROVE HeldSlice(slices[x], slices'[x], dfi')
  <2>1. PICK v : slices' = [slices EXCEPT ![y].age = v]
    BY <1>4, Zenon DEF Activated, Overdue
  <2>2. slices'[x] = slices[x] \/ slices'[x] = [slices[x] EXCEPT !.age = v]
    BY <1>1, <2>1
  <2>3. SameWait(slices[x], slices[x]) /\ SameWait(slices[x], [slices[x] EXCEPT !.age = v])
    BY <1>1, SliceWaits, Zenon
  <2>4. QED
    BY <1>2, <2>2, <2>3, Zenon
<1>5. ASSUME NEW due \in BOOLEAN, Evaluate(due) PROVE HeldSlice(slices[x], slices'[x], dfi')
  <2>1. PICK y, late, idle :
          EvaluateRefresh([z \in Bsc |-> IF z = y THEN Release(slices[z]) ELSE slices[z]], due, late, idle)
    BY <1>5, Zenon DEF Evaluate
  <2>2. \/ slices' = [z \in Bsc |-> IF z = y THEN Release(slices[z]) ELSE slices[z]]
        \/ slices' = SetWaiting([z \in Bsc |-> IF z = y THEN Release(slices[z]) ELSE slices[z]],
                                refresh.refsb_ba, TRUE)
    BY <2>1, Zenon DEF EvaluateRefresh
  <2>3. slices'[x] \in {slices[x], Release(slices[x]), [slices[x] EXCEPT !.waiting = TRUE],
                        [Release(slices[x]) EXCEPT !.waiting = TRUE]}
    BY <2>2, Zenon DEF SetWaiting
  <2>4. QED
    BY <1>1, <1>2, <2>3, SliceWaits
<1>6. CASE Store
  <2>1. PICK now \in ReqUpdate : \E next \in CqStore([now EXCEPT !.wr = Closer(@)]) : slices' = next.a.slices
    BY <1>6, Zenon DEF Store
  <2>2. now.slices = slices \/ \E y, b : now.slices = [slices EXCEPT ![y] = Allocate(@, b)]
    <3>1. now = Current \/ \E y : now = BankSliceAllocation(y, AllocatedBank)
      BY Zenon DEF ReqUpdate
    <3>2. \A y, b : BankSliceAllocation(y, b).slices = [slices EXCEPT ![y] = Allocate(@, b)]
      BY DEF BankSliceAllocation
    <3>3. Current.slices = slices
      BY DEF Current
    <3>4. CASE now = Current
      BY <3>3, <3>4
    <3>5. ASSUME NEW y, now = BankSliceAllocation(y, AllocatedBank)
          PROVE  \E z, b : now.slices = [slices EXCEPT ![z] = Allocate(@, b)]
      <4>1. now.slices = [slices EXCEPT ![y] = Allocate(@, AllocatedBank)]
        BY <3>2, <3>5
      <4>2. QED
        BY <4>1
    <3>6. QED
      BY <3>1, <3>4, <3>5
  <2>3. slices' = now.slices
    <3>1. TablesInv(slices, ba2bsc, rd_cam, wr_cam, ntt)
      BY DEF SliceInv
    <3>2. AInv(now) /\ Used(now.rd) = Used(rd_cam) /\ Used(now.wr) = Used(wr_cam)
      BY <3>1, ReqUpdateTables, Zenon
    <3>3. PICK a : a = [now EXCEPT !.wr = Closer(@)] /\ AInv(a) /\ Grown(now, a)
                   /\ Used(a.rd) = Used(now.rd) /\ Used(a.wr) = Used(now.wr)
      BY <3>2, CloserTables, Zenon
    <3>4. PipFree(pip, a.rd, a.wr)
      BY <3>2, <3>3 DEF SliceInv, PipInv, PipFree, Free
    <3>5. PICK n \in CqStore(a) : slices' = n.a.slices
      BY <2>1, <3>3, Zenon
    <3>6. Grown(a, n.a)
      BY <3>3, <3>4, CqStoreTables, Zenon
    <3>7. QED
      BY <3>3, <3>5, <3>6 DEF Grown
  <2>4. slices'[x] = slices[x] \/ \E b : slices'[x] = Allocate(slices[x], b)
    BY <1>1, <2>2, <2>3
  <2>5. SameWait(slices[x], slices[x]) /\ \A b : SameWait(slices[x], Allocate(slices[x], b))
    BY <1>1, SliceWaits, Zenon
  <2>6. QED
    BY <1>2, <2>4, <2>5, Zenon
<1>7. CASE SendRfm \/ SendRefresh
  <2>1. slices'[x].page = slices[x].page
    BY <1>7, QuietSends DEF SamePages
  <2>2. dfi'.type \in RefreshCommands
    <3>1. \/ dfi' = [type |-> "RFMab"] \/ dfi' = [type |-> "REFab"]
          \/ dfi' = [type |-> "REFsb", bank |-> refresh.refsb_ba]
          \/ \E k : dfi' = [type |-> "RFMsb", bank |-> k]
      BY <1>7, Zenon DEF SendRfm, SendRefresh, Sent
    <3>2. QED
      BY <3>1 DEF RefreshCommands
  <2>3. QED
    BY <2>1, <2>2 DEF HeldSlice
<1>8. CASE SendNothing
  <2>1. slices' = NttUpdate(slices, ntt, rd_cam, wr_cam)
    BY <1>8, Zenon DEF SendNothing, Sent
  <2>2. slices'[x].waiting = slices[x].waiting
    <3>1. NttUpdate(slices, ntt, rd_cam, wr_cam)[x].waiting = slices[x].waiting
      BY <1>1, NttWaits
    <3>2. QED
      BY <2>1, <3>1
  <2>3. slices'[x].page = slices[x].page
    BY <1>8, QuietSends DEF SamePages
  <2>4. QED
    BY <1>2, <2>2, <2>3 DEF SameWait
<1>9. ASSUME NEW y \in Bsc, SendBankCommand(y) PROVE HeldSlice(slices[x], slices'[x], dfi')
  <2>1. PICK c \in ReadyCommands(y) : \E e, rd, wr, batch : SentFor(y, c, e, rd, wr, batch)
    BY <1>9, BankCommandIs, Zenon
  <2>2. PICK e, rd, wr, batch : SentFor(y, c, e, rd, wr, batch)
    BY <2>1
  <2>3. slices[y].ba # NoBank /\ TablesInv(slices, ba2bsc, rd_cam, wr_cam, ntt)
    BY <1>9, BankCommandIs, Zenon DEF SliceInv
  <2>4. e.row \in Row
    BY <1>1, <2>2, <2>3, BankCommandParts, Zenon
  <2>5. SamePages([slices EXCEPT ![y] = Update(@, c.type, e.row)], slices')
    BY <1>1, <2>2, <2>3, BankCommandTables, Zenon
  <2>6. c.type \in RowCommands \union ColCommands
    BY <1>1, <2>3, ReadyCommand, Zenon
  <2>7. c.type = "ACT" => ~slices[y].waiting
    BY <1>1, WaitingOffered, Zenon
  <2> DEFINE u == Update(slices[y], c.type, e.row)
             sl == [slices EXCEPT ![y] = u]
  <2>8. slices[y] \in Slice
    BY <1>1
  <2>9. u \in Slice /\ (slices[y].waiting => SameWait(slices[y], u))
    BY <2>4, <2>6, <2>7, <2>8, CommandUpdate, CommandWaits
  <2>10. slices' = NttUpdate(sl, ntt, rd, wr)
    BY <2>2, Zenon DEF SentFor, Sent
  <2>11. SamePages(sl, slices')
    BY <2>5
  <2> HIDE DEF u
  <2>12. sl \in [Bsc -> Slice] /\ sl[x] = IF x = y THEN u ELSE slices[x]
    BY <1>1, <2>9
  <2> HIDE DEF sl
  <2>13. slices'[x].waiting = sl[x].waiting /\ slices'[x].page = sl[x].page
    <3>1. NttUpdate(sl, ntt, rd, wr)[x].waiting = sl[x].waiting
      BY <2>12, NttWaits
    <3>2. QED
      BY <2>10, <2>11, <3>1 DEF SamePages
  <2>14. slices[x].waiting => SameWait(slices[x], sl[x])
    BY <1>1, <2>9, <2>12, SliceWaits
  <2>15. QED
    BY <2>13, <2>14 DEF SameWait, HeldSlice
<1>10. QED
  BY <1>3, <1>4, <1>5, <1>6, <1>7, <1>8, <1>9, Zenon DEF Next, CmdSend

(* A slice that waits for a refresh opens no page, in any mode and even when it
   changes banks, until a refresh or refresh management has been sent. *)
THEOREM HeldBanksStayClosed == Safety => [][Held]_vars
BY SliceInvariant, HeldStep, PTL DEF Safety

(* While a refresh is critical and cannot be sent, every bank it is for is held. *)
CriticalHolds ==
  /\ refresh.is_critical => refresh.pending > 0
  /\ stage = "send" /\ refresh.is_critical /\ refresh.next = "NOP" =>
       \A x \in Bsc : InRefresh(slices[x], refresh.refsb_ba) => slices[x].waiting

LEMMA CriticalInit == Init => CriticalHolds
BY DEF Init, CriticalHolds

LEMMA EvaluateHolds ==
  ASSUME SliceInv, CriticalHolds, NEW due \in BOOLEAN, Evaluate(due)
  PROVE  CriticalHolds'
<1>1. PICK y, late, idle :
        EvaluateRefresh([z \in Bsc |-> IF z = y THEN Release(slices[z]) ELSE slices[z]], due, late, idle)
  BY Zenon DEF Evaluate
<1> DEFINE sl == [z \in Bsc |-> IF z = y THEN Release(slices[z]) ELSE slices[z]]
           k == refresh.refsb_ba
           pending == IF due THEN refresh.pending + 1 ELSE refresh.pending
           is_critical == \/ refresh.is_critical
                          \/ (pending > 0 /\ (late \/ pending >= POST_PONE_THRESHOLD))
           closed == IsAllBanksClosed(sl, k)
           next == IF pending > 0 /\ closed THEN IF REFAB_ENABLE THEN "REFab" ELSE "REFsb" ELSE "NOP"
<1>2. /\ refresh' = [refresh EXCEPT !.pending = pending, !.is_critical = is_critical, !.next = next]
      /\ slices' = IF pending > 0 /\ ~closed /\ (is_critical \/ idle) THEN SetWaiting(sl, k, TRUE) ELSE sl
  BY <1>1, Zenon DEF EvaluateRefresh
<1>3. refresh \in [pending : 0 .. MaxPending, is_critical : BOOLEAN, sent : BOOLEAN,
                   refsb_ba : 0 .. NumOfBanksPerBg - 1, next : {"NOP", "REFab", "REFsb"}]
  BY DEF SliceInv, RefreshInv
<1>4. is_critical => pending > 0
  BY <1>3 DEF CriticalHolds
<1>5. pending > 0 /\ closed => next # "NOP"
  OBVIOUS
<1> HIDE DEF sl, pending, is_critical, closed, next
<1>6. refresh'.pending = pending /\ refresh'.is_critical = is_critical /\ refresh'.next = next
      /\ refresh'.refsb_ba = k
  BY <1>2, <1>3
<1>7. ASSUME refresh'.is_critical, refresh'.next = "NOP", NEW x \in Bsc, InRefresh(slices'[x], refresh'.refsb_ba)
      PROVE  slices'[x].waiting
  <2>1. slices' = SetWaiting(sl, k, TRUE)
    BY <1>2, <1>4, <1>5, <1>6, <1>7
  <2>2. slices'[x] = IF InRefresh(sl[x], k) THEN [sl[x] EXCEPT !.waiting = TRUE] ELSE sl[x]
    BY <2>1 DEF SetWaiting
  <2>3. sl[x] \in Slice
    <3>1. slices[x] \in Slice
      BY DEF SliceInv, TablesInv, Tables
    <3>2. Release(slices[x]) \in Slice
      BY <3>1 DEF Slice, Release
    <3>3. QED
      BY <3>1, <3>2 DEF sl
  <2>4. InRefresh(sl[x], k)
    BY <1>6, <1>7, <2>2
  <2>5. QED
    BY <2>2, <2>3, <2>4 DEF Slice
<1>8. QED
  BY <1>4, <1>6, <1>7 DEF CriticalHolds

LEMMA CriticalNext == SliceInv /\ CriticalHolds /\ [Next]_vars => CriticalHolds'
<1> SUFFICES ASSUME SliceInv, CriticalHolds, [Next]_vars PROVE CriticalHolds'
  OBVIOUS
<1>1. ASSUME refresh' = refresh, stage' # "send" PROVE CriticalHolds'
  BY <1>1 DEF CriticalHolds
<1>2. CASE UNCHANGED vars
  BY <1>2 DEF vars, CriticalHolds, InRefresh
<1>3. CASE (\E r \in Requests : Arrive(r)) \/ \E i \in CamIndex : WriteData(i)
  <2>1. refresh' = refresh /\ stage' = stage /\ stage = "idle"
    BY <1>3, Zenon DEF Arrive, WriteData
  <2>2. QED
    BY <1>1, <2>1
<1>4. ASSUME NEW x \in Bsc, Activated(x) \/ Overdue(x) PROVE CriticalHolds'
  <2>1. refresh' = refresh /\ stage' = stage /\ stage = "idle"
    BY <1>4, Zenon DEF Activated, Overdue
  <2>2. QED
    BY <1>1, <2>1
<1>5. ASSUME NEW due \in BOOLEAN, Evaluate(due) PROVE CriticalHolds'
  BY <1>5, EvaluateHolds
<1>6. CASE Store
  <2>1. refresh' = refresh /\ stage' = "idle"
    BY <1>6, Zenon DEF Store
  <2>2. QED
    BY <1>1, <2>1
<1>7. CASE SendRfm \/ SendNothing
  <2>1. refresh' = refresh /\ stage' = "store"
    BY <1>7, Zenon DEF SendRfm, SendNothing, Sent
  <2>2. QED
    BY <1>1, <2>1
<1>8. ASSUME NEW x \in Bsc, SendBankCommand(x) PROVE CriticalHolds'
  <2>1. refresh' = refresh /\ stage' = "store"
    <3>1. PICK c, e, rd, wr, batch : SentFor(x, c, e, rd, wr, batch)
      BY <1>8, BankCommandIs, Zenon
    <3>2. QED
      BY <1>8, <3>1, BankCommandIs, Zenon DEF SentFor, Sent
  <2>2. QED
    BY <1>1, <2>1
<1>9. CASE SendRefresh
  <2> DEFINE pending == refresh.pending - 1
             is_critical == refresh.is_critical /\ pending > POSTPONE_LOW_THRESHOLD
  <2>1. PICK next_ba : refresh' = [refresh EXCEPT !.pending = pending, !.is_critical = is_critical,
                                                  !.refsb_ba = next_ba, !.sent = TRUE]
    BY <1>9, Zenon DEF SendRefresh
  <2>2. stage' = "store"
    BY <1>9, Zenon DEF SendRefresh, Sent
  <2>3. refresh \in [pending : 0 .. MaxPending, is_critical : BOOLEAN, sent : BOOLEAN,
                     refsb_ba : 0 .. NumOfBanksPerBg - 1, next : {"NOP", "REFab", "REFsb"}]
    BY DEF SliceInv, RefreshInv
  <2>4. is_critical => pending > 0
    BY <2>3, ControllerAssumption
  <2> HIDE DEF pending, is_critical
  <2>5. refresh'.is_critical = is_critical /\ refresh'.pending = pending
    BY <2>1, <2>3
  <2>6. QED
    BY <2>2, <2>4, <2>5 DEF CriticalHolds
<1>10. QED
  BY <1>2, <1>3, <1>4, <1>5, <1>6, <1>7, <1>8, <1>9, Zenon DEF Next, CmdSend

(* In a run that finds a refresh critical and one of its banks open, no command
   opens a page in any bank the refresh is for, not even in one that was closed. *)
OpensNothing ==
  stage = "send" /\ refresh.is_critical /\ refresh.next = "NOP" =>
    \A x \in Bsc : InRefresh(slices[x], refresh.refsb_ba) => slices'[x].page \in {slices[x].page, Closed}

THEOREM CriticalRefreshOpensNothing == Safety => []CriticalHolds /\ [][OpensNothing]_vars
<1>1. Safety => []CriticalHolds
  BY CriticalInit, CriticalNext, SliceInvariant, PTL DEF Safety
<1>2. CriticalHolds /\ SliceInv /\ [Next]_vars => [OpensNothing]_vars
  <2>1. CriticalHolds /\ Held => OpensNothing
    BY DEF CriticalHolds, Held, HeldSlice, OpensNothing
  <2>2. QED
    BY <2>1, HeldStep
<1>3. QED
  BY <1>1, <1>2, SliceInvariant, PTL DEF Safety
=============================================================================
