----------------------------- MODULE CommandCam -----------------------------
(***************************************************************************)
(* RdCam and WrCam (CamIF), and the filters that choose among their         *)
(* commands.  A CAM is a record: the stored commands by index, their order  *)
(* of arrival, and the indices DetectAddrCollision found (busy).  The lists *)
(* per bank of the code are the commands of the bank in arrival order.      *)
(***************************************************************************)
EXTENDS Naturals, Sequences, SequencesExt

CONSTANTS
  CamIndex,          \* RD_CAM_DEPTH and WR_CAM_DEPTH indices
  NoEntry,           \* no command at this index
  PREFER_HIT_HPR,    \* is_prefer_hit_than_hpr
  WriteDelay         \* rounds from the store of a write to its data (wait)

ASSUME CamAssumption == NoEntry \notin CamIndex /\ WriteDelay \in Nat \ {0}

EmptyCam == [store |-> [i \in CamIndex |-> NoEntry], order |-> <<>>, collision |-> {}]

(* A command as the pipe buffer hands it over; `wait' counts down to the data
   (data_ready is wait = 0; a read waits for none). *)
NewEntry(req, wait) ==
  [cmd |-> req.cmd, ba |-> req.ba, row |-> req.row, col |-> req.col, prio |-> req.prio,
   hit |-> FALSE, alloc |-> FALSE, coll |-> FALSE, wait |-> wait]

IsCamExist(cam, i) == i \in CamIndex /\ cam.store[i] # NoEntry
Used(cam) == {i \in CamIndex : cam.store[i] # NoEntry}
BaOrderList(cam, b) == {i \in Used(cam) : cam.store[i].ba = b}
UnallocatedBscCamIndex(cam) == {i \in Used(cam) : ~cam.store[i].alloc}
IsAvailable(cam) == \E i \in Used(cam) : cam.store[i].alloc /\ cam.store[i].wait = 0
IsBaListAvail(cam, b) ==
  \E i \in BaOrderList(cam, b) : cam.store[i].alloc /\ cam.store[i].wait = 0

StoreRequest(cam, i, entry) ==
  [cam EXCEPT !.store[i] = entry, !.order = Append(@, i)]

(* Mutants: the oldest command goes; the order list keeps the index. *)
DeleteCamEntry_oldest(cam, i) ==
  LET first == Head(cam.order)
  IN  [store |-> [cam.store EXCEPT ![first] = NoEntry], order |-> Tail(cam.order),
       collision |-> cam.collision \ {first}]
DeleteCamEntry_order_left(cam, i) ==
  [cam EXCEPT !.store[i] = NoEntry, !.collision = @ \ {i}]

DeleteCamEntry(cam, i) ==
  [store |-> [cam.store EXCEPT ![i] = NoEntry],
   order |-> RemoveAt(cam.order, CHOOSE n \in DOMAIN cam.order : cam.order[n] = i),
   collision |-> IF cam.store[i].coll THEN cam.collision \ {i} ELSE cam.collision]

Marked(cam, S, Mark(_)) ==
  [cam EXCEPT !.store = [i \in CamIndex |-> IF i \in S THEN Mark(cam.store[i]) ELSE cam.store[i]]]

(* Mutant: a hit of the page before is not cleared. *)
SetBaPageHit_sticky(cam, b, row) ==
  Marked(cam, BaOrderList(cam, b), LAMBDA e : [e EXCEPT !.hit = @ \/ e.row = row])

SetBaPageHit(cam, b, row) ==
  Marked(cam, BaOrderList(cam, b), LAMBDA e : [e EXCEPT !.hit = e.row = row])
SetBaPageClose(cam, b) ==
  Marked(cam, BaOrderList(cam, b), LAMBDA e : [e EXCEPT !.hit = FALSE])
SetAllocateBsc(cam, b) ==
  Marked(cam, BaOrderList(cam, b), LAMBDA e : [e EXCEPT !.hit = FALSE, !.alloc = TRUE])

(* Mutant: the command is not marked as allocated. *)
SetBaMatch_unallocated(cam, i, page) ==
  Marked(cam, {i}, LAMBDA e : [e EXCEPT !.hit = e.row = page])

SetBaMatch(cam, i, page) ==
  Marked(cam, {i}, LAMBDA e : [e EXCEPT !.hit = e.row = page, !.alloc = TRUE])

-----------------------------------------------------------------------------
(* CamFilter. *)

(* The first of the order list that is in S. *)
GetOldestCamIndex(cam, S) ==
  cam.order[CHOOSE n \in DOMAIN cam.order :
              /\ cam.order[n] \in S
              /\ \A m \in DOMAIN cam.order : cam.order[m] \in S => n <= m]

(* The filters look at one set of candidates after the other; the first that has
   a command decides.  No command ever expires: expired_time counts only for
   classes the port does not issue, and ahead_scheduled_cmd_num is never advanced. *)
OldestElse(cam, S, otherwise) == IF S # {} THEN GetOldestCamIndex(cam, S) ELSE otherwise

GetSelectedWrCamIndex(cam, S) ==
  OldestElse(cam, {i \in S : cam.store[i].coll}, GetOldestCamIndex(cam, S))

GetSelectedRdCamIndex(cam, S, lpr_critical) ==
  LET Of(class) == {i \in S : cam.store[i].prio = class}
      Hit(class) == {i \in Of(class) : cam.store[i].hit}
      first == IF lpr_critical THEN "LPR" ELSE "HPR"
      second == IF lpr_critical THEN "HPR" ELSE "LPR"
      last == GetOldestCamIndex(cam, Of(second))
  IN  OldestElse(cam, {i \in S : cam.store[i].coll}, OldestElse(cam, Hit(first),
        IF PREFER_HIT_HPR
          THEN OldestElse(cam, Hit(second), OldestElse(cam, Of(first), last))
          ELSE OldestElse(cam, Of(first), OldestElse(cam, Hit(second), last))))

-----------------------------------------------------------------------------
(* InputProcess::DetectAddrCollision on one CAM.  DecodedAddress::operator==
   compares the bank of one address with the bankgroup of the other. *)
AddressEqual(e, d) ==
  /\ e.ba.bg = d.ba.bg /\ e.ba.bank = d.ba.bg
  /\ e.row = d.row /\ e.col = d.col

(* Two reads of one address do not collide; a request of no valid type leaves
   the flag of the commands it equals as it was. *)
Collides(e, d) ==
  /\ AddressEqual(e, d)
  /\ IF d.cmd = "Invalid" THEN e.coll ELSE ~(e.cmd = "RD" /\ d.cmd = "RD")

DetectAddrCollision(cam, d) ==
  [Marked(cam, Used(cam), LAMBDA e : [e EXCEPT !.coll = Collides(e, d)])
     EXCEPT !.collision =
       {i \in Used(cam) : d.cmd # "Invalid" /\ Collides(cam.store[i], d)}]
=============================================================================
