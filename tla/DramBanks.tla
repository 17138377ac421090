----------------------------- MODULE DramBanks -----------------------------
(***************************************************************************)
(* What the memory expects of the commands of one rank, whatever their      *)
(* timing: a page is opened only in a closed bank, data is moved only in    *)
(* the open page, and a bank is refreshed only while it is closed.  The     *)
(* controller implements it (Controller!DramSpec).                          *)
(***************************************************************************)
CONSTANTS
  Bank,       \* banks of the rank, [bg, bank]
  Row,
  Closed      \* no row is open

VARIABLES
  page,       \* [Bank -> Row \union {Closed}]
  command     \* the command on the DFI in this cycle

Nop == [type |-> "NOP"]

Init == page = [b \in Bank |-> Closed] /\ command = Nop

Activate(b, r) ==
  /\ page[b] = Closed
  /\ page' = [page EXCEPT ![b] = r]
  /\ command' = [type |-> "ACT", ba |-> b, row |-> r]

(* The row a precharge carries means nothing. *)
Precharge(b, r) ==
  /\ page' = [page EXCEPT ![b] = Closed]
  /\ command' = [type |-> "PRE", ba |-> b, row |-> r]

Access(b, r, type) ==
  /\ page[b] = r
  /\ page' = IF type \in {"RDA", "WRA"} THEN [page EXCEPT ![b] = Closed] ELSE page
  /\ command' = [type |-> type, ba |-> b, row |-> r]

RefreshAll ==
  /\ \A b \in Bank : page[b] = Closed
  /\ command' = [type |-> "REFab"]
  /\ UNCHANGED page

(* The banks of one number in all bankgroups. *)
RefreshSame(k) ==
  /\ \A b \in Bank : b.bank = k => page[b] = Closed
  /\ command' = [type |-> "REFsb", bank |-> k]
  /\ UNCHANGED page

(* Refresh management is sent whatever the banks hold: the controller does not
   look at their pages before it sends an RFMab or an RFMsb. *)
RefreshManage ==
  /\ \/ command' = [type |-> "RFMab"]
     \/ \E k \in {b.bank : b \in Bank} : command' = [type |-> "RFMsb", bank |-> k]
  /\ UNCHANGED page

Deselect == command' = Nop /\ UNCHANGED page

Next ==
  \/ \E b \in Bank, r \in Row :
       \/ Activate(b, r) \/ Precharge(b, r)
       \/ \E type \in {"RD", "RDA", "WR", "WRA"} : Access(b, r, type)
  \/ RefreshAll \/ RefreshManage \/ Deselect
  \/ \E k \in {b.bank : b \in Bank} : RefreshSame(k)

Spec == Init /\ [][Next]_<<page, command>>
=============================================================================
